-------------------------- MODULE BPlusTreeProofs ---------------------------
(***************************************************************************)
(* What calls do to the pages of the B+ tree: pages are divided, enlarged  *)
(* and removed (insertRecord, updateRecord, deleteRecord). With it the     *)
(* tree's inductive invariant is complete, and the theorems follow from    *)
(* it.                                                                     *)
(***************************************************************************)
EXTENDS BPlusTreeBalance

LEMMA NotBelowOnce ==
  ASSUME NEW s, NEW k \in Nat, NEW i, NEW j, Len(s) \in Nat, \A x \in 1 .. Len(s) : s[x] \in Nat,
         NotBelowAt(s, k, i), NotBelowAt(s, k, j)
  PROVE  i = j
<1>1. /\ i \in 1 .. (Len(s) + 1) /\ (i <= Len(s) => s[i] >= k) /\ \A x \in 1 .. Len(s) : x < i => s[x] < k
      /\ j \in 1 .. (Len(s) + 1) /\ (j <= Len(s) => s[j] >= k) /\ \A x \in 1 .. Len(s) : x < j => s[x] < k
  BY DEF NotBelowAt
<1>2. ~(i < j)
  <2>1. SUFFICES ASSUME i < j PROVE FALSE
    OBVIOUS
  <2>2. i \in 1 .. Len(s)
    BY <1>1, <2>1
  <2>. QED
    BY <1>1, <2>1, <2>2
<1>3. ~(j < i)
  <2>1. SUFFICES ASSUME j < i PROVE FALSE
    OBVIOUS
  <2>2. j \in 1 .. Len(s)
    BY <1>1, <2>1
  <2>. QED
    BY <1>1, <2>1, <2>2
<1>. QED
  BY <1>1, <1>2, <1>3

LEMMA MaxKeyIs ==
  ASSUME NEW p, PageType(p), DOMAIN p # {}
  PROVE  MaxKey(p) \in DOMAIN p /\ MaxKey(p) \in Nat /\ MaxKey(p) \in Key /\ \A x \in DOMAIN p : x <= MaxKey(p)
<1>1. DOMAIN p \subseteq Key /\ IsFiniteSet(DOMAIN p)
  BY DEF PageType
<1>2. DOMAIN p \in SUBSET Nat
  BY <1>1, KeyAssumption
<1>3. MaxKey(p) = Max(DOMAIN p)
  BY DEF MaxKey
<1>4. Max(DOMAIN p) \in DOMAIN p /\ \A x \in DOMAIN p : x <= Max(DOMAIN p)
  BY <1>1, <1>2, MaxIs
<1>. QED
  BY <1>1, <1>2, <1>3, <1>4

\* The page at i in the leaf at a can be divided into these two.
Parts(t, lo, nx, a, i, lower, upper) ==
  /\ a \in Nodes(t) /\ Leaf(t, a) /\ i \in 1 .. Len(Kids(t, a))
  /\ PageType(lower) /\ PageType(upper) /\ DOMAIN lower # {} /\ DOMAIN upper # {}
  /\ \A x \in DOMAIN lower, y \in DOMAIN upper : x < y
  /\ \A x \in DOMAIN lower : LoAt(t, lo, a, i) < x /\ x <= Keys(t, a)[i]
  /\ \A y \in DOMAIN upper : y <= Keys(t, a)[i] \/ (i = Len(Kids(t, a)) /\ (nx[a] # 0 => y <= lo[nx[a]]))

\* Pages of the tree but for the one divided, and the new one.
TwoPages(t, pg, lower, b, upper) == MarkPage(MarkPage(t, pg, lower), b, upper)

LEMMA TwoPagesAre ==
  ASSUME NEW t, Formed(t), NEW pg, NEW b, NEW lower, NEW upper, pg # b
  PROVE  LET v == TwoPages(t, pg, lower, b, upper) IN
         /\ Formed(v) /\ v.root = t.root /\ v.node = t.node /\ IsMap(v.page)
         /\ DOMAIN v.page = DOMAIN t.page \union {pg, b} /\ v.page[pg] = lower /\ v.page[b] = upper
         /\ \A x \in DOMAIN t.page : x # pg /\ x # b => v.page[x] = t.page[x]
<1> DEFINE u == MarkPage(t, pg, lower)
           v == MarkPage(u, b, upper)
<1>1. /\ Formed(u) /\ u.root = t.root /\ u.node = t.node /\ DOMAIN u.page = DOMAIN t.page \union {pg}
      /\ u.page[pg] = lower /\ \A x \in DOMAIN t.page : x # pg => u.page[x] = t.page[x]
  BY PageMarked
<1>. HIDE DEF u
<1>2. /\ Formed(v) /\ v.root = u.root /\ v.node = u.node /\ IsMap(v.page) /\ DOMAIN v.page = DOMAIN u.page \union {b}
      /\ v.page[b] = upper /\ \A x \in DOMAIN u.page : x # b => v.page[x] = u.page[x]
  BY <1>1, PageMarked
<1>. HIDE DEF v
<1>3. DOMAIN v.page = DOMAIN t.page \union {pg, b}
  BY <1>1, <1>2
<1>4. v.page[pg] = lower /\ \A x \in DOMAIN t.page : x # pg /\ x # b => v.page[x] = t.page[x]
  BY <1>1, <1>2
<1>5. TwoPages(t, pg, lower, b, upper) = v
  BY DEF TwoPages, u, v
<1>. QED
  BY <1>1, <1>2, <1>3, <1>4, <1>5

LEMMA OnePlace ==
  ASSUME NEW t, NEW lv, NEW lo, NEW nx, NEW loose, NEW over, Good(t, lv, lo, nx, loose, over),
         NEW x \in Nodes(t), NEW y \in Nodes(t), Leaf(t, x), Leaf(t, y),
         NEW i \in 1 .. Len(Kids(t, x)), NEW j \in 1 .. Len(Kids(t, y)), Kids(t, x)[i] = Kids(t, y)[j]
  PROVE  x = y /\ i = j
<1>1. x = y
  BY DEF Good, Placed
<1>2. Arrays(t)
  BY DEF Good
<1>. QED
  BY <1>1, <1>2 DEF Arrays

LEMMA TwoPagesGood ==
  ASSUME NEW t, NEW lv, NEW lo, NEW nx, NEW a, NEW i, NEW lower, NEW upper, NEW b,
         Good(t, lv, lo, nx, {}, 0), Parts(t, lo, nx, a, i, lower, upper), b = FreeAddress(DOMAIN t.page)
  PROVE  /\ Good(TwoPages(t, Kids(t, a)[i], lower, b, upper), lv, lo, nx, {b}, 0)
         /\ b \notin DOMAIN t.page /\ Kids(t, a)[i] \in DOMAIN t.page
<1> DEFINE pg == Kids(t, a)[i]
           v == TwoPages(t, pg, lower, b, upper)
<1>1. Typed(t) /\ Filed(t, lo) /\ Placed(t, {})
  BY DEF Good
<1>2. a \in Nodes(t) /\ Leaf(t, a) /\ i \in 1 .. Len(Kids(t, a)) /\ PageType(lower) /\ PageType(upper)
      /\ \A x \in DOMAIN lower : LoAt(t, lo, a, i) < x /\ x <= Keys(t, a)[i]
  BY DEF Parts
<1>3. /\ Formed(t) /\ IsMap(t.node) /\ t.root \in Nodes(t) /\ \A x \in Nodes(t) : t.node[x] \in NodeType
      /\ IsFiniteSet(Nodes(t)) /\ Nodes(t) \subseteq Nat \ {0} /\ IsFiniteSet(DOMAIN t.page)
      /\ DOMAIN t.page \subseteq Nat \ {0} /\ DOMAIN t.page \subseteq Nat
      /\ \A x \in DOMAIN t.page : PageType(t.page[x])
  BY <1>1, TypedParts
<1>4. b \in Nat \ {0} /\ b \notin DOMAIN t.page
  BY <1>3, FreeAddressIs
<1>5. pg \in DOMAIN t.page
  BY <1>1, <1>2 DEF Filed
<1>6. pg # b
  BY <1>4, <1>5
<1>. HIDE DEF pg
<1>7. /\ Formed(v) /\ v.root = t.root /\ v.node = t.node /\ IsMap(v.page)
      /\ DOMAIN v.page = DOMAIN t.page \union {pg, b} /\ v.page[pg] = lower /\ v.page[b] = upper
      /\ \A x \in DOMAIN t.page : x # pg /\ x # b => v.page[x] = t.page[x]
  BY <1>3, <1>6, TwoPagesAre
<1>. HIDE DEF v
<1>8. DOMAIN v.page = DOMAIN t.page \union {b}
  BY <1>5, <1>7
<1>9. Typed(v)
  <2>1. \A x \in DOMAIN v.page : PageType(v.page[x])
    BY <1>2, <1>3, <1>7
  <2>2. IsFiniteSet(DOMAIN v.page) /\ DOMAIN v.page \subseteq Nat \ {0}
    BY <1>3, <1>4, <1>8, FS_AddElement
  <2>3. Nodes(v) = Nodes(t)
    BY <1>7 DEF Nodes
  <2>4. IsMap(v.node) /\ \A x \in Nodes(v) : v.node[x] \in NodeType
    BY <1>3, <1>7, <2>3
  <2>. QED
    BY <1>3, <1>7, <2>1, <2>2, <2>3, <2>4, MadeTree
<1>10. ASSUME NEW x \in Nodes(t), Leaf(t, x), NEW j \in 1 .. Len(Kids(t, x))
       PROVE  /\ Kids(t, x)[j] \in DOMAIN v.page
              /\ \A k \in DOMAIN v.page[Kids(t, x)[j]] : LoAt(t, lo, x, j) < k /\ k <= Keys(t, x)[j]
  <2>1. Kids(t, x)[j] \in DOMAIN t.page
        /\ \A k \in DOMAIN t.page[Kids(t, x)[j]] : LoAt(t, lo, x, j) < k /\ k <= Keys(t, x)[j]
    BY <1>1, <1>10 DEF Filed
  <2>2. CASE Kids(t, x)[j] = pg
    <3>1. Kids(t, x)[j] = Kids(t, a)[i]
      BY <2>2 DEF pg
    <3>2. x = a /\ j = i
      BY <1>2, <1>10, <3>1, OnePlace
    <3>. QED
      BY <1>2, <1>7, <1>8, <2>1, <2>2, <3>2
  <2>3. CASE Kids(t, x)[j] # pg
    BY <1>4, <1>7, <1>8, <2>1, <2>3
  <2>. QED
    BY <2>2, <2>3
<1>11. Placed(v, {b})
  <2>1. \A x \in Nodes(t) : Leaf(v, x) = Leaf(t, x) /\ Kids(v, x) = Kids(t, x)
    BY <1>7 DEF Leaf, Kids
  <2>2. Nodes(v) = Nodes(t)
    BY <1>7 DEF Nodes
  <2>3. Placed(v, {} \union {b})
    BY <1>1, <1>4, <1>8, <2>1, <2>2, PlacedMore
  <2>4. {} \union {b} = {b}
    OBVIOUS
  <2>. QED
    BY <2>3, <2>4
<1>12. Good(v, lv, lo, nx, {b}, 0)
  BY <1>7, <1>9, <1>10, <1>11, PagesEdit
<1>. QED
  BY <1>4, <1>5, <1>12 DEF v, pg

\* The leaf once its i-th page keeps keys up to l only.
KeyIsLowered(t, lv, lo, nx, loose, a, i, l, u) ==
  /\ Good(u, lv, lo, nx, loose, 0) /\ u.page = t.page /\ Nodes(u) = Nodes(t) /\ u.root = t.root
  /\ Leaf(u, a) /\ Kids(u, a) = Kids(t, a) /\ Len(Keys(u, a)) = Len(Keys(t, a)) /\ Top(u, a) = Top(t, a)
  /\ \A j \in 1 .. Len(Keys(t, a)) : Keys(u, a)[j] = IF j = i THEN l ELSE Keys(t, a)[j]
  /\ \A x \in Nodes(t) : Leaf(u, x) = Leaf(t, x) /\ Kids(u, x) = Kids(t, x)
  /\ u.node[a] = [t.node[a] EXCEPT !.keys[i] = l]

LEMMA KeyLowered ==
  ASSUME NEW t, NEW lv, NEW lo, NEW nx, NEW loose, NEW a, NEW i, NEW l \in Key,
         Good(t, lv, lo, nx, loose, 0), a \in Nodes(t), Leaf(t, a), i \in 1 .. Len(Kids(t, a)),
         LoAt(t, lo, a, i) < l, l <= Keys(t, a)[i], \A x \in DOMAIN t.page[Kids(t, a)[i]] : x <= l
  PROVE  KeyIsLowered(t, lv, lo, nx, loose, a, i, l, MarkNode(t, a, [t.node[a] EXCEPT !.keys[i] = l]))
<1> DEFINE n == [t.node[a] EXCEPT !.keys[i] = l]
           u == MarkNode(t, a, n)
<1>1. Typed(t) /\ Filed(t, lo) /\ Placed(t, loose) /\ Arrays(t) /\ Ordered(t, lv, lo, nx)
  BY DEF Good
<1>2. t.node[a] \in NodeType
  BY <1>1, TypedParts
<1>3. /\ Len(Kids(t, a)) \in Nat /\ Len(Keys(t, a)) = Len(Kids(t, a)) /\ Len(Kids(t, a)) >= 1
      /\ \A j \in 1 .. Len(Kids(t, a)) : Keys(t, a)[j] \in Nat /\ Keys(t, a)[j] \in Key
      /\ \A j, m \in 1 .. Len(Kids(t, a)) : j < m => Keys(t, a)[j] < Keys(t, a)[m]
      /\ \A j \in 1 .. Len(Kids(t, a)) : lo[a] < Keys(t, a)[j] /\ Keys(t, a)[j] <= Top(t, a)
      /\ lo[a] \in Int /\ Top(t, a) \in Nat /\ l \in Nat
  BY LeafKeys, KeyAssumption
<1>4. /\ n \in NodeType /\ n.leaf = t.node[a].leaf /\ n.kids = t.node[a].kids /\ n.max = t.node[a].max
      /\ n.parent = t.node[a].parent /\ n.prev = t.node[a].prev /\ n.next = t.node[a].next
      /\ Len(n.keys) = Len(t.node[a].keys)
      /\ \A j \in 1 .. Len(t.node[a].keys) : n.keys[j] = IF j = i THEN l ELSE t.node[a].keys[j]
  <2>1. i \in 1 .. Len(t.node[a].keys)
    BY <1>3 DEF Keys
  <2>. QED
    BY <1>2, <2>1, Rekeyed
<1>. HIDE DEF n
<1>5. EditedTo(t, u, a, n)
  BY <1>1, <1>4, EditedBy
<1>. HIDE DEF u
<1>6. /\ Edited(t, u, a) /\ u.page = t.page /\ u.node[a] = n
      /\ Kids(u, a) = Kids(t, a) /\ Keys(u, a) = n.keys /\ Top(u, a) = Top(t, a)
  BY <1>4, <1>5 DEF EditedTo, Kids, Keys, Top
<1>7. /\ Len(Keys(u, a)) = Len(Keys(t, a))
      /\ \A j \in 1 .. Len(Keys(t, a)) : Keys(u, a)[j] = IF j = i THEN l ELSE Keys(t, a)[j]
  BY <1>4, <1>6 DEF Keys
<1>8. /\ Nodes(u) = Nodes(t) /\ u.root = t.root
      /\ \A x \in Nodes(t) : Leaf(u, x) = Leaf(t, x) /\ Kids(u, x) = Kids(t, x)
  BY <1>6, EditFacts
<1>9. Placed(u, loose)
  BY <1>1, <1>6, <1>8, PlacedSame
<1>10. FiledAt(u, lo, a)
  <2>1. \A x, y \in 1 .. Len(Kids(u, a)) : Kids(u, a)[x] = Kids(u, a)[y] => x = y
    BY <1>1, <1>6 DEF Arrays
  <2>2. ASSUME NEW j \in 1 .. Len(Kids(u, a))
        PROVE  /\ Kids(u, a)[j] \in DOMAIN u.page
               /\ LoAt(u, lo, a, j) < Keys(u, a)[j] /\ Keys(u, a)[j] <= Top(u, a)
               /\ \A k \in DOMAIN u.page[Kids(u, a)[j]] : LoAt(u, lo, a, j) < k /\ k <= Keys(u, a)[j]
    <3>1. j \in 1 .. Len(Kids(t, a)) /\ j \in 1 .. Len(Keys(t, a))
      BY <1>3, <1>6
    <3>2. /\ Kids(t, a)[j] \in DOMAIN t.page /\ LoAt(t, lo, a, j) < Keys(t, a)[j] /\ Keys(t, a)[j] <= Top(t, a)
          /\ \A k \in DOMAIN t.page[Kids(t, a)[j]] : LoAt(t, lo, a, j) < k /\ k <= Keys(t, a)[j]
      BY <1>1, <3>1 DEF Filed
    <3>3. LoAt(u, lo, a, j) = IF j = i + 1 THEN l ELSE LoAt(t, lo, a, j)
      <4>1. CASE j = 1
        BY <4>1 DEF LoAt
      <4>2. CASE j # 1
        <5>1. j - 1 \in 1 .. Len(Keys(t, a)) /\ (j - 1 = i <=> j = i + 1)
          BY <1>3, <3>1, <4>2
        <5>. QED
          BY <1>7, <4>2, <5>1 DEF LoAt
      <4>. QED
        BY <4>1, <4>2
    <3>4. CASE j = i
      BY <1>3, <1>6, <1>7, <3>1, <3>2, <3>3, <3>4
    <3>5. CASE j = i + 1
      <4>1. Keys(u, a)[j] = Keys(t, a)[j] /\ LoAt(u, lo, a, j) = l /\ LoAt(t, lo, a, j) = Keys(t, a)[i]
        BY <1>3, <1>7, <3>1, <3>3, <3>5 DEF LoAt
      <4>2. \A k \in DOMAIN t.page[Kids(t, a)[j]] : k \in Nat
        BY <1>1, <3>2, PageFields
      <4>. QED
        BY <1>3, <1>6, <3>1, <3>2, <4>1, <4>2
    <3>6. CASE j # i /\ j # i + 1
      BY <1>6, <1>7, <3>1, <3>2, <3>3, <3>6
    <3>. QED
      BY <3>4, <3>5, <3>6
  <2>3. Len(Kids(u, a)) >= 1 /\ Len(Keys(u, a)) = Len(Kids(u, a))
    BY <1>3, <1>6, <1>7
  <2>. QED
    BY <2>1, <2>2, <2>3 DEF FiledAt
<1>11. nx[a] # 0 => Top(u, a) <= lo[nx[a]]
  BY <1>1, <1>6 DEF Ordered
<1>12. Top(u, a) <= Top(t, a)
  BY <1>3, <1>6
<1>13. Good(u, lv, lo, nx, loose, 0)
  BY <1>5, <1>9, <1>10, <1>11, <1>12, LeafKeeps
<1>14. Leaf(u, a)
  BY <1>8
<1>15. KeyIsLowered(t, lv, lo, nx, loose, a, i, l, u)
  BY <1>6, <1>7, <1>8, <1>13, <1>14 DEF KeyIsLowered, n
<1>. QED
  BY <1>15 DEF u, n

\* What AddPageAfter finds and files.
LEMMA AddPageAfterIs ==
  ASSUME NEW t, NEW pg, NEW l, NEW new, NEW upper, NEW a, NEW i, NEW u, NEW k,
         FindLeaf(t, l) = a, FirstNotBelow(Keys(t, a), l) = i,
         u = MarkNode(t, a, [t.node[a] EXCEPT !.keys[i] = l]),
         k = IF upper > Keys(t, a)[i] THEN upper ELSE Keys(t, a)[i]
  PROVE  AddPageAfter(t, pg, l, new, upper) = AddPage(u, [t.node[a] EXCEPT !.keys[i] = l], a, k, new)
BY DEF AddPageAfter, Keys

LEMMA SplitPageStands ==
  ASSUME NEW t, NEW lv, NEW lo, NEW nx, NEW a, NEW i, NEW lower, NEW upper,
         Good(t, lv, lo, nx, {}, 0), Roomy(t, 0), Parts(t, lo, nx, a, i, lower, upper)
  PROVE  LET v == SplitPage(t, Kids(t, a)[i], lower, upper) IN
         /\ Stands(v, {})
         /\ v.page = TwoPages(t, Kids(t, a)[i], lower, FreeAddress(DOMAIN t.page), upper).page
<1> DEFINE pg == Kids(t, a)[i]
           b == FreeAddress(DOMAIN t.page)
           s == TwoPages(t, pg, lower, b, upper)
           l == MaxKey(lower)
           h == MaxKey(upper)
           u == MarkNode(s, a, [s.node[a] EXCEPT !.keys[i] = l])
           k == IF h > Keys(s, a)[i] THEN h ELSE Keys(s, a)[i]
<1>1. Good(s, lv, lo, nx, {b}, 0) /\ b \notin DOMAIN t.page /\ pg \in DOMAIN t.page
  BY TwoPagesGood
<1>2. a \in Nodes(t) /\ Leaf(t, a) /\ i \in 1 .. Len(Kids(t, a)) /\ PageType(lower) /\ PageType(upper)
      /\ DOMAIN lower # {} /\ DOMAIN upper # {} /\ (\A x \in DOMAIN lower, y \in DOMAIN upper : x < y)
      /\ (\A x \in DOMAIN lower : LoAt(t, lo, a, i) < x /\ x <= Keys(t, a)[i])
      /\ \A y \in DOMAIN upper : y <= Keys(t, a)[i] \/ (i = Len(Kids(t, a)) /\ (nx[a] # 0 => y <= lo[nx[a]]))
  BY DEF Parts
<1>3. /\ s.root = t.root /\ s.node = t.node
      /\ DOMAIN s.page = DOMAIN t.page \union {pg, b} /\ s.page[pg] = lower /\ s.page[b] = upper
  <2>1. Formed(t)
    BY DEF Good, Typed
  <2>2. pg # b
    BY <1>1
  <2>. QED
    BY <2>1, <2>2, TwoPagesAre
<1>4. SplitPage(t, pg, lower, upper) = AddPageAfter(s, pg, l, b, h)
  BY DEF SplitPage, TwoPages
<1>5. /\ l \in DOMAIN lower /\ l \in Nat /\ l \in Key /\ (\A x \in DOMAIN lower : x <= l)
      /\ h \in DOMAIN upper /\ h \in Nat /\ h \in Key /\ (\A x \in DOMAIN upper : x <= h)
  BY <1>2, MaxKeyIs
<1>. HIDE DEF s, b, l, h
<1>6. /\ a \in Nodes(s) /\ Leaf(s, a) /\ Kids(s, a) = Kids(t, a) /\ Keys(s, a) = Keys(t, a)
      /\ LoAt(s, lo, a, i) = LoAt(t, lo, a, i) /\ i \in 1 .. Len(Kids(s, a)) /\ Roomy(s, 0)
  BY <1>2, <1>3 DEF Nodes, Leaf, Kids, Keys, LoAt, Roomy
<1>7. /\ Len(Kids(s, a)) \in Nat /\ Len(Keys(s, a)) = Len(Kids(s, a))
      /\ \A j \in 1 .. Len(Kids(s, a)) : Keys(s, a)[j] \in Nat /\ Keys(s, a)[j] \in Key
      /\ \A j, m \in 1 .. Len(Kids(s, a)) : j < m => Keys(s, a)[j] < Keys(s, a)[m]
      /\ \A j \in 1 .. Len(Kids(s, a)) : lo[a] < Keys(s, a)[j] /\ Keys(s, a)[j] <= Top(s, a)
      /\ lo[a] \in Int /\ Top(s, a) \in Nat
  BY <1>1, <1>6, LeafKeys
<1>8. LoAt(s, lo, a, i) < l /\ l <= Keys(s, a)[i] /\ l < h
  BY <1>2, <1>5, <1>6
<1>9. lo[a] < l /\ l <= Top(s, a) /\ (i # 1 => Keys(s, a)[i - 1] < l)
  <2>1. CASE i = 1
    BY <1>5, <1>6, <1>7, <1>8, <2>1 DEF LoAt
  <2>2. CASE i # 1
    <3>1. i - 1 \in 1 .. Len(Kids(s, a)) /\ LoAt(s, lo, a, i) = Keys(s, a)[i - 1]
      BY <1>6, <1>7, <2>2 DEF LoAt
    <3>. QED
      BY <1>5, <1>6, <1>7, <1>8, <3>1
  <2>. QED
    BY <2>1, <2>2
<1>10. FindLeaf(s, l) = a
  BY <1>1, <1>5, <1>6, <1>9, SearchLands
<1>11. FirstNotBelow(Keys(s, a), l) = i
  <2>1. Keys(s, a) \in Seq(Nat)
    <3>1. Typed(s)
      BY <1>1 DEF Good
    <3>. QED
      BY <1>6, <3>1, NodeFields
  <2>2. NotBelowAt(Keys(s, a), l, FirstNotBelow(Keys(s, a), l))
    BY <1>5, <2>1, FirstNotBelowIs
  <2>3. NotBelowAt(Keys(s, a), l, i)
    <3>1. \A j \in 1 .. Len(Keys(s, a)) : j < i => Keys(s, a)[j] < l
      <4>1. SUFFICES ASSUME NEW j \in 1 .. Len(Keys(s, a)), j < i PROVE Keys(s, a)[j] < l
        OBVIOUS
      <4>2. i # 1 /\ i - 1 \in 1 .. Len(Kids(s, a)) /\ j \in 1 .. Len(Kids(s, a)) /\ j <= i - 1
        BY <1>6, <1>7, <4>1
      <4>3. Keys(s, a)[j] <= Keys(s, a)[i - 1]
        BY <1>7, <4>2
      <4>. QED
        BY <1>5, <1>7, <1>9, <4>2, <4>3
    <3>. QED
      BY <1>5, <1>6, <1>7, <1>8, <3>1 DEF NotBelowAt
  <2>. QED
    BY <1>5, <1>7, <2>2, <2>3, NotBelowOnce
<1>12. AddPageAfter(s, pg, l, b, h) = AddPage(u, [s.node[a] EXCEPT !.keys[i] = l], a, k, b)
  BY <1>10, <1>11, AddPageAfterIs
<1>13. /\ Good(u, lv, lo, nx, {b}, 0) /\ u.page = s.page /\ Nodes(u) = Nodes(s) /\ u.root = s.root
       /\ Leaf(u, a) /\ Kids(u, a) = Kids(s, a) /\ Len(Keys(u, a)) = Len(Keys(s, a)) /\ Top(u, a) = Top(s, a)
       /\ \A j \in 1 .. Len(Keys(s, a)) : Keys(u, a)[j] = IF j = i THEN l ELSE Keys(s, a)[j]
       /\ \A x \in Nodes(s) : Leaf(u, x) = Leaf(s, x) /\ Kids(u, x) = Kids(s, x)
       /\ u.node[a] = [s.node[a] EXCEPT !.keys[i] = l]
  <2>1. \A x \in DOMAIN s.page[Kids(s, a)[i]] : x <= l
    BY <1>3, <1>5, <1>6
  <2>. QED
    <3>1. KeyIsLowered(s, lv, lo, nx, {b}, a, i, l, u)
      BY <1>1, <1>5, <1>6, <1>8, <2>1, KeyLowered
    <3>. HIDE DEF u
    <3>. QED
      BY <3>1 DEF KeyIsLowered
<1>14. AddPageAfter(s, pg, l, b, h) = AddPage(u, u.node[a], a, k, b)
  BY <1>12, <1>13
<1>15. Roomy(u, 0)
  BY <1>6, <1>13 DEF Roomy
<1>16. k \in Key /\ k \in Nat /\ h <= k /\ Keys(s, a)[i] <= k /\ (i < Len(Kids(s, a)) => k = Keys(s, a)[i])
       /\ (nx[a] # 0 => k <= lo[nx[a]])
  <2>1. k \in Key /\ k \in Nat /\ h <= k /\ Keys(s, a)[i] <= k
    BY <1>5, <1>6, <1>7
  <2>2. i < Len(Kids(s, a)) => h <= Keys(s, a)[i]
    BY <1>2, <1>5, <1>6, <1>7
  <2>3. i < Len(Kids(s, a)) => k = Keys(s, a)[i]
    BY <1>5, <1>6, <1>7, <2>2
  <2>4. ASSUME nx[a] # 0 PROVE k <= lo[nx[a]]
    <3>1. nx[a] \in Nodes(s) /\ Top(s, a) <= lo[nx[a]]
      BY <1>1, <1>6, <2>4 DEF Good, Ordered
    <3>2. lo[nx[a]] \in Int
      BY <1>1, <3>1, GhostTypes
    <3>3. Keys(s, a)[i] <= lo[nx[a]]
      BY <1>6, <1>7, <3>1, <3>2
    <3>4. h <= Keys(s, a)[i] \/ h <= lo[nx[a]]
      BY <1>2, <1>5, <1>6, <2>4
    <3>. QED
      BY <1>5, <1>6, <1>7, <3>2, <3>3, <3>4
  <2>. QED
    BY <2>1, <2>3, <2>4
<1>. HIDE DEF u, k
<1>17. LoAt(u, lo, a, i + 1) = l
  BY <1>6, <1>7, <1>13 DEF LoAt
<1>18. LeafPlace(u, lo, nx, a, k, i + 1)
  <2>1. i + 1 \in 1 .. (Len(Keys(u, a)) + 1)
    BY <1>6, <1>7, <1>13
  <2>2. i + 1 <= Len(Keys(u, a)) => Keys(u, a)[i + 1] > k
    <3>1. SUFFICES ASSUME i + 1 <= Len(Keys(u, a)) PROVE Keys(u, a)[i + 1] > k
      OBVIOUS
    <3>2. i + 1 \in 1 .. Len(Kids(s, a)) /\ i < Len(Kids(s, a)) /\ i + 1 # i /\ i < i + 1
      BY <1>6, <1>7, <1>13, <3>1
    <3>3. Keys(u, a)[i + 1] = Keys(s, a)[i + 1]
      BY <1>7, <1>13, <3>2
    <3>. QED
      BY <1>6, <1>7, <1>16, <3>2, <3>3
  <2>3. \A j \in 1 .. Len(Keys(u, a)) : j < i + 1 => Keys(u, a)[j] <= k
    <3>1. SUFFICES ASSUME NEW j \in 1 .. Len(Keys(u, a)), j < i + 1 PROVE Keys(u, a)[j] <= k
      OBVIOUS
    <3>2. j \in 1 .. Len(Kids(s, a)) /\ (j = i \/ j < i)
      BY <1>6, <1>7, <1>13, <3>1
    <3>3. CASE j = i
      BY <1>5, <1>6, <1>7, <1>8, <1>13, <1>16, <3>2, <3>3
    <3>4. CASE j < i
      <4>1. Keys(u, a)[j] = Keys(s, a)[j] /\ Keys(s, a)[j] < Keys(s, a)[i]
        BY <1>6, <1>7, <1>13, <3>2, <3>4
      <4>. QED
        BY <1>6, <1>7, <1>16, <3>2, <4>1
    <3>. QED
      BY <3>2, <3>3, <3>4
  <2>4. l < k
    BY <1>5, <1>8, <1>16
  <2>5. AboveAt(Keys(u, a), k, i + 1)
    BY <2>1, <2>2, <2>3 DEF AboveAt
  <2>. QED
    BY <1>16, <1>17, <2>4, <2>5 DEF LeafPlace
<1>19. Belongs(u, lo, nx, a, k, b)
  <2>1. b \in DOMAIN u.page /\ a \in Nodes(u) /\ Leaf(u, a)
    BY <1>3, <1>6, <1>13
  <2>2. \A j \in DOMAIN u.page[b] : LoAt(u, lo, a, i + 1) < j /\ j <= k
    <3>1. SUFFICES ASSUME NEW j \in DOMAIN upper PROVE l < j /\ j <= k
      BY <1>3, <1>13, <1>17
    <3>2. j \in Nat
      BY <1>2, KeyAssumption DEF PageType
    <3>. QED
      BY <1>2, <1>5, <1>16, <3>2
  <2>3. i + 1 <= Len(Kids(u, a)) => \A j \in DOMAIN u.page[Kids(u, a)[i + 1]] : k < j
    <3>1. SUFFICES ASSUME i + 1 <= Len(Kids(u, a)), NEW j \in DOMAIN u.page[Kids(u, a)[i + 1]] PROVE k < j
      OBVIOUS
    <3>2. i + 1 \in 1 .. Len(Kids(s, a)) /\ i < Len(Kids(s, a)) /\ i + 1 # 1 /\ (i + 1) - 1 = i
      BY <1>6, <1>7, <1>13, <3>1
    <3>3. j \in DOMAIN s.page[Kids(s, a)[i + 1]]
      BY <1>13, <3>1
    <3>4. LoAt(s, lo, a, i + 1) < j
      BY <1>1, <1>6, <3>2, <3>3 DEF Good, Filed
    <3>5. LoAt(s, lo, a, i + 1) = Keys(s, a)[i]
      BY <3>2 DEF LoAt
    <3>. QED
      BY <1>16, <3>2, <3>4, <3>5
  <2>. QED
    BY <1>13, <1>16, <1>18, <2>1, <2>2, <2>3, BelongsBy
<1>20. Stands(AddPage(u, u.node[a], a, k, b), {}) /\ AddPage(u, u.node[a], a, k, b).page = u.page
  BY <1>13, <1>15, <1>19, AddPageStands
<1>21. SplitPage(t, pg, lower, upper) = AddPage(u, u.node[a], a, k, b)
  BY <1>4, <1>14
<1>. QED
  BY <1>13, <1>20, <1>21 DEF s, b

\* Room by key, added up.
Sized(p) == DOMAIN p \subseteq Nat /\ IsFiniteSet(DOMAIN p) /\ \A x \in DOMAIN p : p[x] \in Nat

LEMMA PageSized ==
  ASSUME NEW p, PageType(p)
  PROVE  Sized(p)
<1>1. DOMAIN p \subseteq Key /\ IsFiniteSet(DOMAIN p) /\ \A x \in DOMAIN p : p[x] \in Size
  BY DEF PageType
<1>. QED
  BY <1>1, KeyAssumption, SizeAssumption DEF Sized

LEMMA UsedStep ==
  ASSUME NEW p, NEW n \in Nat
  PROVE  UsedBelow(p, 0) = 0 /\ UsedBelow(p, n + 1) = UsedBelow(p, n) + (IF n \in DOMAIN p THEN p[n] ELSE 0)
<1>1. PICK e : Sum(e, 0, p) /\ UsedBelow(p, 0) = e[0]
  BY UsedRuns
<1>2. PICK f : Sum(f, n, p) /\ UsedBelow(p, n) = f[n]
  BY UsedRuns
<1>3. PICK g : Sum(g, n + 1, p) /\ UsedBelow(p, n + 1) = g[n + 1]
  BY UsedRuns
<1>0. /\ e[0] = 0 /\ f[0] = 0 /\ g[0] = 0
      /\ \A i \in 1 .. n : f[i] = f[i - 1] + (IF i - 1 \in DOMAIN p THEN p[i - 1] ELSE 0)
      /\ \A i \in 1 .. (n + 1) : g[i] = g[i - 1] + (IF i - 1 \in DOMAIN p THEN p[i - 1] ELSE 0)
  BY <1>1, <1>2, <1>3 DEF Sum
<1>4. f[n] = g[n]
  <2> DEFINE T == {i \in 0 .. n : f[i] = g[i]}
  <2>1. 0 \in T
    BY <1>0
  <2>2. ASSUME NEW i \in 1 .. n, i - 1 \in T PROVE i \in T
    <3>1. i \in 0 .. n /\ i \in 1 .. (n + 1) /\ f[i - 1] = g[i - 1]
      BY <2>2
    <3>2. f[i] = (f[i - 1] + (IF i - 1 \in DOMAIN p THEN p[i - 1] ELSE 0))
      BY <1>0
    <3>3. g[i] = (g[i - 1] + (IF i - 1 \in DOMAIN p THEN p[i - 1] ELSE 0))
      BY <1>0, <3>1
    <3>4. f[i] = g[i]
      BY <3>1, <3>2, <3>3
    <3>. QED
      BY <3>1, <3>4
  <2>. HIDE DEF T
  <2>3. 0 .. n \subseteq T
    BY <2>1, <2>2, CountingUpTo
  <2>4. n \in T
    BY <2>3
  <2>. QED
    BY <2>4 DEF T
<1>5. g[n + 1] = g[n] + (IF n \in DOMAIN p THEN p[n] ELSE 0)
  <2>1. n + 1 \in 1 .. (n + 1) /\ (n + 1) - 1 = n
    OBVIOUS
  <2>. QED
    BY <1>0, <2>1
<1>. QED
  BY <1>0, <1>1, <1>2, <1>3, <1>4, <1>5

LEMMA UsedNat ==
  ASSUME NEW p, Sized(p), NEW n \in Nat
  PROVE  UsedBelow(p, n) \in Nat
<1> DEFINE T == {i \in 0 .. n : UsedBelow(p, i) \in Nat}
<1>1. 0 \in T
  BY UsedStep
<1>2. ASSUME NEW i \in 1 .. n, i - 1 \in T PROVE i \in T
  <2>1. i - 1 \in Nat /\ (i - 1) + 1 = i /\ UsedBelow(p, i - 1) \in Nat /\ i \in 0 .. n
    BY <1>2
  <2>2. UsedBelow(p, (i - 1) + 1) = UsedBelow(p, i - 1) + (IF i - 1 \in DOMAIN p THEN p[i - 1] ELSE 0)
    BY <2>1, UsedStep
  <2>3. (IF i - 1 \in DOMAIN p THEN p[i - 1] ELSE 0) \in Nat
    BY DEF Sized
  <2>4. UsedBelow(p, i) \in Nat
    BY <2>1, <2>2, <2>3
  <2>. QED
    BY <2>1, <2>4
<1>. HIDE DEF T
<1>3. 0 .. n \subseteq T
  BY <1>1, <1>2, CountingUpTo
<1>. QED
  BY <1>3 DEF T

\* No more records, no more room.
LEMMA UsedLess ==
  ASSUME NEW p, NEW r, Sized(p), Sized(r), NEW n \in Nat,
         \A x \in DOMAIN r : x < n => x \in DOMAIN p /\ r[x] <= p[x]
  PROVE  UsedBelow(r, n) <= UsedBelow(p, n)
<1> DEFINE T == {i \in 0 .. n : UsedBelow(r, i) <= UsedBelow(p, i)}
<1>1. 0 \in T
  <2>1. UsedBelow(r, 0) = 0 /\ UsedBelow(p, 0) = 0
    BY UsedStep
  <2>. QED
    BY <2>1
<1>2. ASSUME NEW i \in 1 .. n, i - 1 \in T PROVE i \in T
  <2>1. i - 1 \in Nat /\ (i - 1) + 1 = i /\ UsedBelow(r, i - 1) <= UsedBelow(p, i - 1) /\ i \in 0 .. n /\ i - 1 < n
    BY <1>2
  <2> DEFINE x == IF i - 1 \in DOMAIN p THEN p[i - 1] ELSE 0
             y == IF i - 1 \in DOMAIN r THEN r[i - 1] ELSE 0
  <2>2. UsedBelow(p, (i - 1) + 1) = UsedBelow(p, i - 1) + x /\ UsedBelow(r, (i - 1) + 1) = UsedBelow(r, i - 1) + y
    BY <2>1, UsedStep
  <2>3. x \in Nat /\ y \in Nat /\ y <= x
    BY <2>1 DEF Sized
  <2>4. UsedBelow(p, i - 1) \in Nat /\ UsedBelow(r, i - 1) \in Nat
    BY <2>1, UsedNat
  <2>. HIDE DEF x, y
  <2>5. UsedBelow(r, i) <= UsedBelow(p, i)
    BY <2>1, <2>2, <2>3, <2>4
  <2>. QED
    BY <2>1, <2>5
<1>. HIDE DEF T
<1>3. 0 .. n \subseteq T
  BY <1>1, <1>2, CountingUpTo
<1>. QED
  BY <1>3 DEF T

LEMMA UsedSame ==
  ASSUME NEW p, NEW r, Sized(p), Sized(r), NEW n \in Nat,
         \A x \in Nat : x < n => (x \in DOMAIN r <=> x \in DOMAIN p) /\ (x \in DOMAIN p => r[x] = p[x])
  PROVE  UsedBelow(r, n) = UsedBelow(p, n)
<1>1. \A x \in DOMAIN r : x < n => x \in DOMAIN p /\ r[x] <= p[x]
  BY DEF Sized
<1>2. \A x \in DOMAIN p : x < n => x \in DOMAIN r /\ p[x] <= r[x]
  BY DEF Sized
<1>3. UsedBelow(r, n) <= UsedBelow(p, n)
  BY <1>1, UsedLess
<1>4. UsedBelow(p, n) <= UsedBelow(r, n)
  BY <1>2, UsedLess
<1>5. UsedBelow(p, n) \in Nat /\ UsedBelow(r, n) \in Nat
  BY UsedNat
<1>. QED
  BY <1>3, <1>4, <1>5

LEMMA UsedGrows ==
  ASSUME NEW p, Sized(p), NEW m \in Nat, NEW n \in Nat, m <= n
  PROVE  /\ UsedBelow(p, m) <= UsedBelow(p, n)
         /\ (\A x \in DOMAIN p : x < m \/ n <= x) => UsedBelow(p, m) = UsedBelow(p, n)
<1> DEFINE T == {i \in 0 .. (n - m) :
                   /\ UsedBelow(p, m) <= UsedBelow(p, m + i)
                   /\ (\A x \in DOMAIN p : x < m \/ n <= x) => UsedBelow(p, m) = UsedBelow(p, m + i)}
<1>1. 0 \in T
  <2>1. m + 0 = m /\ 0 \in 0 .. (n - m) /\ UsedBelow(p, m) \in Nat
    BY UsedNat
  <2>. QED
    BY <2>1
<1>2. ASSUME NEW i \in 1 .. (n - m), i - 1 \in T PROVE i \in T
  <2> DEFINE j == m + (i - 1)
             x == IF j \in DOMAIN p THEN p[j] ELSE 0
  <2>1. j \in Nat /\ j + 1 = m + i /\ i \in 0 .. (n - m) /\ m <= j /\ j < n
    OBVIOUS
  <2>2. /\ UsedBelow(p, m) <= UsedBelow(p, j)
        /\ (\A y \in DOMAIN p : y < m \/ n <= y) => UsedBelow(p, m) = UsedBelow(p, j)
    BY <1>2
  <2>3. UsedBelow(p, j + 1) = UsedBelow(p, j) + x
    BY <2>1, UsedStep
  <2>4. x \in Nat
    BY <2>1 DEF Sized
  <2>5. UsedBelow(p, j) \in Nat /\ UsedBelow(p, m) \in Nat
    BY <2>1, UsedNat
  <2>6. (\A y \in DOMAIN p : y < m \/ n <= y) => x = 0
    BY <2>1
  <2>. HIDE DEF x, j
  <2>7. UsedBelow(p, m) <= UsedBelow(p, j + 1)
    BY <2>2, <2>3, <2>4, <2>5
  <2>8. (\A y \in DOMAIN p : y < m \/ n <= y) => UsedBelow(p, m) = UsedBelow(p, j + 1)
    BY <2>2, <2>3, <2>5, <2>6
  <2>. QED
    BY <2>1, <2>7, <2>8
<1>. HIDE DEF T
<1>3. n - m \in Nat
  OBVIOUS
<1>4. 0 .. (n - m) \subseteq T
  BY <1>1, <1>2, <1>3, CountingUpTo
<1>5. n - m \in T /\ m + (n - m) = n
  BY <1>3, <1>4
<1>. QED
  BY <1>5 DEF T

LEMMA UsedIs ==
  ASSUME NEW p, Sized(p), NEW n \in Nat, \A x \in DOMAIN p : x < n
  PROVE  Used(p) = UsedBelow(p, n) /\ Used(p) \in Nat
<1>1. CASE DOMAIN p = {}
  <2>1. UsedBelow(p, 0) = UsedBelow(p, n)
    BY <1>1, UsedGrows
  <2>2. UsedBelow(p, 0) = 0
    BY UsedStep
  <2>. QED
    BY <1>1, <2>1, <2>2 DEF Used
<1>2. CASE DOMAIN p # {}
  <2> DEFINE m == Max(DOMAIN p)
  <2>1. DOMAIN p \in SUBSET Nat /\ IsFiniteSet(DOMAIN p)
    BY DEF Sized
  <2>2. m \in DOMAIN p /\ m \in Nat /\ \A x \in DOMAIN p : x <= m
    BY <1>2, <2>1, MaxIs
  <2>3. Used(p) = UsedBelow(p, m + 1)
    BY <1>2 DEF Used
  <2>. HIDE DEF m
  <2>4. m + 1 \in Nat /\ m + 1 <= n /\ \A x \in DOMAIN p : x < m + 1 \/ n <= x
    BY <2>1, <2>2
  <2>5. UsedBelow(p, m + 1) = UsedBelow(p, n)
    BY <2>4, UsedGrows
  <2>6. UsedBelow(p, n) \in Nat
    BY UsedNat
  <2>. QED
    BY <2>3, <2>5, <2>6
<1>. QED
  BY <1>1, <1>2

LEMMA AllBelow ==
  ASSUME NEW p, Sized(p)
  PROVE  \E n \in Nat : \A x \in DOMAIN p : x < n
<1>1. CASE DOMAIN p = {}
  <2>1. 0 \in Nat /\ \A x \in DOMAIN p : x < 0
    BY <1>1
  <2>. QED
    BY <2>1
<1>2. CASE DOMAIN p # {}
  <2>1. DOMAIN p \in SUBSET Nat /\ IsFiniteSet(DOMAIN p)
    BY DEF Sized
  <2>2. Max(DOMAIN p) \in DOMAIN p /\ \A x \in DOMAIN p : x <= Max(DOMAIN p)
    BY <1>2, <2>1, MaxIs
  <2>3. Max(DOMAIN p) + 1 \in Nat /\ \A x \in DOMAIN p : x < Max(DOMAIN p) + 1
    BY <2>1, <2>2
  <2>. QED
    BY <2>3
<1>. QED
  BY <1>1, <1>2

\* Of two pages, the one with no more in it takes no more room.
LEMMA UsedWithin ==
  ASSUME NEW p, NEW r, Sized(p), Sized(r), \A x \in DOMAIN r : x \in DOMAIN p /\ r[x] <= p[x]
  PROVE  Used(r) <= Used(p) /\ Used(r) \in Nat /\ Used(p) \in Nat
<1>1. PICK n \in Nat : \A x \in DOMAIN p : x < n
  BY AllBelow
<1>2. Used(p) = UsedBelow(p, n) /\ Used(p) \in Nat
  BY <1>1, UsedIs
<1>3. \A x \in DOMAIN r : x < n
  BY <1>1
<1>4. Used(r) = UsedBelow(r, n) /\ Used(r) \in Nat
  BY <1>3, UsedIs
<1>5. UsedBelow(r, n) <= UsedBelow(p, n)
  BY UsedLess
<1>. QED
  BY <1>2, <1>4, <1>5

LEMMA UsedOne ==
  ASSUME NEW p, Sized(p), NEW k \in DOMAIN p
  PROVE  /\ p[k] <= Used(p) /\ p[k] \in Nat /\ Used(p) \in Nat
         /\ DOMAIN p = {k} => Used(p) = p[k]
         /\ (\A x \in DOMAIN p : k <= x) => UsedBelow(p, k + 1) = p[k]
<1>1. k \in Nat /\ k + 1 \in Nat /\ p[k] \in Nat
  BY DEF Sized
<1>2. UsedBelow(p, k + 1) = UsedBelow(p, k) + p[k]
  BY <1>1, UsedStep
<1>3. UsedBelow(p, k) \in Nat
  BY <1>1, UsedNat
<1>4. p[k] <= Used(p) /\ Used(p) \in Nat
  <2>1. PICK n \in Nat : \A x \in DOMAIN p : x < n
    BY AllBelow
  <2>2. Used(p) = UsedBelow(p, n) /\ Used(p) \in Nat
    BY <2>1, UsedIs
  <2>3. k + 1 <= n
    BY <1>1, <2>1
  <2>4. UsedBelow(p, k + 1) <= UsedBelow(p, n)
    BY <1>1, <2>3, UsedGrows
  <2>. QED
    BY <1>1, <1>2, <1>3, <2>2, <2>4
<1>5. ASSUME \A x \in DOMAIN p : k <= x PROVE UsedBelow(p, k + 1) = p[k]
  <2>1. UsedBelow(p, 0) = UsedBelow(p, k)
    <3>1. 0 <= k /\ \A x \in DOMAIN p : x < 0 \/ k <= x
      BY <1>1, <1>5
    <3>. QED
      BY <1>1, <3>1, UsedGrows
  <2>2. UsedBelow(p, 0) = 0
    BY UsedStep
  <2>. QED
    BY <1>1, <1>2, <2>1, <2>2
<1>6. ASSUME DOMAIN p = {k} PROVE Used(p) = p[k]
  <2>1. \A x \in DOMAIN p : x < k + 1
    BY <1>1, <1>6
  <2>2. Used(p) = UsedBelow(p, k + 1)
    BY <1>1, <2>1, UsedIs
  <2>3. \A x \in DOMAIN p : k <= x
    BY <1>1, <1>6
  <2>. QED
    BY <1>5, <2>2, <2>3
<1>. QED
  BY <1>1, <1>4, <1>5, <1>6

LEMMA EmptyPage ==
  ASSUME NEW p, IsMap(p)
  PROVE  p = <<>> <=> DOMAIN p = {}
<1>1. DOMAIN <<>> = {} /\ <<>> = [x \in {} |-> 0]
  OBVIOUS
<1>2. ASSUME DOMAIN p = {} PROVE p = <<>>
  <2>1. p = [x \in {} |-> p[x]]
    BY <1>2 DEF IsMap
  <2>2. [x \in {} |-> p[x]] = [x \in {} |-> 0]
    OBVIOUS
  <2>. QED
    BY <1>1, <2>1, <2>2
<1>. QED
  BY <1>1, <1>2

\* Part of a page.
LEMMA PartIs ==
  ASSUME NEW p, PageType(p), NEW S \in SUBSET DOMAIN p
  PROVE  /\ PageType(Restrict(p, S)) /\ IsMap(Restrict(p, S)) /\ DOMAIN Restrict(p, S) = S
         /\ \A x \in S : Restrict(p, S)[x] = p[x]
<1> DEFINE r == [x \in S |-> p[x]]
<1>1. Restrict(p, S) = r
  BY DEF Restrict
<1>2. IsMap(r) /\ r = [x \in DOMAIN r |-> r[x]] /\ DOMAIN r = S /\ \A x \in S : r[x] = p[x]
  BY DEF IsMap
<1>. HIDE DEF r
<1>3. IsFiniteSet(DOMAIN p) /\ DOMAIN p \subseteq Key /\ \A x \in DOMAIN p : p[x] \in Size
  BY DEF PageType
<1>4. IsFiniteSet(S)
  BY <1>3, FS_Subset
<1>5. PageType(r)
  BY <1>2, <1>3, <1>4 DEF PageType
<1>. QED
  BY <1>1, <1>2, <1>5

LEMMA PartsOfPage ==
  ASSUME NEW p, PageType(p), NEW k
  PROVE  /\ PageType(Below(p, k)) /\ IsMap(Below(p, k)) /\ DOMAIN Below(p, k) = {x \in DOMAIN p : x < k}
         /\ \A x \in DOMAIN Below(p, k) : Below(p, k)[x] = p[x]
         /\ PageType(From(p, k)) /\ IsMap(From(p, k)) /\ DOMAIN From(p, k) = {x \in DOMAIN p : x >= k}
         /\ \A x \in DOMAIN From(p, k) : From(p, k)[x] = p[x]
<1>1. {x \in DOMAIN p : x < k} \in SUBSET DOMAIN p /\ {x \in DOMAIN p : x >= k} \in SUBSET DOMAIN p
  OBVIOUS
<1>2. /\ Below(p, k) = Restrict(p, {x \in DOMAIN p : x < k})
      /\ From(p, k) = Restrict(p, {x \in DOMAIN p : x >= k})
  BY DEF Below, From
<1>. QED
  BY <1>1, <1>2, PartIs

LEMMA UsedOfParts ==
  ASSUME NEW p, PageType(p), NEW k
  PROVE  /\ Used(p) \in Nat /\ Used(Below(p, k)) \in Nat /\ Used(From(p, k)) \in Nat
         /\ Used(Below(p, k)) <= Used(p) /\ Used(From(p, k)) <= Used(p)
<1>1. /\ PageType(Below(p, k)) /\ DOMAIN Below(p, k) = {x \in DOMAIN p : x < k}
      /\ \A x \in DOMAIN Below(p, k) : Below(p, k)[x] = p[x]
      /\ PageType(From(p, k)) /\ DOMAIN From(p, k) = {x \in DOMAIN p : x >= k}
      /\ \A x \in DOMAIN From(p, k) : From(p, k)[x] = p[x]
  BY PartsOfPage
<1>2. Sized(p) /\ Sized(Below(p, k)) /\ Sized(From(p, k))
  BY <1>1, PageSized
<1>3. \A x \in DOMAIN p : p[x] \in Nat
  BY <1>2 DEF Sized
<1>4. \A x \in DOMAIN Below(p, k) : x \in DOMAIN p /\ Below(p, k)[x] <= p[x]
  BY <1>1, <1>3
<1>5. \A x \in DOMAIN From(p, k) : x \in DOMAIN p /\ From(p, k)[x] <= p[x]
  BY <1>1, <1>3
<1>. QED
  BY <1>2, <1>4, <1>5, UsedWithin

\* A division gives two pages.
Divides(p, k) ==
  /\ k \in DOMAIN p /\ k \in Nat
  /\ PageType(Below(p, k)) /\ PageType(From(p, k)) /\ DOMAIN Below(p, k) # {} /\ DOMAIN From(p, k) # {}
  /\ DOMAIN Below(p, k) = {x \in DOMAIN p : x < k} /\ DOMAIN From(p, k) = {x \in DOMAIN p : x >= k}
  /\ \A x \in DOMAIN Below(p, k), y \in DOMAIN From(p, k) : x < y
  /\ Used(Below(p, k)) <= Capacity

LEMMA DividesBy ==
  ASSUME NEW p, PageType(p), NEW k \in DOMAIN p, NEW m \in DOMAIN p, m < k, Used(Below(p, k)) <= Capacity
  PROVE  Divides(p, k)
<1>1. DOMAIN p \subseteq Nat
  BY KeyAssumption DEF PageType
<1>2. /\ PageType(Below(p, k)) /\ DOMAIN Below(p, k) = {x \in DOMAIN p : x < k}
      /\ PageType(From(p, k)) /\ DOMAIN From(p, k) = {x \in DOMAIN p : x >= k}
  BY PartsOfPage
<1>3. m \in DOMAIN Below(p, k) /\ k \in DOMAIN From(p, k)
  BY <1>1, <1>2
<1>4. \A x \in DOMAIN Below(p, k), y \in DOMAIN From(p, k) : x < y
  BY <1>1, <1>2
<1>. QED
  BY <1>1, <1>2, <1>3, <1>4 DEF Divides

LEMMA DivisionIs ==
  ASSUME NEW p, PageType(p), NEW k \in Divisions(p)
  PROVE  Divides(p, k) /\ Used(From(p, k)) <= Capacity
<1>1. k \in DOMAIN p /\ Below(p, k) # <<>> /\ Used(Below(p, k)) <= Capacity /\ Used(From(p, k)) <= Capacity
  BY DEF Divisions
<1>2. IsMap(Below(p, k)) /\ DOMAIN Below(p, k) = {x \in DOMAIN p : x < k}
  BY PartsOfPage
<1>3. DOMAIN Below(p, k) # {}
  BY <1>1, <1>2, EmptyPage
<1>4. PICK m \in DOMAIN p : m < k
  BY <1>2, <1>3
<1>. QED
  BY <1>1, <1>4, DividesBy

LEMMA ChosenDivides ==
  ASSUME NEW p, PageType(p), Divisions(p) # {}, NEW new
  PROVE  ChooseSplit(p, new) \in Divisions(p)
<1> DEFINE best == {k \in Divisions(p) : \A j \in Divisions(p) : Difference(p, k) <= Difference(p, j)}
           next == {k \in best : \A j \in DOMAIN p : j > new => k <= j}
<1>1. DOMAIN p \subseteq Nat /\ IsFiniteSet(DOMAIN p)
  BY KeyAssumption DEF PageType
<1>2. Divisions(p) \subseteq DOMAIN p
  BY DEF Divisions
<1>3. \A k \in Divisions(p) : Difference(p, k) \in Nat
  <2>1. SUFFICES ASSUME NEW k \in Divisions(p) PROVE Difference(p, k) \in Nat
    OBVIOUS
  <2>2. Used(Below(p, k)) \in Nat /\ Used(From(p, k)) \in Nat
    BY UsedOfParts
  <2>. QED
    BY <2>2 DEF Difference
<1>4. best # {}
  <2> DEFINE D == {Difference(p, k) : k \in Divisions(p)}
  <2>1. D \in SUBSET Nat /\ D # {}
    BY <1>3
  <2>2. PICK d \in D : \A e \in D : d <= e
    BY <2>1, LeastNumber
  <2>3. PICK k \in Divisions(p) : d = Difference(p, k)
    BY <2>2
  <2>4. \A j \in Divisions(p) : Difference(p, k) <= Difference(p, j)
    BY <2>2, <2>3
  <2>5. k \in best
    BY <2>4
  <2>. QED
    BY <2>5
<1>5. best \in SUBSET Nat /\ best \subseteq Divisions(p) /\ next \subseteq best
  BY <1>1, <1>2
<1>6. ChooseSplit(p, new) = IF Min(best) = new /\ next \ {new} # {} THEN Max(next) ELSE Min(best)
  BY DEF ChooseSplit
<1>. HIDE DEF best, next
<1>7. Min(best) \in best
  BY <1>4, <1>5, MinIs
<1>8. next # {} => Max(next) \in next
  <2>1. IsFiniteSet(next)
    BY <1>1, <1>2, <1>5, FS_Subset
  <2>2. next \in SUBSET Nat
    BY <1>5
  <2>. QED
    BY <2>1, <2>2, MaxIs
<1>. QED
  BY <1>5, <1>6, <1>7, <1>8

\* Where a page too large for its records is divided.
LEMMA DivideAtIs ==
  ASSUME NEW p, PageType(p), ~(Used(p) <= Capacity), \A x \in DOMAIN p : p[x] <= Capacity
  PROVE  Divides(p, DivideAt(p))
<1>1. Sized(p) /\ DOMAIN p \subseteq Nat /\ IsFiniteSet(DOMAIN p)
  BY PageSized DEF Sized
<1>2. CASE Divisions(p) # {}
  <2>1. DivideAt(p) = ChooseSplit(p, 0)
    BY <1>2 DEF DivideAt
  <2>. QED
    BY <1>2, <2>1, ChosenDivides, DivisionIs
<1>3. CASE Divisions(p) = {}
  <2> DEFINE S == {j \in DOMAIN p : UsedBelow(p, j + 1) > Capacity}
             k == Min(S)
  <2>1. DivideAt(p) = k
    BY <1>3 DEF DivideAt
  <2>2. \A n \in Nat : UsedBelow(p, n) \in Nat
    BY <1>1, UsedNat
  <2>3. S \in SUBSET Nat /\ S # {}
    <3>1. DOMAIN p # {}
      <4>1. SUFFICES ASSUME DOMAIN p = {} PROVE FALSE
        OBVIOUS
      <4>2. Used(p) = 0
        BY <4>1 DEF Used
      <4>. QED
        BY <4>2, OrderAssumption
    <3>2. Used(p) = UsedBelow(p, Max(DOMAIN p) + 1)
      BY <3>1 DEF Used
    <3>3. Max(DOMAIN p) \in DOMAIN p
      BY <1>1, <3>1, MaxIs
    <3>4. UsedBelow(p, Max(DOMAIN p) + 1) > Capacity
      <4>1. Max(DOMAIN p) + 1 \in Nat
        BY <1>1, <3>3
      <4>. QED
        BY <2>2, <3>2, <4>1, OrderAssumption
    <3>. QED
      BY <1>1, <3>3, <3>4
  <2>4. k \in S /\ \A x \in S : k <= x
    BY <2>3, MinIs
  <2>5. k \in DOMAIN p /\ k \in Nat /\ k + 1 \in Nat /\ UsedBelow(p, k + 1) > Capacity
    BY <1>1, <2>4
  <2>6. \A x \in DOMAIN p : x < k => UsedBelow(p, x + 1) <= Capacity
    <3>1. SUFFICES ASSUME NEW x \in DOMAIN p, x < k PROVE UsedBelow(p, x + 1) <= Capacity
      OBVIOUS
    <3>2. x \in Nat /\ x + 1 \in Nat /\ x \notin S
      <4>1. x \in Nat /\ ~(k <= x)
        BY <1>1, <2>5, <3>1
      <4>. HIDE DEF S
      <4>. QED
        BY <2>4, <4>1
    <3>3. UsedBelow(p, x + 1) \in Nat
      BY <2>2, <3>2
    <3>. QED
      BY <3>2, <3>3, OrderAssumption
  <2>. HIDE DEF S, k
  <2>7. PICK m \in DOMAIN p : m < k
    <3>1. SUFFICES ASSUME \A m \in DOMAIN p : ~(m < k) PROVE FALSE
      OBVIOUS
    <3>2. \A m \in DOMAIN p : k <= m
      BY <1>1, <2>5, <3>1
    <3>3. UsedBelow(p, k + 1) = p[k] /\ p[k] \in Nat
      BY <1>1, <2>5, <3>2, UsedOne
    <3>4. p[k] <= Capacity
      BY <2>5
    <3>. QED
      BY <2>5, <3>3, <3>4, OrderAssumption
  <2>8. UsedBelow(p, k) <= Capacity
    <3> DEFINE B == {x \in DOMAIN p : x < k}
               b == Max(B)
    <3>1. B \in SUBSET Nat /\ B # {} /\ IsFiniteSet(B)
      BY <1>1, <2>7, FS_Subset
    <3>2. b \in B /\ \A x \in B : x <= b
      BY <3>1, MaxIs
    <3>3. b \in DOMAIN p /\ b < k /\ b \in Nat /\ b + 1 \in Nat /\ b + 1 <= k
      BY <1>1, <2>5, <3>2
    <3>4. \A x \in DOMAIN p : x < b + 1 \/ k <= x
      BY <1>1, <2>5, <3>2, <3>3
    <3>. HIDE DEF b, B
    <3>5. UsedBelow(p, b + 1) = UsedBelow(p, k)
      BY <1>1, <2>5, <3>3, <3>4, UsedGrows
    <3>6. UsedBelow(p, b + 1) <= Capacity
      BY <2>6, <3>3
    <3>. QED
      BY <3>5, <3>6
  <2>9. Used(Below(p, k)) <= Capacity
    <3>1. PageType(Below(p, k)) /\ DOMAIN Below(p, k) = {x \in DOMAIN p : x < k}
          /\ \A x \in DOMAIN Below(p, k) : Below(p, k)[x] = p[x]
      BY PartsOfPage
    <3>2. Sized(Below(p, k))
      BY <3>1, PageSized
    <3>3. \A x \in DOMAIN Below(p, k) : x < k
      BY <3>1
    <3>4. Used(Below(p, k)) = UsedBelow(Below(p, k), k)
      BY <2>5, <3>2, <3>3, UsedIs
    <3>5. UsedBelow(Below(p, k), k) = UsedBelow(p, k)
      <4>1. \A x \in Nat : x < k => (x \in DOMAIN Below(p, k) <=> x \in DOMAIN p)
                                    /\ (x \in DOMAIN p => Below(p, k)[x] = p[x])
        BY <3>1
      <4>. QED
        BY <1>1, <2>5, <3>2, <4>1, UsedSame
    <3>. QED
      BY <2>8, <3>4, <3>5
  <2>10. Divides(p, k)
    BY <2>5, <2>7, <2>9, DividesBy
  <2>. QED
    BY <2>1, <2>10
<1>. QED
  BY <1>2, <1>3

\* Every page in its place in the file.
Fits(t) == \A pg \in DOMAIN t.page : Used(t.page[pg]) <= Capacity

\* A page filed at i in the leaf at a is stored.
LEMMA PageStored ==
  ASSUME NEW t, NEW lv, NEW lo, NEW nx, NEW a, NEW i, NEW q,
         Good(t, lv, lo, nx, {}, 0), Roomy(t, 0), a \in Nodes(t), Leaf(t, a), i \in 1 .. Len(Kids(t, a)),
         PageType(q), \A x \in DOMAIN q : LoAt(t, lo, a, i) < x /\ x <= Keys(t, a)[i]
  PROVE  /\ Good(MarkPage(t, Kids(t, a)[i], q), lv, lo, nx, {}, 0) /\ Roomy(MarkPage(t, Kids(t, a)[i], q), 0)
         /\ Kids(t, a)[i] \in DOMAIN t.page
<1> DEFINE pg == Kids(t, a)[i]
           v == MarkPage(t, pg, q)
<1>1. Typed(t) /\ Filed(t, lo) /\ Placed(t, {})
  BY DEF Good
<1>2. /\ Formed(t) /\ IsMap(t.node) /\ t.root \in Nodes(t) /\ \A x \in Nodes(t) : t.node[x] \in NodeType
      /\ IsFiniteSet(Nodes(t)) /\ Nodes(t) \subseteq Nat \ {0} /\ IsFiniteSet(DOMAIN t.page)
      /\ DOMAIN t.page \subseteq Nat \ {0}
      /\ \A x \in DOMAIN t.page : PageType(t.page[x])
  BY <1>1, TypedParts
<1>3. pg \in DOMAIN t.page
  BY <1>1 DEF Filed
<1>. HIDE DEF pg
<1>4. /\ Formed(v) /\ v.root = t.root /\ v.node = t.node /\ IsMap(v.page)
      /\ DOMAIN v.page = DOMAIN t.page \union {pg} /\ v.page[pg] = q
      /\ \A x \in DOMAIN t.page : x # pg => v.page[x] = t.page[x]
  BY <1>2, PageMarked
<1>. HIDE DEF v
<1>5. DOMAIN v.page = DOMAIN t.page
  BY <1>3, <1>4
<1>6. Nodes(v) = Nodes(t) /\ \A x \in Nodes(t) : Leaf(v, x) = Leaf(t, x) /\ Kids(v, x) = Kids(t, x)
  BY <1>4 DEF Nodes, Leaf, Kids
<1>7. Typed(v)
  <2>1. \A x \in DOMAIN v.page : PageType(v.page[x])
    BY <1>2, <1>4, <1>5
  <2>2. IsMap(v.node) /\ \A x \in Nodes(v) : v.node[x] \in NodeType
    BY <1>2, <1>4, <1>6
  <2>. QED
    BY <1>2, <1>4, <1>5, <1>6, <2>1, <2>2, MadeTree
<1>8. ASSUME NEW x \in Nodes(t), Leaf(t, x), NEW j \in 1 .. Len(Kids(t, x))
      PROVE  /\ Kids(t, x)[j] \in DOMAIN v.page
             /\ \A k \in DOMAIN v.page[Kids(t, x)[j]] : LoAt(t, lo, x, j) < k /\ k <= Keys(t, x)[j]
  <2>1. Kids(t, x)[j] \in DOMAIN t.page
        /\ \A k \in DOMAIN t.page[Kids(t, x)[j]] : LoAt(t, lo, x, j) < k /\ k <= Keys(t, x)[j]
    BY <1>1, <1>8 DEF Filed
  <2>2. CASE Kids(t, x)[j] = pg
    <3>1. Kids(t, x)[j] = Kids(t, a)[i]
      BY <2>2 DEF pg
    <3>2. x = a /\ j = i
      BY <1>8, <3>1, OnePlace
    <3>. QED
      BY <1>4, <1>5, <2>1, <2>2, <3>2
  <2>3. CASE Kids(t, x)[j] # pg
    BY <1>4, <1>5, <2>1, <2>3
  <2>. QED
    BY <2>2, <2>3
<1>9. Placed(v, {})
  BY <1>1, <1>5, <1>6, PlacedSame
<1>10. Good(v, lv, lo, nx, {}, 0)
  BY <1>4, <1>7, <1>8, <1>9, PagesEdit
<1>11. Roomy(v, 0)
  BY <1>4, <1>6 DEF Roomy
<1>. QED
  BY <1>3, <1>10, <1>11 DEF v, pg

PageIn(t, lo, pg, a, i) ==
  /\ a \in Nodes(t) /\ Leaf(t, a) /\ i \in 1 .. Len(Kids(t, a)) /\ Kids(t, a)[i] = pg
  /\ \A k \in DOMAIN t.page[pg] : LoAt(t, lo, a, i) < k /\ k <= Keys(t, a)[i]

LEMMA PageWhere ==
  ASSUME NEW t, NEW lv, NEW lo, NEW nx, NEW over, NEW pg,
         Good(t, lv, lo, nx, {}, over), pg \in DOMAIN t.page
  PROVE  \E a, i : PageIn(t, lo, pg, a, i)
<1>1. Placed(t, {}) /\ Filed(t, lo)
  BY DEF Good
<1>2. PICK a \in Nodes(t) : Leaf(t, a) /\ \E i \in 1 .. Len(Kids(t, a)) : Kids(t, a)[i] = pg
  BY <1>1 DEF Placed
<1>3. PICK i \in 1 .. Len(Kids(t, a)) : Kids(t, a)[i] = pg
  BY <1>2
<1>4. PageIn(t, lo, pg, a, i)
  BY <1>1, <1>2, <1>3 DEF Filed, PageIn
<1>. QED
  BY <1>4

\* A page is divided into two that hold what it held.
LEMMA SplitWithin ==
  ASSUME NEW t, NEW pg, NEW lower, NEW upper, Stands(t, {}), pg \in DOMAIN t.page,
         PageType(lower), PageType(upper), DOMAIN lower # {}, DOMAIN upper # {},
         \A x \in DOMAIN lower, y \in DOMAIN upper : x < y,
         DOMAIN lower \subseteq DOMAIN t.page[pg], DOMAIN upper \subseteq DOMAIN t.page[pg]
  PROVE  /\ Stands(SplitPage(t, pg, lower, upper), {})
         /\ SplitPage(t, pg, lower, upper).page = TwoPages(t, pg, lower, FreeAddress(DOMAIN t.page), upper).page
<1>1. PICK lv, lo, nx : Good(t, lv, lo, nx, {}, 0)
  BY DEF Stands
<1>2. Roomy(t, 0)
  BY DEF Stands
<1>3. PICK a, i : PageIn(t, lo, pg, a, i)
  BY <1>1, PageWhere
<1>4. a \in Nodes(t) /\ Leaf(t, a) /\ i \in 1 .. Len(Kids(t, a)) /\ Kids(t, a)[i] = pg
      /\ \A k \in DOMAIN t.page[pg] : LoAt(t, lo, a, i) < k /\ k <= Keys(t, a)[i]
  BY <1>3 DEF PageIn
<1>5. /\ \A x \in DOMAIN lower : LoAt(t, lo, a, i) < x /\ x <= Keys(t, a)[i]
      /\ \A y \in DOMAIN upper : y <= Keys(t, a)[i]
  BY <1>4
<1>6. Parts(t, lo, nx, a, i, lower, upper)
  BY <1>4, <1>5 DEF Parts
<1>7. /\ Stands(SplitPage(t, Kids(t, a)[i], lower, upper), {})
      /\ SplitPage(t, Kids(t, a)[i], lower, upper).page
           = TwoPages(t, Kids(t, a)[i], lower, FreeAddress(DOMAIN t.page), upper).page
  BY <1>1, <1>2, <1>6, SplitPageStands
<1>. QED
  BY <1>4, <1>7

\* Where a key belongs.
Lands(t, lv, lo, nx, k, a, i) ==
  /\ Good(t, lv, lo, nx, {}, 0) /\ a \in Nodes(t) /\ Leaf(t, a) /\ k \in Nat
  /\ NotBelowAt(Keys(t, a), k, i) /\ LoAt(t, lo, a, i) < k /\ (nx[a] # 0 => k <= lo[nx[a]])

LEMMA Landing ==
  ASSUME NEW t, Stands(t, {}), NEW k \in Key
  PROVE  \E lv, lo, nx : Lands(t, lv, lo, nx, k, FindLeaf(t, k), FirstNotBelow(Keys(t, FindLeaf(t, k)), k))
<1> DEFINE a == FindLeaf(t, k)
           i == FirstNotBelow(Keys(t, a), k)
<1>1. PICK lv, lo1, nx : Good(t, lv, lo1, nx, {}, 0)
  BY DEF Stands
<1>2. k \in Nat
  BY KeyAssumption
<1>3. PICK lo : Good(t, lv, lo, nx, {}, 0) /\ OnTheWay(t, lo, nx, k, a)
  BY <1>1, <1>2, FoundLeaf
<1>4. Leaf(t, a) /\ a \in Nodes(t)
  BY <1>1, <1>2, FoundLeaf
<1>. HIDE DEF a
<1>5. Keys(t, a) \in Seq(Nat)
  <2>1. Typed(t)
    BY <1>3 DEF Good
  <2>. QED
    BY <1>4, <2>1, NodeFields
<1>6. NotBelowAt(Keys(t, a), k, i)
  BY <1>2, <1>5, FirstNotBelowIs
<1>. HIDE DEF i
<1>7. LoAt(t, lo, a, i) < k
  <2>1. CASE i = 1
    BY <1>3, <2>1 DEF OnTheWay, LoAt
  <2>2. CASE i # 1
    <3>1. i - 1 \in 1 .. Len(Keys(t, a)) /\ i - 1 < i
      BY <1>5, <1>6, <2>2 DEF NotBelowAt
    <3>2. Keys(t, a)[i - 1] < k
      BY <1>6, <3>1 DEF NotBelowAt
    <3>. QED
      BY <2>2, <3>2 DEF LoAt
  <2>. QED
    BY <2>1, <2>2
<1>8. nx[a] # 0 => k <= lo[nx[a]]
  BY <1>3 DEF OnTheWay
<1>9. Lands(t, lv, lo, nx, k, a, i)
  BY <1>2, <1>3, <1>4, <1>6, <1>7, <1>8 DEF Lands
<1>. QED
  BY <1>9 DEF a, i

Holds(t) == Stands(t, {}) /\ Fits(t)

\* What was divided fits.
LEMMA TwoFit ==
  ASSUME NEW t, NEW v, NEW pg, NEW lower, NEW b, NEW upper, Formed(t), Fits(t), pg # b,
         Used(lower) <= Capacity, Used(upper) <= Capacity, v.page = TwoPages(t, pg, lower, b, upper).page
  PROVE  Fits(v)
<1>1. /\ DOMAIN v.page = DOMAIN t.page \union {pg, b} /\ v.page[pg] = lower /\ v.page[b] = upper
      /\ \A x \in DOMAIN t.page : x # pg /\ x # b => v.page[x] = t.page[x]
  BY TwoPagesAre
<1>2. ASSUME NEW x \in DOMAIN v.page PROVE Used(v.page[x]) <= Capacity
  <2>1. CASE x = pg
    BY <1>1, <2>1
  <2>2. CASE x = b
    BY <1>1, <2>2
  <2>3. CASE x # pg /\ x # b
    <3>1. x \in DOMAIN t.page /\ v.page[x] = t.page[x]
      BY <1>1, <2>3
    <3>. QED
      BY <3>1 DEF Fits
  <2>. QED
    BY <2>1, <2>2, <2>3
<1>. QED
  BY <1>2 DEF Fits

LEMMA MarkedFits ==
  ASSUME NEW t, NEW pg, NEW q, Formed(t), Fits(t), Used(q) <= Capacity
  PROVE  Fits(MarkPage(t, pg, q))
<1> DEFINE v == MarkPage(t, pg, q)
<1>1. /\ DOMAIN v.page = DOMAIN t.page \union {pg} /\ v.page[pg] = q
      /\ \A x \in DOMAIN t.page : x # pg => v.page[x] = t.page[x]
  BY PageMarked
<1>. HIDE DEF v
<1>2. ASSUME NEW x \in DOMAIN v.page PROVE Used(v.page[x]) <= Capacity
  <2>1. CASE x = pg
    BY <1>1, <2>1
  <2>2. CASE x # pg
    <3>1. x \in DOMAIN t.page /\ v.page[x] = t.page[x]
      BY <1>1, <2>2
    <3>. QED
      BY <3>1 DEF Fits
  <2>. QED
    BY <2>1, <2>2
<1>3. Fits(v)
  BY <1>2 DEF Fits
<1>. QED
  BY <1>3 DEF v

\* Where a record goes: at m in the leaf at a, past its keys or not.
Spot(t, lv, lo, nx, k, a, m, past) ==
  /\ Good(t, lv, lo, nx, {}, 0) /\ a \in Nodes(t) /\ Leaf(t, a) /\ m \in 1 .. Len(Kids(t, a))
  /\ k \in Key /\ k \in Nat /\ LoAt(t, lo, a, m) < k
  /\ IF past THEN m = Len(Kids(t, a)) /\ Keys(t, a)[m] < k /\ (nx[a] # 0 => k <= lo[nx[a]])
     ELSE k <= Keys(t, a)[m]

LEMMA SpotIs ==
  ASSUME NEW t, NEW lv, NEW lo, NEW nx, NEW k \in Key, NEW a, NEW i, Lands(t, lv, lo, nx, k, a, i)
  PROVE  Spot(t, lv, lo, nx, k, a, IF i > Len(Kids(t, a)) THEN Len(Kids(t, a)) ELSE i, i > Len(Kids(t, a)))
<1>1. /\ Good(t, lv, lo, nx, {}, 0) /\ a \in Nodes(t) /\ Leaf(t, a) /\ k \in Nat
      /\ LoAt(t, lo, a, i) < k /\ (nx[a] # 0 => k <= lo[nx[a]])
      /\ i \in 1 .. (Len(Keys(t, a)) + 1) /\ (i <= Len(Keys(t, a)) => Keys(t, a)[i] >= k)
  BY DEF Lands, NotBelowAt
<1>2. /\ Len(Kids(t, a)) \in Nat /\ Len(Keys(t, a)) = Len(Kids(t, a)) /\ Len(Kids(t, a)) >= 1
      /\ \A x \in 1 .. Len(Kids(t, a)) : Keys(t, a)[x] \in Nat
  BY <1>1, LeafKeys
<1>3. CASE i > Len(Kids(t, a))
  <2> DEFINE m == Len(Kids(t, a))
  <2>1. m \in 1 .. Len(Kids(t, a)) /\ i = m + 1 /\ i # 1 /\ i - 1 = m
    BY <1>1, <1>2, <1>3
  <2>2. Keys(t, a)[m] < k
    BY <1>1, <2>1 DEF LoAt
  <2>3. LoAt(t, lo, a, m) < Keys(t, a)[m]
    BY <1>1, <2>1 DEF Good, Filed
  <2>4. LoAt(t, lo, a, m) \in Int /\ Keys(t, a)[m] \in Nat
    BY <1>1, <1>2, <2>1, BoundTypes
  <2>5. LoAt(t, lo, a, m) < k
    BY <1>1, <2>2, <2>3, <2>4
  <2>. QED
    BY <1>1, <1>3, <2>1, <2>2, <2>5 DEF Spot
<1>4. CASE ~(i > Len(Kids(t, a)))
  <2>1. i \in 1 .. Len(Kids(t, a)) /\ Keys(t, a)[i] >= k /\ Keys(t, a)[i] \in Nat
    BY <1>1, <1>2, <1>4
  <2>. QED
    BY <1>1, <1>4, <2>1 DEF Spot
<1>. QED
  BY <1>3, <1>4

\* The page found, with the record put in it.
LEMMA PageMore ==
  ASSUME NEW p, PageType(p), NEW k \in Key, NEW z \in Size, k \notin DOMAIN p
  PROVE  LET q == With(p, k, z) IN
         /\ PageType(q) /\ DOMAIN q = DOMAIN p \union {k} /\ q[k] = z /\ \A x \in DOMAIN p : q[x] = p[x]
<1> DEFINE q == [y \in DOMAIN p \union {k} |-> IF y = k THEN z ELSE p[y]]
<1>1. With(p, k, z) = q
  BY DEF With
<1>2. q = [y \in DOMAIN q |-> q[y]] /\ DOMAIN q = DOMAIN p \union {k} /\ q[k] = z /\ \A x \in DOMAIN p : q[x] = p[x]
  OBVIOUS
<1>. HIDE DEF q
<1>3. IsFiniteSet(DOMAIN p) /\ DOMAIN p \subseteq Key /\ \A x \in DOMAIN p : p[x] \in Size
  BY DEF PageType
<1>4. IsFiniteSet(DOMAIN q)
  BY <1>2, <1>3, FS_AddElement
<1>5. PageType(q)
  BY <1>2, <1>3, <1>4 DEF PageType
<1>. QED
  BY <1>1, <1>2, <1>5

\* The leaf's last key and its largest are raised.
PastNode(n, k) == [n EXCEPT !.keys[Len(n.keys)] = k, !.max = k]

LEMMA PastNodeIs ==
  ASSUME NEW n \in NodeType, Len(n.keys) >= 1, NEW k \in Key
  PROVE  /\ PastNode(n, k) \in NodeType /\ PastNode(n, k).leaf = n.leaf /\ PastNode(n, k).kids = n.kids
         /\ PastNode(n, k).max = k /\ PastNode(n, k).parent = n.parent
         /\ PastNode(n, k).prev = n.prev /\ PastNode(n, k).next = n.next
         /\ Len(PastNode(n, k).keys) = Len(n.keys)
         /\ \A j \in 1 .. Len(n.keys) : PastNode(n, k).keys[j] = IF j = Len(n.keys) THEN k ELSE n.keys[j]
<1> DEFINE m == [n EXCEPT !.keys[Len(n.keys)] = k]
<1>1. n.keys \in Seq(Key) /\ Len(n.keys) \in 1 .. Len(n.keys)
  BY DEF NodeType
<1>2. /\ m \in NodeType /\ m.leaf = n.leaf /\ m.kids = n.kids
      /\ m.parent = n.parent /\ m.prev = n.prev /\ m.next = n.next /\ Len(m.keys) = Len(n.keys)
      /\ \A j \in 1 .. Len(n.keys) : m.keys[j] = IF j = Len(n.keys) THEN k ELSE n.keys[j]
  BY <1>1, Rekeyed
<1>3. PastNode(n, k) = [m EXCEPT !.max = k]
  BY DEF PastNode
<1>. HIDE DEF m
<1>4. /\ [m EXCEPT !.max = k] \in NodeType
      /\ [m EXCEPT !.max = k].leaf = m.leaf /\ [m EXCEPT !.max = k].kids = m.kids
      /\ [m EXCEPT !.max = k].max = k /\ [m EXCEPT !.max = k].parent = m.parent
      /\ [m EXCEPT !.max = k].prev = m.prev /\ [m EXCEPT !.max = k].next = m.next
      /\ [m EXCEPT !.max = k].keys = m.keys
  BY <1>2, Remaxed
<1>. QED
  BY <1>2, <1>3, <1>4

LastFiled(t, v, pg, q) == Stands(v, {}) /\ v.page = MarkPage(t, pg, q).page

\* A record above every key of the tree goes in the last page.
LEMMA FiledPast ==
  ASSUME NEW t, NEW lv, NEW lo, NEW nx, NEW k, NEW a, NEW m, NEW q,
         Spot(t, lv, lo, nx, k, a, m, TRUE), Roomy(t, 0), PageType(q),
         \A x \in DOMAIN q : x = k \/ x \in DOMAIN t.page[Kids(t, a)[m]]
  PROVE  LastFiled(t, PropagateMaxKeyUp(MarkPage(MarkNode(t, a, PastNode(t.node[a], k)), Kids(t, a)[m], q), a, k),
                   Kids(t, a)[m], q)
<1> DEFINE pg == Kids(t, a)[m]
           n == PastNode(t.node[a], k)
           u == MarkNode(t, a, n)
           w == MarkPage(u, pg, q)
<1>1. /\ Good(t, lv, lo, nx, {}, 0) /\ a \in Nodes(t) /\ Leaf(t, a) /\ m \in 1 .. Len(Kids(t, a))
      /\ k \in Key /\ k \in Nat /\ LoAt(t, lo, a, m) < k
      /\ m = Len(Kids(t, a)) /\ Keys(t, a)[m] < k /\ (nx[a] # 0 => k <= lo[nx[a]])
  BY DEF Spot
<1>2. Typed(t) /\ Filed(t, lo) /\ Placed(t, {}) /\ Arrays(t)
  BY <1>1 DEF Good
<1>3. /\ Formed(t) /\ IsMap(t.node) /\ t.root \in Nodes(t) /\ \A x \in Nodes(t) : t.node[x] \in NodeType
      /\ IsFiniteSet(Nodes(t)) /\ Nodes(t) \subseteq Nat \ {0} /\ IsFiniteSet(DOMAIN t.page)
      /\ DOMAIN t.page \subseteq Nat \ {0} /\ IsMap(t.page)
      /\ \A x \in DOMAIN t.page : PageType(t.page[x])
  BY <1>2, TypedParts
<1>4. /\ Len(Kids(t, a)) \in Nat /\ Len(Keys(t, a)) = Len(Kids(t, a)) /\ Len(Kids(t, a)) >= 1
      /\ \A x \in 1 .. Len(Kids(t, a)) : Keys(t, a)[x] \in Nat
  BY <1>1, LeafKeys
<1>5. /\ n \in NodeType /\ n.leaf = t.node[a].leaf /\ n.kids = t.node[a].kids
      /\ n.max = k /\ n.parent = t.node[a].parent /\ n.prev = t.node[a].prev /\ n.next = t.node[a].next
      /\ Len(n.keys) = Len(t.node[a].keys)
      /\ \A j \in 1 .. Len(t.node[a].keys) : n.keys[j] = IF j = Len(t.node[a].keys) THEN k ELSE t.node[a].keys[j]
  <2>1. t.node[a] \in NodeType /\ Len(t.node[a].keys) >= 1
    BY <1>1, <1>3, <1>4 DEF Keys
  <2>. QED
    BY <1>1, <2>1, PastNodeIs
<1>6. pg \in DOMAIN t.page
  BY <1>1, <1>2 DEF Filed
<1>. HIDE DEF pg, n
<1>7. EditedTo(t, u, a, n)
  BY <1>1, <1>2, <1>5, EditedBy
<1>. HIDE DEF u
<1>8. /\ Edited(t, u, a) /\ u.page = t.page /\ u.node[a] = n
  BY <1>7 DEF EditedTo
<1>9. Typed(u) /\ u.root = t.root /\ Nodes(u) = Nodes(t) /\ \A x \in Nodes(t) : x # a => u.node[x] = t.node[x]
  BY <1>8 DEF Edited
<1>10. /\ Formed(u) /\ IsMap(u.node) /\ \A x \in Nodes(u) : u.node[x] \in NodeType
  BY <1>9, TypedParts
<1>11. /\ Formed(w) /\ w.root = u.root /\ w.node = u.node /\ IsMap(w.page)
       /\ DOMAIN w.page = DOMAIN u.page \union {pg} /\ w.page[pg] = q
       /\ \A x \in DOMAIN u.page : x # pg => w.page[x] = u.page[x]
  BY <1>10, PageMarked
<1>. HIDE DEF w
<1>12. DOMAIN w.page = DOMAIN t.page /\ \A x \in DOMAIN t.page : x # pg => w.page[x] = t.page[x]
  BY <1>6, <1>8, <1>11
<1>13. Nodes(w) = Nodes(t) /\ w.root = t.root
  BY <1>9, <1>11 DEF Nodes
<1>14. Typed(w)
  <2>1. \A x \in DOMAIN w.page : PageType(w.page[x])
    BY <1>3, <1>11, <1>12
  <2>2. IsMap(w.node) /\ \A x \in Nodes(w) : w.node[x] \in NodeType
    BY <1>9, <1>10, <1>11, <1>13
  <2>. QED
    BY <1>3, <1>11, <1>12, <1>13, <2>1, <2>2, MadeTree
<1>15. Edited(t, w, a)
  BY <1>8, <1>9, <1>11, <1>13, <1>14 DEF Edited, Leaf, Up
<1>16. /\ Kids(w, a) = Kids(t, a) /\ Top(w, a) = k /\ Len(Keys(w, a)) = Len(Keys(t, a))
       /\ \A j \in 1 .. Len(Keys(t, a)) : Keys(w, a)[j] = IF j = Len(Keys(t, a)) THEN k ELSE Keys(t, a)[j]
  BY <1>5, <1>8, <1>11 DEF Kids, Top, Keys
<1>17. \A x \in Nodes(t) : Leaf(w, x) = Leaf(t, x) /\ Kids(w, x) = Kids(t, x)
  BY <1>15, <1>16, EditFacts
<1>18. Placed(w, {})
  BY <1>2, <1>12, <1>13, <1>17, PlacedSame
<1>19. PagesKept(t, w, a)
  <2>1. ASSUME NEW x \in Nodes(t), Leaf(t, x), x # a, NEW i \in 1 .. Len(Kids(t, x))
        PROVE  /\ Kids(t, x)[i] \in DOMAIN w.page
               /\ DOMAIN w.page[Kids(t, x)[i]] \subseteq DOMAIN t.page[Kids(t, x)[i]]
    <3>1. Kids(t, x)[i] \in DOMAIN t.page
      BY <1>2, <2>1 DEF Filed
    <3>2. Kids(t, x)[i] # pg
      <4>1. SUFFICES ASSUME Kids(t, x)[i] = Kids(t, a)[m] PROVE FALSE
        BY DEF pg
      <4>. QED
        BY <1>1, <2>1, <4>1, OnePlace
    <3>. QED
      BY <1>12, <3>1, <3>2
  <2>. QED
    BY <2>1 DEF PagesKept
<1>20. FiledAt(w, lo, a)
  <2>1. \A x, y \in 1 .. Len(Kids(w, a)) : Kids(w, a)[x] = Kids(w, a)[y] => x = y
    BY <1>1, <1>2, <1>16 DEF Arrays
  <2>2. ASSUME NEW j \in 1 .. Len(Kids(w, a))
        PROVE  /\ Kids(w, a)[j] \in DOMAIN w.page
               /\ LoAt(w, lo, a, j) < Keys(w, a)[j] /\ Keys(w, a)[j] <= Top(w, a)
               /\ \A x \in DOMAIN w.page[Kids(w, a)[j]] : LoAt(w, lo, a, j) < x /\ x <= Keys(w, a)[j]
    <3>1. j \in 1 .. Len(Kids(t, a)) /\ j \in 1 .. Len(Keys(t, a)) /\ Keys(t, a)[j] \in Nat
      BY <1>4, <1>16
    <3>2. /\ Kids(t, a)[j] \in DOMAIN t.page /\ LoAt(t, lo, a, j) < Keys(t, a)[j] /\ Keys(t, a)[j] <= Top(t, a)
          /\ \A x \in DOMAIN t.page[Kids(t, a)[j]] : LoAt(t, lo, a, j) < x /\ x <= Keys(t, a)[j]
      BY <1>1, <1>2, <3>1 DEF Filed
    <3>3. LoAt(w, lo, a, j) = LoAt(t, lo, a, j) /\ LoAt(t, lo, a, j) \in Int
      <4>1. CASE j = 1
        BY <1>1, <3>1, <4>1, BoundTypes DEF LoAt
      <4>2. CASE j # 1
        <5>1. j - 1 \in 1 .. Len(Keys(t, a)) /\ j - 1 # Len(Keys(t, a))
          BY <1>4, <3>1, <4>2
        <5>. QED
          BY <1>1, <1>16, <3>1, <4>2, <5>1, BoundTypes DEF LoAt
      <4>. QED
        BY <4>1, <4>2
    <3>4. CASE j = m
      <4>1. Keys(w, a)[j] = k /\ Kids(w, a)[j] = pg
        BY <1>1, <1>4, <1>16, <3>1, <3>4 DEF pg
      <4>2. \A x \in DOMAIN q : LoAt(t, lo, a, j) < x /\ x <= k
        <5>1. SUFFICES ASSUME NEW x \in DOMAIN q PROVE LoAt(t, lo, a, j) < x /\ x <= k
          OBVIOUS
        <5>2. CASE x = k
          BY <1>1, <3>4, <5>2
        <5>3. CASE x # k
          <6>1. x \in DOMAIN t.page[Kids(t, a)[j]]
            BY <3>4, <5>1, <5>3
          <6>2. LoAt(t, lo, a, j) < x /\ x <= Keys(t, a)[j]
            BY <3>2, <6>1
          <6>3. x \in Nat
            BY <1>2, <3>2, <6>1, PageFields
          <6>. QED
            BY <1>1, <3>1, <3>4, <6>2, <6>3
        <5>. QED
          BY <5>2, <5>3
      <4>. QED
        BY <1>1, <1>6, <1>11, <1>12, <1>16, <3>3, <3>4, <4>1, <4>2
    <3>5. CASE j # m
      <4>1. Keys(w, a)[j] = Keys(t, a)[j] /\ Kids(w, a)[j] = Kids(t, a)[j] /\ j < m
        BY <1>1, <1>4, <1>16, <3>1, <3>5
      <4>2. Kids(t, a)[j] # pg
        <5>1. SUFFICES ASSUME Kids(t, a)[j] = Kids(t, a)[m] PROVE FALSE
          BY DEF pg
        <5>. QED
          BY <1>1, <1>2, <3>1, <3>5, <5>1 DEF Arrays
      <4>3. Keys(t, a)[j] <= k
        <5>1. Keys(t, a)[j] < Keys(t, a)[m] /\ Keys(t, a)[m] \in Nat
          BY <1>1, <3>1, <4>1, LeafKeys
        <5>. QED
          BY <1>1, <3>1, <5>1
      <4>. QED
        BY <1>12, <1>16, <3>2, <3>3, <4>1, <4>2, <4>3
    <3>. QED
      BY <3>4, <3>5
  <2>3. Len(Kids(w, a)) >= 1 /\ Len(Keys(w, a)) = Len(Kids(w, a))
    BY <1>4, <1>16
  <2>. QED
    BY <2>1, <2>2, <2>3 DEF FiledAt
<1>21. nx[a] # 0 => Top(w, a) <= lo[nx[a]]
  BY <1>1, <1>16
<1>22. Good(w, lv, lo, nx, {}, a)
  BY <1>1, <1>15, <1>18, <1>19, <1>20, <1>21, EditKeeps
<1>23. Roomy(w, 0)
  BY <1>13, <1>17 DEF Roomy
<1> DEFINE v == PropagateMaxKeyUp(w, a, k)
<1>24. Good(v, lv, lo, nx, {}, 0) /\ Alike(w, v)
  <2>1. a \in Nodes(w) /\ Top(w, a) = k
    BY <1>1, <1>13, <1>16
  <2>. QED
    BY <1>22, <2>1, PropagateKeeps
<1>. HIDE DEF v
<1>25. Roomy(v, 0)
  BY <1>14, <1>23, <1>24, AlikeKeeps
<1>26. Stands(v, {})
  BY <1>24, <1>25 DEF Stands
<1>27. v.page = w.page
  BY <1>24 DEF Alike
<1>28. w.page = MarkPage(t, pg, q).page
  BY <1>8 DEF w, MarkPage
<1>. QED
  BY <1>26, <1>27, <1>28 DEF v, w, u, n, pg, LastFiled

\* What an attempt to insert works with.
Trying(t, k, z, a, i, pg, p, q) ==
  /\ a = FindLeaf(t, k) /\ i = FirstNotBelow(Keys(t, a), k)
  /\ pg = (IF i > Len(Kids(t, a)) THEN Last(Kids(t, a)) ELSE Kids(t, a)[i])
  /\ p = t.page[pg] /\ q = With(p, k, z)

Tried(t, k, z, a, i, pg, p, q, v) ==
  \/ v = t
  \/ /\ z <= Capacity /\ k \notin DOMAIN p
     /\ \/ /\ Used(q) <= Capacity /\ i > Len(Kids(t, a))
           /\ v = PropagateMaxKeyUp(MarkPage(MarkNode(t, a, PastNode(t.node[a], k)), pg, q), a, k)
        \/ Used(q) <= Capacity /\ ~(i > Len(Kids(t, a))) /\ v = MarkPage(t, pg, q)
        \/ ~(Used(q) <= Capacity) /\ (\A j \in DOMAIN p : j < k) /\ v = SplitPage(t, pg, p, [j \in {k} |-> z])
        \/ /\ ~(Used(q) <= Capacity) /\ ~(\A j \in DOMAIN p : j < k) /\ Divisions(q) # {}
           /\ v = SplitPage(t, pg, Below(q, ChooseSplit(q, k)), From(q, ChooseSplit(q, k)))
        \/ /\ ~(Used(q) <= Capacity) /\ ~(\A j \in DOMAIN p : j < k) /\ Divisions(q) = {}
           /\ v = SplitPage(t, pg, Below(p, k), From(p, k))

LEMMA TryInsertIs ==
  ASSUME NEW t, NEW k, NEW z, NEW a, NEW i, NEW pg, NEW p, NEW q, NEW v,
         Trying(t, k, z, a, i, pg, p, q), v = TryInsert(t, k, z).tree, z \in Nat
  PROVE  Tried(t, k, z, a, i, pg, p, q, v)
<1> DEFINE past == i > Len(Kids(t, a))
           filed == MarkNode(t, a, PastNode(t.node[a], k))
           atEnd == \A j \in DOMAIN p : j < k
           cut == ChooseSplit(q, k)
<1>1. TryInsert(t, k, z) =
        IF z > Capacity THEN Result(t, "too large")
        ELSE IF k \in DOMAIN p THEN Result(t, "key exists")
        ELSE IF Used(q) <= Capacity
        THEN Result(IF past THEN PropagateMaxKeyUp(MarkPage(filed, pg, q), a, k)
                    ELSE MarkPage(t, pg, q), "inserted")
        ELSE IF atEnd THEN Result(SplitPage(t, pg, p, [j \in {k} |-> z]), "inserted")
        ELSE IF Divisions(q) # {}
        THEN Result(SplitPage(t, pg, Below(q, cut), From(q, cut)), "inserted")
        ELSE Result(SplitPage(t, pg, Below(p, k), From(p, k)), "again")
  BY Zenon DEF TryInsert, Trying, PastNode, Kids, Keys
<1>2. \A s, r : Result(s, r).tree = s
  BY DEF Result
<1>. HIDE DEF past, filed, atEnd, cut
<1>3. z > Capacity \/ z <= Capacity
  BY OrderAssumption
<1>4. v = IF z > Capacity THEN t
          ELSE IF k \in DOMAIN p THEN t
          ELSE IF Used(q) <= Capacity
          THEN (IF past THEN PropagateMaxKeyUp(MarkPage(filed, pg, q), a, k) ELSE MarkPage(t, pg, q))
          ELSE IF atEnd THEN SplitPage(t, pg, p, [j \in {k} |-> z])
          ELSE IF Divisions(q) # {}
          THEN SplitPage(t, pg, Below(q, cut), From(q, cut))
          ELSE SplitPage(t, pg, Below(p, k), From(p, k))
  BY <1>1, <1>2, Zenon
<1>5. CASE z > Capacity \/ k \in DOMAIN p
  <2>1. v = t
    BY <1>4, <1>5, Zenon
  <2>. QED
    BY <2>1 DEF Tried
<1>6. CASE ~(z > Capacity \/ k \in DOMAIN p)
  <2>0. z <= Capacity /\ k \notin DOMAIN p
    BY <1>3, <1>6
  <2>1. CASE Used(q) <= Capacity /\ past
    <3>1. v = PropagateMaxKeyUp(MarkPage(filed, pg, q), a, k)
      BY <1>4, <1>6, <2>1, Zenon
    <3>. QED
      BY <2>0, <2>1, <3>1 DEF Tried, past, filed
  <2>2. CASE Used(q) <= Capacity /\ ~past
    <3>1. v = MarkPage(t, pg, q)
      BY <1>4, <1>6, <2>2, Zenon
    <3>. QED
      BY <2>0, <2>2, <3>1 DEF Tried, past
  <2>3. CASE ~(Used(q) <= Capacity) /\ atEnd
    <3>1. v = SplitPage(t, pg, p, [j \in {k} |-> z])
      BY <1>4, <1>6, <2>3, Zenon
    <3>. QED
      BY <2>0, <2>3, <3>1 DEF Tried, atEnd
  <2>4. CASE ~(Used(q) <= Capacity) /\ ~atEnd /\ Divisions(q) # {}
    <3>1. v = SplitPage(t, pg, Below(q, cut), From(q, cut))
      BY <1>4, <1>6, <2>4, Zenon
    <3>. QED
      BY <2>0, <2>4, <3>1 DEF Tried, atEnd, cut
  <2>5. CASE ~(Used(q) <= Capacity) /\ ~atEnd /\ Divisions(q) = {}
    <3>1. v = SplitPage(t, pg, Below(p, k), From(p, k))
      BY <1>4, <1>6, <2>5, Zenon
    <3>. QED
      BY <2>0, <2>5, <3>1 DEF Tried, atEnd
  <2>. QED
    BY <2>1, <2>2, <2>3, <2>4, <2>5
<1>. QED
  BY <1>5, <1>6

\* The page p with one record more.
Enlarged(p, q, k, z) ==
  /\ PageType(p) /\ PageType(q) /\ k \in Nat /\ z \in Nat /\ z <= Capacity /\ k \notin DOMAIN p
  /\ DOMAIN q = DOMAIN p \union {k} /\ q[k] = z /\ \A x \in DOMAIN p : q[x] = p[x]

\* With no record below the new one, q could be divided right after it.
LEMMA NoDivision ==
  ASSUME NEW p, NEW q, NEW k, NEW z, Enlarged(p, q, k, z), Used(p) <= Capacity,
         ~(Used(q) <= Capacity), Divisions(q) = {}
  PROVE  \E x \in DOMAIN p : x < k
<1>1. /\ PageType(p) /\ PageType(q) /\ k \in Nat /\ z \in Nat /\ z <= Capacity /\ k \notin DOMAIN p
      /\ DOMAIN q = DOMAIN p \union {k} /\ q[k] = z /\ \A x \in DOMAIN p : q[x] = p[x]
  BY DEF Enlarged
<1>2. \A x \in DOMAIN p : x \in Nat /\ x # k
  BY <1>1, KeyAssumption DEF PageType
<1>3. DOMAIN p # {}
  <2>1. SUFFICES ASSUME DOMAIN p = {} PROVE Used(q) <= Capacity
    OBVIOUS
  <2>2. DOMAIN q = {k} /\ Sized(q)
    BY <1>1, <2>1, PageSized
  <2>3. Used(q) = z
    BY <1>1, <2>2, UsedOne
  <2>. QED
    BY <1>1, <2>3
<1>4. SUFFICES ASSUME \A x \in DOMAIN p : k < x PROVE FALSE
  BY <1>1, <1>2
<1>5. DOMAIN p # {} /\ DOMAIN p \in SUBSET Nat
  BY <1>2, <1>3
<1> DEFINE c == Min(DOMAIN p)
<1>6. c \in DOMAIN p /\ \A x \in DOMAIN p : c <= x
  BY <1>5, MinIs
<1>. HIDE DEF c
<1>7. /\ PageType(Below(q, c)) /\ DOMAIN Below(q, c) = {x \in DOMAIN q : x < c} /\ IsMap(Below(q, c))
      /\ \A x \in DOMAIN Below(q, c) : Below(q, c)[x] = q[x]
      /\ PageType(From(q, c)) /\ DOMAIN From(q, c) = {x \in DOMAIN q : x >= c} /\ IsMap(From(q, c))
      /\ \A x \in DOMAIN From(q, c) : From(q, c)[x] = q[x]
  BY <1>1, PartsOfPage, ZenonT(30)
<1>8. c \in Nat /\ k < c
  BY <1>2, <1>4, <1>6
<1>9. DOMAIN Below(q, c) = {k}
  <2>1. ASSUME NEW x \in DOMAIN q PROVE x < c <=> x = k
    <3>1. CASE x = k
      BY <1>8, <3>1
    <3>2. CASE x # k
      BY <1>1, <1>2, <1>6, <1>8, <3>2
    <3>. QED
      BY <3>1, <3>2
  <2>. QED
    BY <1>1, <1>7, <2>1
<1>10. DOMAIN From(q, c) = DOMAIN p
  <2>1. ASSUME NEW x \in DOMAIN q PROVE x >= c <=> x \in DOMAIN p
    <3>1. CASE x = k
      BY <1>1, <1>8, <3>1
    <3>2. CASE x # k
      BY <1>1, <1>2, <1>6, <1>8, <3>2
    <3>. QED
      BY <3>1, <3>2
  <2>. QED
    BY <1>1, <1>7, <2>1
<1>11. Used(Below(q, c)) <= Capacity
  <2>1. Sized(Below(q, c))
    BY <1>7, PageSized
  <2>2. Used(Below(q, c)) = z
    BY <1>1, <1>7, <1>9, <2>1, UsedOne
  <2>. QED
    BY <1>1, <2>2
<1>12. Used(From(q, c)) <= Capacity
  <2>1. Sized(From(q, c)) /\ Sized(p)
    BY <1>1, <1>7, PageSized
  <2>2. \A x \in DOMAIN From(q, c) : x \in DOMAIN p /\ From(q, c)[x] <= p[x]
    BY <1>1, <1>7, <1>10, <2>1 DEF Sized
  <2>3. Used(From(q, c)) <= Used(p) /\ Used(From(q, c)) \in Nat /\ Used(p) \in Nat
    BY <2>1, <2>2, UsedWithin
  <2>. QED
    BY <2>3, OrderAssumption
<1>13. Below(q, c) # <<>>
  BY <1>7, <1>9, EmptyPage
<1>14. c \in Divisions(q)
  BY <1>1, <1>6, <1>11, <1>12, <1>13 DEF Divisions
<1>. QED
  BY <1>14

SplitWell(t, pg, lower, upper) ==
  /\ Holds(SplitPage(t, pg, lower, upper))
  /\ SplitPage(t, pg, lower, upper).page = TwoPages(t, pg, lower, FreeAddress(DOMAIN t.page), upper).page

\* A page that is not empty is divided at the spot, with or without the record.
LEMMA SplitAtSpot ==
  ASSUME NEW t, NEW lv, NEW lo, NEW nx, NEW k, NEW a, NEW m, NEW past, NEW lower, NEW upper,
         Spot(t, lv, lo, nx, k, a, m, past), past \in BOOLEAN, Roomy(t, 0), Fits(t),
         PageType(lower), PageType(upper), DOMAIN lower # {}, DOMAIN upper # {},
         \A x \in DOMAIN lower, y \in DOMAIN upper : x < y,
         \A x \in DOMAIN lower : x \in DOMAIN t.page[Kids(t, a)[m]] \/ (x = k /\ ~past),
         \A x \in DOMAIN upper : x \in DOMAIN t.page[Kids(t, a)[m]] \/ x = k,
         Used(lower) <= Capacity, Used(upper) <= Capacity
  PROVE  SplitWell(t, Kids(t, a)[m], lower, upper)
<1> DEFINE pg == Kids(t, a)[m]
           b == FreeAddress(DOMAIN t.page)
           v == SplitPage(t, pg, lower, upper)
<1>1. /\ Good(t, lv, lo, nx, {}, 0) /\ a \in Nodes(t) /\ Leaf(t, a) /\ m \in 1 .. Len(Kids(t, a))
      /\ k \in Key /\ k \in Nat /\ LoAt(t, lo, a, m) < k
      /\ IF past THEN m = Len(Kids(t, a)) /\ Keys(t, a)[m] < k /\ (nx[a] # 0 => k <= lo[nx[a]])
         ELSE k <= Keys(t, a)[m]
  BY DEF Spot
<1>2. pg \in DOMAIN t.page /\ \A x \in DOMAIN t.page[pg] : LoAt(t, lo, a, m) < x /\ x <= Keys(t, a)[m]
  BY <1>1 DEF Good, Filed
<1>3. \A x \in DOMAIN lower : LoAt(t, lo, a, m) < x /\ x <= Keys(t, a)[m]
  BY <1>1, <1>2
<1>4. \A y \in DOMAIN upper : y <= Keys(t, a)[m] \/ (m = Len(Kids(t, a)) /\ (nx[a] # 0 => y <= lo[nx[a]]))
  BY <1>1, <1>2
<1>5. Parts(t, lo, nx, a, m, lower, upper)
  BY <1>1, <1>3, <1>4 DEF Parts
<1>6. Stands(v, {}) /\ v.page = TwoPages(t, pg, lower, b, upper).page
  BY <1>1, <1>5, SplitPageStands
<1>7. pg # b /\ Formed(t)
  <2>1. Typed(t)
    BY <1>1 DEF Good
  <2>2. Formed(t) /\ IsFiniteSet(DOMAIN t.page) /\ DOMAIN t.page \subseteq Nat
    BY <2>1, TypedParts
  <2>3. b \notin DOMAIN t.page
    BY <2>2, FreeAddressIs
  <2>. QED
    BY <1>2, <2>2, <2>3
<1>. HIDE DEF b, v, pg
<1>8. Fits(v)
  BY <1>6, <1>7, TwoFit
<1>. QED
  BY <1>6, <1>8 DEF Holds, SplitWell, v, pg, b

\* What an attempt makes of the pages.
TriedPages(t, k, z, pg, p, q, v) ==
  \/ v = t
  \/ /\ z <= Capacity /\ k \notin DOMAIN p
     /\ \/ Used(q) <= Capacity /\ v.page = MarkPage(t, pg, q).page
        \/ /\ ~(Used(q) <= Capacity) /\ (\A j \in DOMAIN p : j < k)
           /\ v.page = TwoPages(t, pg, p, FreeAddress(DOMAIN t.page), [j \in {k} |-> z]).page
        \/ /\ ~(Used(q) <= Capacity) /\ ~(\A j \in DOMAIN p : j < k) /\ Divisions(q) # {}
           /\ \E c \in DOMAIN q :
                v.page = TwoPages(t, pg, Below(q, c), FreeAddress(DOMAIN t.page), From(q, c)).page
        \/ /\ ~(Used(q) <= Capacity) /\ ~(\A j \in DOMAIN p : j < k) /\ Divisions(q) = {}
           /\ v.page = TwoPages(t, pg, Below(p, k), FreeAddress(DOMAIN t.page), From(p, k)).page

LEMMA TryInsertHolds ==
  ASSUME NEW t, Holds(t), NEW k \in Key, NEW z \in Size
  PROVE  /\ Holds(TryInsert(t, k, z).tree)
         /\ \E a, i, pg, p, q : /\ Trying(t, k, z, a, i, pg, p, q) /\ pg \in DOMAIN t.page /\ PageType(p)
                               /\ TriedPages(t, k, z, pg, p, q, TryInsert(t, k, z).tree)
<1> DEFINE a == FindLeaf(t, k)
           i == FirstNotBelow(Keys(t, a), k)
           pg == IF i > Len(Kids(t, a)) THEN Last(Kids(t, a)) ELSE Kids(t, a)[i]
           p == t.page[pg]
           q == With(p, k, z)
           v == TryInsert(t, k, z).tree
           m == IF i > Len(Kids(t, a)) THEN Len(Kids(t, a)) ELSE i
           past == i > Len(Kids(t, a))
<1>1. Stands(t, {}) /\ Fits(t) /\ Roomy(t, 0)
  BY DEF Holds, Stands
<1>2. PICK lv, lo, nx : Lands(t, lv, lo, nx, k, a, i)
  BY <1>1, Landing
<1>3. z \in Nat /\ z > 0 /\ k \in Nat
  BY SizeAssumption, KeyAssumption
<1>4. Trying(t, k, z, a, i, pg, p, q)
  BY DEF Trying
<1>5. Tried(t, k, z, a, i, pg, p, q, v)
  BY <1>3, <1>4, TryInsertIs
<1>. HIDE DEF a, i, v
<1>6. Spot(t, lv, lo, nx, k, a, m, past)
  BY <1>2, SpotIs
<1>7. past \in BOOLEAN /\ (past <=> i > Len(Kids(t, a)))
  OBVIOUS
<1>8. /\ Good(t, lv, lo, nx, {}, 0) /\ a \in Nodes(t) /\ Leaf(t, a) /\ m \in 1 .. Len(Kids(t, a))
      /\ LoAt(t, lo, a, m) < k
      /\ IF past THEN m = Len(Kids(t, a)) /\ Keys(t, a)[m] < k /\ (nx[a] # 0 => k <= lo[nx[a]])
         ELSE k <= Keys(t, a)[m]
  BY <1>6 DEF Spot
<1>9. pg = Kids(t, a)[m]
  <2>1. Last(Kids(t, a)) = Kids(t, a)[Len(Kids(t, a))]
    BY DEF Last
  <2>. QED
    BY <2>1
<1>. HIDE DEF m, past, pg, p, q
<1>10. pg \in DOMAIN t.page /\ PageType(p) /\ Used(p) <= Capacity /\ Formed(t)
       /\ \A x \in DOMAIN p : LoAt(t, lo, a, m) < x /\ x <= Keys(t, a)[m]
  <2>1. pg \in DOMAIN t.page /\ \A x \in DOMAIN t.page[pg] : LoAt(t, lo, a, m) < x /\ x <= Keys(t, a)[m]
    BY <1>8, <1>9 DEF Good, Filed
  <2>2. Typed(t)
    BY <1>8 DEF Good
  <2>3. PageType(t.page[pg]) /\ Formed(t)
    BY <2>1, <2>2, TypedParts
  <2>. QED
    BY <1>1, <2>1, <2>3 DEF p, Fits
<1>12. ASSUME z <= Capacity, k \notin DOMAIN p PROVE (Holds(v) /\ TriedPages(t, k, z, pg, p, q, v)) \/ v = t
  <2>1. PageType(q) /\ DOMAIN q = DOMAIN p \union {k} /\ q[k] = z /\ \A x \in DOMAIN p : q[x] = p[x]
    BY <1>10, <1>12, PageMore DEF q
  <2>2. \A x \in DOMAIN q : x = k \/ x \in DOMAIN t.page[Kids(t, a)[m]]
    BY <1>9, <2>1 DEF p
  <2>3. CASE /\ Used(q) <= Capacity /\ i > Len(Kids(t, a))
             /\ v = PropagateMaxKeyUp(MarkPage(MarkNode(t, a, PastNode(t.node[a], k)), pg, q), a, k)
    <3>1. Spot(t, lv, lo, nx, k, a, m, TRUE)
      BY <1>6, <1>7, <2>3
    <3> DEFINE w == PropagateMaxKeyUp(MarkPage(MarkNode(t, a, PastNode(t.node[a], k)), Kids(t, a)[m], q), a, k)
    <3>c. \A x \in DOMAIN q : x = k \/ x \in DOMAIN t.page[Kids(t, a)[m]]
      BY <2>2
    <3>d. PageType(q) /\ Roomy(t, 0)
      BY <1>1, <2>1
    <3>a. LastFiled(t, w, Kids(t, a)[m], q)
      BY <3>c, <3>d, <3>1, FiledPast
    <3>b. v = w
      BY <1>9, <2>3
    <3>. HIDE DEF w
    <3>2. Stands(v, {}) /\ v.page = MarkPage(t, pg, q).page
      BY <1>9, <3>a, <3>b DEF LastFiled
    <3>3. Fits(MarkPage(t, pg, q))
      BY <1>1, <1>10, <2>3, MarkedFits
    <3>4. Holds(v)
      BY <3>2, <3>3 DEF Holds, Fits
    <3>. QED
      BY <1>12, <2>3, <3>2, <3>4 DEF TriedPages
  <2>4. CASE Used(q) <= Capacity /\ ~(i > Len(Kids(t, a))) /\ v = MarkPage(t, pg, q)
    <3>1. \A x \in DOMAIN q : LoAt(t, lo, a, m) < x /\ x <= Keys(t, a)[m]
      BY <1>7, <1>8, <1>10, <2>1, <2>4
    <3>2. Good(v, lv, lo, nx, {}, 0) /\ Roomy(v, 0)
      BY <1>1, <1>8, <1>9, <2>1, <2>4, <3>1, PageStored
    <3>3. Fits(v)
      BY <1>1, <1>10, <2>4, MarkedFits
    <3>4. Holds(v)
      BY <3>2, <3>3 DEF Holds, Stands
    <3>. QED
      BY <1>12, <2>4, <3>4 DEF TriedPages
  <2>5. DOMAIN p # {} \/ Used(q) <= Capacity
    <3>1. SUFFICES ASSUME DOMAIN p = {} PROVE Used(q) <= Capacity
      OBVIOUS
    <3>2. DOMAIN q = {k} /\ Sized(q)
      BY <2>1, <3>1, PageSized
    <3>3. Used(q) = z
      BY <2>1, <3>2, UsedOne
    <3>. QED
      BY <1>12, <3>3
  <2>6. CASE /\ ~(Used(q) <= Capacity) /\ (\A j \in DOMAIN p : j < k)
             /\ v = SplitPage(t, pg, p, [j \in {k} |-> z])
    <3> DEFINE u == [j \in {k} |-> z]
    <3>1. PageType(u) /\ DOMAIN u = {k} /\ u[k] = z
      <4>1. u = [j \in DOMAIN u |-> u[j]] /\ DOMAIN u = {k} /\ u[k] = z
        OBVIOUS
      <4>2. IsFiniteSet({k})
        BY FS_Singleton
      <4>. HIDE DEF u
      <4>. QED
        BY <4>1, <4>2 DEF PageType
    <3>. HIDE DEF u
    <3>2. Used(u) <= Capacity
      <4>1. Sized(u)
        BY <3>1, PageSized
      <4>2. Used(u) = z
        BY <3>1, <4>1, UsedOne
      <4>. QED
        BY <1>12, <4>2
    <3>3. DOMAIN p # {}
      BY <2>5, <2>6
    <3>4. \A x \in DOMAIN p, y \in DOMAIN u : x < y
      BY <2>6, <3>1
    <3>5. \A x \in DOMAIN p : x \in DOMAIN t.page[Kids(t, a)[m]]
      BY <1>9 DEF p
    <3>6. \A x \in DOMAIN u : x = k
      BY <3>1
    <3>7. SplitWell(t, Kids(t, a)[m], p, u)
      BY <1>1, <1>6, <1>7, <1>10, <3>1, <3>2, <3>3, <3>4, <3>5, <3>6, SplitAtSpot
    <3>8. Holds(v) /\ v.page = TwoPages(t, pg, p, FreeAddress(DOMAIN t.page), [j \in {k} |-> z]).page
      BY <1>9, <2>6, <3>7 DEF SplitWell, u
    <3>. QED
      BY <1>12, <2>6, <3>8 DEF TriedPages
  <2>7. ASSUME ~(\A j \in DOMAIN p : j < k) PROVE ~past
    <3>1. SUFFICES ASSUME past PROVE FALSE
      OBVIOUS
    <3>2. \A x \in DOMAIN p : x <= Keys(t, a)[m] /\ x \in Nat
      BY <1>10, KeyAssumption DEF PageType
    <3>3. Keys(t, a)[m] \in Nat
      BY <1>8, LeafKeys
    <3>. QED
      BY <1>3, <1>8, <2>7, <3>1, <3>2, <3>3
  <2>8. CASE /\ ~(Used(q) <= Capacity) /\ ~(\A j \in DOMAIN p : j < k) /\ Divisions(q) # {}
             /\ v = SplitPage(t, pg, Below(q, ChooseSplit(q, k)), From(q, ChooseSplit(q, k)))
    <3> DEFINE c == ChooseSplit(q, k)
    <3>1. c \in Divisions(q)
      BY <2>1, <2>8, ChosenDivides
    <3>. HIDE DEF c
    <3>2. Divides(q, c) /\ Used(From(q, c)) <= Capacity
      BY <2>1, <3>1, DivisionIs
    <3>3. /\ PageType(Below(q, c)) /\ PageType(From(q, c)) /\ DOMAIN Below(q, c) # {} /\ DOMAIN From(q, c) # {}
          /\ DOMAIN Below(q, c) \subseteq DOMAIN q /\ DOMAIN From(q, c) \subseteq DOMAIN q
          /\ \A x \in DOMAIN Below(q, c), y \in DOMAIN From(q, c) : x < y
          /\ Used(Below(q, c)) <= Capacity
      BY <3>2 DEF Divides
    <3>4. \A x \in DOMAIN Below(q, c) : x \in DOMAIN t.page[Kids(t, a)[m]] \/ (x = k /\ ~past)
      BY <2>2, <2>7, <2>8, <3>3
    <3>5. \A x \in DOMAIN From(q, c) : x \in DOMAIN t.page[Kids(t, a)[m]] \/ x = k
      BY <2>2, <3>3
    <3>6. SplitWell(t, Kids(t, a)[m], Below(q, c), From(q, c))
      BY <1>1, <1>6, <1>7, <3>2, <3>3, <3>4, <3>5, SplitAtSpot
    <3>7. Holds(v) /\ v.page = TwoPages(t, pg, Below(q, c), FreeAddress(DOMAIN t.page), From(q, c)).page
      BY <1>9, <2>8, <3>6 DEF SplitWell, c
    <3>8. c \in DOMAIN q
      BY <3>2 DEF Divides
    <3>. QED
      BY <1>12, <2>8, <3>7, <3>8 DEF TriedPages
  <2>9. CASE /\ ~(Used(q) <= Capacity) /\ ~(\A j \in DOMAIN p : j < k) /\ Divisions(q) = {}
             /\ v = SplitPage(t, pg, Below(p, k), From(p, k))
    <3>1. /\ PageType(Below(p, k)) /\ DOMAIN Below(p, k) = {x \in DOMAIN p : x < k}
          /\ PageType(From(p, k)) /\ DOMAIN From(p, k) = {x \in DOMAIN p : x >= k}
      BY <1>10, PartsOfPage
    <3>2. Used(Below(p, k)) <= Capacity /\ Used(From(p, k)) <= Capacity
      <4>1. /\ Used(p) \in Nat /\ Used(Below(p, k)) \in Nat /\ Used(From(p, k)) \in Nat
            /\ Used(Below(p, k)) <= Used(p) /\ Used(From(p, k)) <= Used(p)
        BY <1>10, UsedOfParts
      <4>. QED
        BY <1>10, <4>1, OrderAssumption
    <3>3. \A x \in DOMAIN p : x \in Nat /\ x # k
      BY <1>10, <1>12, KeyAssumption DEF PageType
    <3>4. DOMAIN From(p, k) # {}
      BY <1>3, <2>9, <3>1, <3>3
    <3>5. DOMAIN Below(p, k) # {}
      <4>1. \E x \in DOMAIN p : x < k
        <5>1. Enlarged(p, q, k, z)
          BY <1>3, <1>10, <1>12, <2>1 DEF Enlarged
        <5>. QED
          BY <1>10, <2>9, <5>1, NoDivision
      <4>. QED
        BY <3>1, <4>1
    <3>6. \A x \in DOMAIN Below(p, k), y \in DOMAIN From(p, k) : x < y
      BY <1>3, <3>1, <3>3
    <3>7. /\ \A x \in DOMAIN Below(p, k) : x \in DOMAIN t.page[Kids(t, a)[m]]
          /\ \A x \in DOMAIN From(p, k) : x \in DOMAIN t.page[Kids(t, a)[m]]
      BY <1>9, <3>1 DEF p
    <3>8. SplitWell(t, Kids(t, a)[m], Below(p, k), From(p, k))
      BY <1>1, <1>6, <1>7, <3>1, <3>2, <3>4, <3>5, <3>6, <3>7, SplitAtSpot
    <3>9. Holds(v) /\ v.page = TwoPages(t, pg, Below(p, k), FreeAddress(DOMAIN t.page), From(p, k)).page
      BY <1>9, <2>9, <3>8 DEF SplitWell
    <3>. QED
      BY <1>12, <2>9, <3>9 DEF TriedPages
  <2>. QED
    BY <1>5, <1>12, <2>3, <2>4, <2>6, <2>8, <2>9 DEF Tried
<1>13. v = t \/ (z <= Capacity /\ k \notin DOMAIN p)
  BY <1>5 DEF Tried
<1>14. Holds(v) /\ TriedPages(t, k, z, pg, p, q, v)
  <2>1. v = t => Holds(v) /\ TriedPages(t, k, z, pg, p, q, v)
    BY DEF TriedPages
  <2>. QED
    BY <1>12, <1>13, <2>1
<1>. QED
  BY <1>4, <1>10, <1>14 DEF v

(***************************************************************************)
(* The records of a tree, whatever pages they are in.                      *)
(***************************************************************************)
Record(p, x, y) == x \in DOMAIN p /\ p[x] = y
Recorded(t, x, y) == \E r \in DOMAIN t.page : Record(t.page[r], x, y)
Elsewhere(t, pg, x, y) == \E r \in DOMAIN t.page : r # pg /\ Record(t.page[r], x, y)
SameRecords(t, v) == \A x, y : Recorded(v, x, y) <=> Recorded(t, x, y)

LEMMA RecordedAt ==
  ASSUME NEW t, NEW pg \in DOMAIN t.page
  PROVE  \A x, y : Recorded(t, x, y) <=> Record(t.page[pg], x, y) \/ Elsewhere(t, pg, x, y)
BY DEF Recorded, Elsewhere

LEMMA RecordedMarked ==
  ASSUME NEW t, Formed(t), NEW pg, NEW q
  PROVE  \A x, y : Recorded(MarkPage(t, pg, q), x, y) <=> Record(q, x, y) \/ Elsewhere(t, pg, x, y)
<1> DEFINE v == MarkPage(t, pg, q)
<1>1. /\ DOMAIN v.page = DOMAIN t.page \union {pg} /\ v.page[pg] = q
      /\ \A x \in DOMAIN t.page : x # pg => v.page[x] = t.page[x]
  BY PageMarked
<1>. HIDE DEF v
<1>2. SUFFICES ASSUME NEW x, NEW y
               PROVE  Recorded(v, x, y) <=> Record(q, x, y) \/ Elsewhere(t, pg, x, y)
  BY DEF v
<1>3. ASSUME Recorded(v, x, y) PROVE Record(q, x, y) \/ Elsewhere(t, pg, x, y)
  <2>1. PICK r \in DOMAIN v.page : Record(v.page[r], x, y)
    BY <1>3 DEF Recorded
  <2>. QED
    BY <1>1, <2>1 DEF Elsewhere
<1>4. ASSUME Record(q, x, y) PROVE Recorded(v, x, y)
  BY <1>1, <1>4 DEF Recorded
<1>5. ASSUME Elsewhere(t, pg, x, y) PROVE Recorded(v, x, y)
  <2>1. PICK r \in DOMAIN t.page : r # pg /\ Record(t.page[r], x, y)
    BY <1>5 DEF Elsewhere
  <2>2. r \in DOMAIN v.page /\ Record(v.page[r], x, y)
    BY <1>1, <2>1
  <2>. QED
    BY <2>2 DEF Recorded
<1>. QED
  BY <1>3, <1>4, <1>5

\* Page pg is now two.
SpreadOver(t, v, pg, lower, b, upper) ==
  \A x, y :
    /\ Recorded(v, x, y) <=> Record(lower, x, y) \/ Record(upper, x, y) \/ Elsewhere(t, pg, x, y)
    /\ Elsewhere(v, b, x, y) <=> Record(lower, x, y) \/ Elsewhere(t, pg, x, y)

LEMMA RecordedDivided ==
  ASSUME NEW t, NEW v, NEW pg \in DOMAIN t.page, NEW lower, NEW b, NEW upper, Formed(t), b \notin DOMAIN t.page,
         v.page = TwoPages(t, pg, lower, b, upper).page
  PROVE  SpreadOver(t, v, pg, lower, b, upper)
<1> DEFINE w == TwoPages(t, pg, lower, b, upper)
<1>1. pg # b
  OBVIOUS
<1>2. /\ DOMAIN w.page = DOMAIN t.page \union {pg, b} /\ w.page[pg] = lower /\ w.page[b] = upper
      /\ \A x \in DOMAIN t.page : x # pg /\ x # b => w.page[x] = t.page[x]
  BY <1>1, TwoPagesAre
<1>. HIDE DEF w
<1>3. /\ DOMAIN v.page = DOMAIN t.page \union {b} /\ v.page[pg] = lower /\ v.page[b] = upper
      /\ \A x \in DOMAIN t.page : x # pg => v.page[x] = t.page[x]
  BY <1>2 DEF w
<1>4. SUFFICES ASSUME NEW x, NEW y
               PROVE  Elsewhere(v, b, x, y) <=> Record(lower, x, y) \/ Elsewhere(t, pg, x, y)
  <2>1. b \in DOMAIN v.page
    BY <1>3
  <2>2. \A x, y : Recorded(v, x, y) <=> Record(upper, x, y) \/ Elsewhere(v, b, x, y)
    BY <1>3, <2>1, RecordedAt
  <2>. QED
    BY <1>4, <2>2 DEF SpreadOver
<1>5. ASSUME Elsewhere(v, b, x, y) PROVE Record(lower, x, y) \/ Elsewhere(t, pg, x, y)
  <2>1. PICK r \in DOMAIN v.page : r # b /\ Record(v.page[r], x, y)
    BY <1>5 DEF Elsewhere
  <2>. QED
    BY <1>3, <2>1 DEF Elsewhere
<1>6. ASSUME Record(lower, x, y) PROVE Elsewhere(v, b, x, y)
  <2>1. pg \in DOMAIN v.page /\ pg # b /\ Record(v.page[pg], x, y)
    BY <1>3, <1>6
  <2>. QED
    BY <2>1 DEF Elsewhere
<1>7. ASSUME Elsewhere(t, pg, x, y) PROVE Elsewhere(v, b, x, y)
  <2>1. PICK r \in DOMAIN t.page : r # pg /\ Record(t.page[r], x, y)
    BY <1>7 DEF Elsewhere
  <2>2. r \in DOMAIN v.page /\ r # b /\ Record(v.page[r], x, y)
    BY <1>3, <2>1
  <2>. QED
    BY <2>2 DEF Elsewhere
<1>. QED
  BY <1>5, <1>6, <1>7

LEMMA PartsRecord ==
  ASSUME NEW q, PageType(q), NEW c \in Nat
  PROVE  \A x, y : Record(q, x, y) <=> Record(Below(q, c), x, y) \/ Record(From(q, c), x, y)
<1>1. /\ DOMAIN Below(q, c) = {x \in DOMAIN q : x < c} /\ \A x \in DOMAIN Below(q, c) : Below(q, c)[x] = q[x]
      /\ DOMAIN From(q, c) = {x \in DOMAIN q : x >= c} /\ \A x \in DOMAIN From(q, c) : From(q, c)[x] = q[x]
  BY PartsOfPage
<1>2. \A x \in DOMAIN q : x \in Nat
  BY KeyAssumption DEF PageType
<1>3. \A x \in DOMAIN q : x < c \/ x >= c
  BY <1>2
<1>4. \A x : /\ x \in DOMAIN Below(q, c) <=> x \in DOMAIN q /\ x < c
             /\ x \in DOMAIN From(q, c) <=> x \in DOMAIN q /\ x >= c
  BY <1>1
<1>. QED
  BY <1>1, <1>3, <1>4, Zenon DEF Record

\* The attempts of an insertion.
Trials(f, m, s, k, z) == f = [i \in 0 .. m |-> IF i = 0 THEN s ELSE (IF f[i - 1].reply = "again" THEN TryInsert(f[i - 1].tree, k, z) ELSE f[i - 1])]

LEMMA TrialsRun ==
  ASSUME NEW n \in Nat, NEW s, NEW k, NEW z
  PROVE  \E f : Trials(f, n, s, k, z)
<1> DEFINE T == {m \in 0 .. n : \E f : Trials(f, m, s, k, z)}
<1>1. 0 \in T
  <2>1. Trials([i \in 0 .. 0 |-> s], 0, s, k, z)
    BY DEF Trials
  <2>. QED
    BY <2>1
<1>2. ASSUME NEW m \in 1 .. n, m - 1 \in T PROVE m \in T
  <2>1. PICK f : Trials(f, m - 1, s, k, z)
    BY <1>2
  <2> DEFINE g == [i \in 0 .. m |-> IF i = m THEN (IF f[m - 1].reply = "again" THEN TryInsert(f[m - 1].tree, k, z) ELSE f[m - 1]) ELSE f[i]]
  <2>2. ASSUME NEW i \in 0 .. m PROVE g[i] = IF i = 0 THEN s ELSE (IF g[i - 1].reply = "again" THEN TryInsert(g[i - 1].tree, k, z) ELSE g[i - 1])
    <3>1. CASE i = m
      <4>1. i - 1 \in 0 .. m /\ i - 1 # m /\ i # 0
        BY <3>1
      <4>2. g[i - 1] = f[m - 1]
        BY <3>1, <4>1
      <4>. QED
        BY <3>1, <4>1, <4>2
    <3>2. CASE i # m /\ i # 0
      <4>1. i \in 0 .. (m - 1) /\ i - 1 \in 0 .. m /\ i - 1 # m
        BY <3>2
      <4>2. g[i - 1] = f[i - 1] /\ g[i] = f[i]
        BY <3>2, <4>1
      <4>3. f[i] = (IF f[i - 1].reply = "again" THEN TryInsert(f[i - 1].tree, k, z) ELSE f[i - 1])
        BY <2>1, <3>2, <4>1 DEF Trials
      <4>. QED
        BY <3>2, <4>2, <4>3
    <3>3. CASE i = 0
      BY <2>1, <3>3 DEF Trials
    <3>. QED
      BY <3>1, <3>2, <3>3
  <2>3. Trials(g, m, s, k, z)
    BY <2>2, Zenon DEF Trials
  <2>. HIDE DEF g
  <2>. QED
    BY <2>3
<1>. HIDE DEF T
<1>3. 0 .. n \subseteq T
  BY <1>1, <1>2, CountingUpTo
<1>4. n \in T
  BY <1>3
<1>. QED
  BY <1>4 DEF T

\* The insertion of a record keeps the tree's invariant.
LEMMA InsertHolds ==
  ASSUME NEW t, Holds(t), NEW k \in Key, NEW z \in Size
  PROVE  Holds(InsertRecord(t, k, z).tree)
<1> DEFINE after == CHOOSE g : Trials(g, 3, Result(t, "again"), k, z)
<1>1. \E g : Trials(g, 3, Result(t, "again"), k, z)
  BY TrialsRun
<1>2. Trials(after, 3, Result(t, "again"), k, z)
  BY <1>1, Zenon
<1>3. InsertRecord(t, k, z) = IF after[3].reply = "again" THEN Result(after[3].tree, "failed") ELSE after[3]
  BY Zenon DEF Trials, InsertRecord, Rounds
<1>. HIDE DEF after
<1>4. after = [i \in 0 .. 3 |-> IF i = 0 THEN Result(t, "again") ELSE (IF after[i - 1].reply = "again" THEN TryInsert(after[i - 1].tree, k, z) ELSE after[i - 1])]
  BY <1>2, Zenon DEF Trials
<1>5. ASSUME NEW i \in 0 .. 3 PROVE after[i] = IF i = 0 THEN Result(t, "again") ELSE (IF after[i - 1].reply = "again" THEN TryInsert(after[i - 1].tree, k, z) ELSE after[i - 1])
  BY <1>4, Zenon
<1> DEFINE T == {i \in 0 .. 3 : Holds(after[i].tree)}
<1>6. 0 \in T
  <2>1. after[0] = Result(t, "again") /\ 0 \in 0 .. 3
    BY <1>5
  <2>2. Result(t, "again").tree = t
    BY DEF Result
  <2>. QED
    BY <2>1, <2>2
<1>7. ASSUME NEW i \in 1 .. 3, i - 1 \in T PROVE i \in T
  <2>1. i \in 0 .. 3 /\ i # 0
    OBVIOUS
  <2>2. Holds(after[i - 1].tree)
    BY <1>7
  <2>3. after[i] = after[i - 1] \/ after[i] = TryInsert(after[i - 1].tree, k, z)
    BY <1>5, <2>1, Zenon
  <2>4. Holds(TryInsert(after[i - 1].tree, k, z).tree)
    BY <2>2, TryInsertHolds
  <2>5. Holds(after[i].tree)
    BY <2>2, <2>3, <2>4
  <2>. QED
    BY <2>1, <2>5
<1>. HIDE DEF T
<1>8. 0 .. 3 \subseteq T
  BY <1>6, <1>7, CountingUpTo
<1>9. Holds(after[3].tree)
  BY <1>8 DEF T
<1>10. Result(after[3].tree, "failed").tree = after[3].tree
  BY DEF Result
<1>. QED
  BY <1>3, <1>9, <1>10, Zenon

\* What storePage's loop keeps: only the page to be stored may not fit, and at
\* most m of its records are to be divided.
StoreState(s, m) ==
  /\ Stands(s.tree, {}) /\ s.at \in DOMAIN s.tree.page /\ PageType(s.page)
  /\ DOMAIN s.page = DOMAIN s.tree.page[s.at]
  /\ \A x \in DOMAIN s.tree.page : x # s.at => Used(s.tree.page[x]) <= Capacity
  /\ \A x \in DOMAIN s.page : s.page[x] <= Capacity
  /\ Used(s.page) <= Capacity \/ Cardinality(DOMAIN s.page) <= m

\* The tree with the page stored as it is.
Shelved(s) == MarkPage(s.tree, s.at, s.page)

LEMMA StoreStep ==
  ASSUME NEW s, NEW m \in Nat, StoreState(s, m)
  PROVE  StoreState(StoreRest(s), m - 1) /\ SameRecords(Shelved(s), Shelved(StoreRest(s)))
<1> DEFINE t == s.tree
           p == s.page
           k == DivideAt(s.page)
           b == FreeAddress(DOMAIN t.page)
           v == SplitPage(t, s.at, Below(p, k), From(p, k))
<1>1. /\ Stands(t, {}) /\ s.at \in DOMAIN t.page /\ PageType(p) /\ DOMAIN p = DOMAIN t.page[s.at]
      /\ \A x \in DOMAIN t.page : x # s.at => Used(t.page[x]) <= Capacity
      /\ \A x \in DOMAIN p : p[x] <= Capacity
      /\ Used(p) <= Capacity \/ Cardinality(DOMAIN p) <= m
  BY DEF StoreState
<1>2. CASE Used(p) <= Capacity
  <2>1. StoreRest(s) = s
    BY <1>2, Zenon DEF StoreRest
  <2>2. StoreState(s, m - 1)
    BY <1>1, <1>2 DEF StoreState
  <2>3. SameRecords(Shelved(s), Shelved(s))
    BY DEF SameRecords
  <2>. QED
    BY <2>1, <2>2, <2>3, Zenon
<1>3. CASE ~(Used(p) <= Capacity)
  <2>1. Divides(p, k)
    BY <1>1, <1>3, DivideAtIs
  <2>2. StoreRest(s) = [tree |-> v, page |-> From(p, k), at |-> b]
    BY <1>3, Zenon DEF StoreRest
  <2>. HIDE DEF t, p, k
  <2>3. /\ k \in DOMAIN p /\ k \in Nat
        /\ PageType(Below(p, k)) /\ PageType(From(p, k)) /\ DOMAIN Below(p, k) # {} /\ DOMAIN From(p, k) # {}
        /\ DOMAIN Below(p, k) = {x \in DOMAIN p : x < k} /\ DOMAIN From(p, k) = {x \in DOMAIN p : x >= k}
        /\ \A x \in DOMAIN Below(p, k), y \in DOMAIN From(p, k) : x < y
        /\ Used(Below(p, k)) <= Capacity
    BY <2>1 DEF Divides
  <2>4. DOMAIN Below(p, k) \subseteq DOMAIN t.page[s.at] /\ DOMAIN From(p, k) \subseteq DOMAIN t.page[s.at]
    BY <1>1, <2>3
  <2>5. Stands(v, {}) /\ v.page = TwoPages(t, s.at, Below(p, k), b, From(p, k)).page
    BY <1>1, <2>3, <2>4, SplitWithin
  <2>6. s.at # b /\ b \notin DOMAIN t.page /\ Formed(t)
    <3>1. PICK lv, lo, nx : Good(t, lv, lo, nx, {}, 0)
      BY <1>1 DEF Stands
    <3>2. Typed(t)
      BY <3>1 DEF Good
    <3>3. Formed(t) /\ IsFiniteSet(DOMAIN t.page) /\ DOMAIN t.page \subseteq Nat
      BY <3>2, TypedParts
    <3>4. b \notin DOMAIN t.page
      BY <3>3, FreeAddressIs
    <3>. QED
      BY <1>1, <3>3, <3>4
  <2>. HIDE DEF b, v
  <2>7. /\ DOMAIN v.page = DOMAIN t.page \union {s.at, b} /\ v.page[s.at] = Below(p, k) /\ v.page[b] = From(p, k)
        /\ \A x \in DOMAIN t.page : x # s.at /\ x # b => v.page[x] = t.page[x]
    BY <2>5, <2>6, TwoPagesAre
  <2>8. ASSUME NEW x \in DOMAIN v.page, x # b PROVE Used(v.page[x]) <= Capacity
    <3>1. CASE x = s.at
      BY <2>3, <2>7, <3>1
    <3>2. CASE x # s.at
      BY <1>1, <2>7, <2>8, <3>2
    <3>. QED
      BY <3>1, <3>2
  <2>9. \A x \in DOMAIN From(p, k) : From(p, k)[x] <= Capacity
    <3>0. \A x \in DOMAIN From(p, k) : From(p, k)[x] = p[x]
      BY <1>1, PartsOfPage
    <3>1. \A x \in DOMAIN From(p, k) : x \in DOMAIN p /\ From(p, k)[x] = p[x]
      BY <2>3, <3>0
    <3>. QED
      BY <1>1, <3>1
  <2>10. Cardinality(DOMAIN From(p, k)) <= m - 1
    <3>1. PICK x \in DOMAIN Below(p, k) : TRUE
      BY <2>3
    <3>2. x \in DOMAIN p /\ x \notin DOMAIN From(p, k) /\ x < k /\ x \in Nat
      <4>1. x \in DOMAIN p /\ x < k
        BY <2>3
      <4>2. x \in Nat
        BY <1>1, <4>1, KeyAssumption DEF PageType
      <4>. QED
        BY <2>3, <4>1, <4>2
    <3>3. IsFiniteSet(DOMAIN p) /\ DOMAIN From(p, k) \subseteq DOMAIN p \ {x}
      BY <1>1, <2>3, <3>2 DEF PageType
    <3>4. IsFiniteSet(DOMAIN p \ {x}) /\ Cardinality(DOMAIN p \ {x}) = Cardinality(DOMAIN p) - 1
      BY <3>2, <3>3, FS_RemoveElement
    <3>5. Cardinality(DOMAIN From(p, k)) <= Cardinality(DOMAIN p \ {x}) /\ IsFiniteSet(DOMAIN From(p, k))
      BY <3>3, <3>4, FS_Subset
    <3>6. Cardinality(DOMAIN p) \in Nat /\ Cardinality(DOMAIN From(p, k)) \in Nat
      BY <3>3, <3>5, FS_CardinalityType
    <3>. QED
      BY <1>1, <1>3, <3>4, <3>5, <3>6
  <2> DEFINE w == StoreRest(s)
  <2>11. w.tree = v /\ w.page = From(p, k) /\ w.at = b
    BY <2>2
  <2>. HIDE DEF w
  <2>12. StoreState(w, m - 1)
    BY <2>3, <2>5, <2>7, <2>8, <2>9, <2>10, <2>11 DEF StoreState
  <2>13. SpreadOver(t, v, s.at, Below(p, k), b, From(p, k))
    BY <1>1, <2>5, <2>6, RecordedDivided
  <2>14. \A x, y : Record(p, x, y) <=> Record(Below(p, k), x, y) \/ Record(From(p, k), x, y)
    BY <1>1, <2>3, PartsRecord
  <2>15. \A x, y : Recorded(MarkPage(t, s.at, p), x, y) <=> Record(p, x, y) \/ Elsewhere(t, s.at, x, y)
    BY <2>6, RecordedMarked
  <2>16. Formed(v)
    BY <2>5 DEF Stands, Good, Typed
  <2>17. \A x, y : Recorded(MarkPage(v, b, From(p, k)), x, y) <=> Record(From(p, k), x, y) \/ Elsewhere(v, b, x, y)
    BY <2>16, RecordedMarked
  <2>18. SameRecords(MarkPage(t, s.at, p), MarkPage(v, b, From(p, k)))
    BY <2>13, <2>14, <2>15, <2>17 DEF SameRecords, SpreadOver
  <2>19. Shelved(s) = MarkPage(t, s.at, p) /\ Shelved(w) = MarkPage(v, b, From(p, k))
    BY <2>11 DEF Shelved, t, p
  <2>. QED
    BY <2>12, <2>18, <2>19 DEF w
<1>. QED
  BY <1>2, <1>3

LEMMA StoreEnds ==
  ASSUME NEW s, NEW m \in Int, m <= 0, StoreState(s, m)
  PROVE  Holds(MarkPage(s.tree, s.at, s.page))
<1> DEFINE t == s.tree
           p == s.page
           v == MarkPage(t, s.at, p)
<1>1. /\ Stands(t, {}) /\ s.at \in DOMAIN t.page /\ PageType(p) /\ DOMAIN p = DOMAIN t.page[s.at]
      /\ \A x \in DOMAIN t.page : x # s.at => Used(t.page[x]) <= Capacity
      /\ Used(p) <= Capacity \/ Cardinality(DOMAIN p) <= m
  BY DEF StoreState
<1>. HIDE DEF t, p
<1>2. Used(p) <= Capacity
  <2>1. SUFFICES ASSUME Cardinality(DOMAIN p) <= m PROVE Used(p) <= Capacity
    BY <1>1
  <2>2. IsFiniteSet(DOMAIN p)
    BY <1>1 DEF PageType
  <2>3. Cardinality(DOMAIN p) \in Nat
    BY <2>2, FS_CardinalityType
  <2>4. Cardinality(DOMAIN p) = 0
    BY <2>1, <2>3
  <2>5. DOMAIN p = {}
    BY <2>2, <2>4, FS_EmptySet
  <2>6. Used(p) = 0
    BY <2>5 DEF Used
  <2>. QED
    BY <2>6, OrderAssumption
<1>3. PICK lv, lo, nx : Good(t, lv, lo, nx, {}, 0)
  BY <1>1 DEF Stands
<1>4. Roomy(t, 0)
  BY <1>1 DEF Stands
<1>5. PICK a, i : PageIn(t, lo, s.at, a, i)
  BY <1>1, <1>3, PageWhere
<1>6. a \in Nodes(t) /\ Leaf(t, a) /\ i \in 1 .. Len(Kids(t, a)) /\ Kids(t, a)[i] = s.at
      /\ \A k \in DOMAIN t.page[s.at] : LoAt(t, lo, a, i) < k /\ k <= Keys(t, a)[i]
  BY <1>5 DEF PageIn
<1>7. \A k \in DOMAIN p : LoAt(t, lo, a, i) < k /\ k <= Keys(t, a)[i]
  BY <1>1, <1>6
<1>8. Good(MarkPage(t, Kids(t, a)[i], p), lv, lo, nx, {}, 0) /\ Roomy(MarkPage(t, Kids(t, a)[i], p), 0)
  BY <1>1, <1>3, <1>4, <1>6, <1>7, PageStored
<1>9. Stands(v, {})
  BY <1>6, <1>8 DEF Stands
<1>10. Formed(t)
  BY <1>3 DEF Good, Typed
<1>11. /\ DOMAIN v.page = DOMAIN t.page \union {s.at} /\ v.page[s.at] = p
       /\ \A x \in DOMAIN t.page : x # s.at => v.page[x] = t.page[x]
  BY <1>10, PageMarked
<1>. HIDE DEF v
<1>12. ASSUME NEW x \in DOMAIN v.page PROVE Used(v.page[x]) <= Capacity
  <2>1. CASE x = s.at
    BY <1>2, <1>11, <2>1
  <2>2. CASE x # s.at
    BY <1>1, <1>11, <2>2
  <2>. QED
    BY <2>1, <2>2
<1>13. Fits(v)
  BY <1>12 DEF Fits
<1>. QED
  BY <1>9, <1>13 DEF Holds, v, t, p

LEMMA StoreHolds ==
  ASSUME NEW t, NEW p, NEW pg, Holds(t), pg \in DOMAIN t.page, PageType(p), DOMAIN p = DOMAIN t.page[pg],
         \A x \in DOMAIN p : p[x] <= Capacity
  PROVE  Holds(StorePage(t, p, pg)) /\ SameRecords(MarkPage(t, pg, p), StorePage(t, p, pg))
<1> DEFINE n == Cardinality(DOMAIN p)
<1>1. IsFiniteSet(DOMAIN p)
  BY DEF PageType
<1>2. n \in Nat
  BY <1>1, FS_CardinalityType
<1>3. PICK f : /\ StorePage(t, p, pg) = MarkPage(f[n].tree, f[n].at, f[n].page)
               /\ f[0] = [tree |-> t, page |-> p, at |-> pg]
               /\ \A i \in 1 .. n : f[i] = StoreRest(f[i - 1])
  BY <1>2, StoreRuns
<1>4. StoreState(f[0], n)
  <2>1. f[0].tree = t /\ f[0].page = p /\ f[0].at = pg
    BY <1>3
  <2>. HIDE DEF n
  <2>2. n <= n
    BY <1>2
  <2>. QED
    BY <2>1, <2>2 DEF StoreState, Holds, Fits, n
<1>. HIDE DEF n
<1> DEFINE T == {i \in 0 .. n : StoreState(f[i], n - i) /\ SameRecords(MarkPage(t, pg, p), Shelved(f[i]))}
<1>5. 0 \in T
  <2>1. Shelved(f[0]) = MarkPage(t, pg, p)
    BY <1>3 DEF Shelved
  <2>2. SameRecords(MarkPage(t, pg, p), Shelved(f[0]))
    BY <2>1 DEF SameRecords
  <2>3. 0 \in 0 .. n /\ n - 0 = n
    BY <1>2
  <2>. QED
    BY <1>4, <2>2, <2>3
<1>6. ASSUME NEW i \in 1 .. n, i - 1 \in T PROVE i \in T
  <2>1. /\ StoreState(f[i - 1], n - (i - 1)) /\ n - (i - 1) \in Nat /\ i \in 0 .. n /\ n - (i - 1) - 1 = n - i
        /\ SameRecords(MarkPage(t, pg, p), Shelved(f[i - 1]))
    BY <1>2, <1>6
  <2>2. StoreState(StoreRest(f[i - 1]), n - (i - 1) - 1) /\ SameRecords(Shelved(f[i - 1]), Shelved(StoreRest(f[i - 1])))
    BY <2>1, StoreStep
  <2>3. SameRecords(MarkPage(t, pg, p), Shelved(StoreRest(f[i - 1])))
    BY <2>1, <2>2 DEF SameRecords
  <2>. QED
    BY <1>3, <2>1, <2>2, <2>3
<1>. HIDE DEF T
<1>7. 0 .. n \subseteq T
  BY <1>2, <1>5, <1>6, CountingUpTo
<1>8. StoreState(f[n], n - n) /\ SameRecords(MarkPage(t, pg, p), Shelved(f[n]))
  BY <1>2, <1>7 DEF T
<1>9. Holds(MarkPage(f[n].tree, f[n].at, f[n].page))
  <2>1. n - n = 0
    BY <1>2
  <2>. QED
    BY <1>8, <2>1, StoreEnds
<1>. QED
  BY <1>3, <1>8, <1>9 DEF Shelved

\* Where a search leads: to a page of the leaf it finds, or past its keys.
Found(t, lv, lo, nx, k, a, i, pg) ==
  /\ Lands(t, lv, lo, nx, k, a, i) /\ a = FindLeaf(t, k) /\ pg \in DOMAIN t.page /\ pg # 0
  /\ i \in 1 .. Len(Kids(t, a)) /\ Kids(t, a)[i] = pg

LEMMA PageFound ==
  ASSUME NEW t, Stands(t, {}), NEW k \in Key, FindPage(t, k) # 0
  PROVE  \E lv, lo, nx, a, i : Found(t, lv, lo, nx, k, a, i, FindPage(t, k))
<1> DEFINE a == FindLeaf(t, k)
           i == FirstNotBelow(Keys(t, a), k)
           pg == FindPage(t, k)
<1>1. PICK lv, lo, nx : Lands(t, lv, lo, nx, k, a, i)
  BY Landing
<1>2. pg = IF i > Len(Kids(t, a)) THEN 0 ELSE Kids(t, a)[i]
  BY DEF FindPage, Keys, Kids
<1>3. a = FindLeaf(t, k) /\ pg # 0
  OBVIOUS
<1>. HIDE DEF a, i, pg
<1>4. ~(i > Len(Kids(t, a))) /\ pg = Kids(t, a)[i]
  BY <1>2, <1>3
<1>5. Good(t, lv, lo, nx, {}, 0) /\ a \in Nodes(t) /\ Leaf(t, a) /\ i \in 1 .. (Len(Keys(t, a)) + 1)
  BY <1>1 DEF Lands, NotBelowAt
<1>6. Len(Kids(t, a)) \in Nat /\ Len(Keys(t, a)) = Len(Kids(t, a))
  BY <1>5, LeafKeys
<1>7. i \in 1 .. Len(Kids(t, a))
  BY <1>4, <1>5, <1>6
<1>8. Kids(t, a)[i] \in DOMAIN t.page
  BY <1>5, <1>7 DEF Good, Filed
<1>9. Found(t, lv, lo, nx, k, a, i, pg)
  BY <1>1, <1>3, <1>4, <1>7, <1>8 DEF Found
<1>. QED
  BY <1>9 DEF pg

\* The update of a record keeps the tree's invariant.
LEMMA UpdateHolds ==
  ASSUME NEW t, Holds(t), NEW k \in Key, NEW z \in Size
  PROVE  Holds(UpdateRecord(t, k, z).tree)
<1> DEFINE pg == FindPage(t, k)
           p == [t.page[pg] EXCEPT ![k] = z]
<1>1. \A s, r : Result(s, r).tree = s
  BY DEF Result
<1>2. UpdateRecord(t, k, z) = IF pg = 0 \/ k \notin DOMAIN t.page[pg] \/ z > Capacity THEN Result(t, "refused")
                              ELSE Result(StorePage(t, p, pg), "updated")
  BY Zenon DEF UpdateRecord
<1>3. CASE pg = 0 \/ k \notin DOMAIN t.page[pg] \/ z > Capacity
  <2>1. UpdateRecord(t, k, z).tree = t
    BY <1>1, <1>2, <1>3, Zenon
  <2>. QED
    BY <2>1
<1>4. CASE ~(pg = 0 \/ k \notin DOMAIN t.page[pg] \/ z > Capacity)
  <2>1. UpdateRecord(t, k, z).tree = StorePage(t, p, pg)
    BY <1>1, <1>2, <1>4, Zenon
  <2>2. pg \in DOMAIN t.page
    <3>1. PICK lv, lo, nx, a, i : Found(t, lv, lo, nx, k, a, i, pg)
      BY <1>4, PageFound DEF Holds
    <3>. QED
      BY <3>1 DEF Found
  <2>3. PageType(t.page[pg]) /\ Used(t.page[pg]) <= Capacity
    <3>1. PICK lv, lo, nx : Good(t, lv, lo, nx, {}, 0)
      BY DEF Holds, Stands
    <3>2. Typed(t)
      BY <3>1 DEF Good
    <3>. QED
      BY <2>2, <3>2, TypedParts DEF Holds, Fits
  <2>4. z \in Nat /\ z <= Capacity /\ k \in DOMAIN t.page[pg]
    <3>1. z \in Nat
      BY SizeAssumption
    <3>. QED
      BY <1>4, <3>1, OrderAssumption
  <2> DEFINE o == t.page[pg]
  <2>5. o = [x \in DOMAIN o |-> o[x]]
    BY <2>3 DEF PageType
  <2>6. p = [x \in DOMAIN p |-> p[x]] /\ DOMAIN p = DOMAIN o /\ \A x \in DOMAIN o : p[x] = IF x = k THEN z ELSE o[x]
    BY <2>4, <2>5
  <2>. HIDE DEF p
  <2>7. PageType(p)
    BY <2>3, <2>6 DEF PageType
  <2>8. ASSUME NEW x \in DOMAIN p PROVE p[x] <= Capacity
    <3>1. CASE x = k
      BY <2>4, <2>6, <3>1
    <3>2. CASE x # k
      <4>1. Sized(o)
        BY <2>3, PageSized
      <4>2. o[x] <= Used(o) /\ o[x] \in Nat /\ Used(o) \in Nat
        BY <2>6, <4>1, UsedOne
      <4>. QED
        BY <2>3, <2>6, <3>2, <4>2, OrderAssumption
    <3>. QED
      BY <3>1, <3>2
  <2>9. Holds(StorePage(t, p, pg))
    BY <2>2, <2>6, <2>7, <2>8, StoreHolds
  <2>. QED
    BY <2>1, <2>9
<1>. QED
  BY <1>3, <1>4

\* The node that removePage stores.
NodeWithout(n, i) ==
  LET m == [n EXCEPT !.kids = RemoveAt(@, i), !.keys = RemoveAt(@, i)] IN
  IF i = Len(n.kids) /\ i > 1 THEN [m EXCEPT !.max = Last(m.keys)] ELSE m

MaxWithout(n, i) == IF i = Len(n.kids) THEN n.keys[Len(n.kids) - 1] ELSE n.max

LEMMA NodeWithoutIs ==
  ASSUME NEW n \in NodeType, NEW i \in 1 .. Len(n.kids), Len(n.keys) = Len(n.kids), Len(n.kids) >= 2
  PROVE  Rearranged(n, NodeWithout(n, i), RemoveAt(n.kids, i), RemoveAt(n.keys, i), MaxWithout(n, i))
<1> DEFINE C == RemoveAt(n.kids, i)
           Q == RemoveAt(n.keys, i)
           m == [n EXCEPT !.kids = C, !.keys = Q]
           l == Len(n.kids)
<1>1. n.kids \in Seq(Nat \ {0}) /\ n.keys \in Seq(Key) /\ n.max \in Key /\ l \in Nat
  BY DEF NodeType
<1>2. C \in Seq(Nat \ {0}) /\ Len(C) = Len(n.kids) - 1
  BY <1>1, RemoveAtItems
<1>3. /\ Q \in Seq(Key) /\ Len(Q) = Len(n.keys) - 1
      /\ \A x \in 1 .. (Len(n.keys) - 1) : Q[x] = IF x < i THEN n.keys[x] ELSE n.keys[x + 1]
  <2>1. i \in 1 .. Len(n.keys)
    OBVIOUS
  <2>. QED
    BY <1>1, <2>1, RemoveAtItems
<1>4. NodeWithout(n, i) = IF i = l /\ i > 1 THEN [m EXCEPT !.max = Last(m.keys)] ELSE m
  <2>1. [n EXCEPT !.kids = RemoveAt(@, i), !.keys = RemoveAt(@, i)] = m
    BY DEF NodeType
  <2>. QED
    BY <2>1, Zenon DEF NodeWithout
<1>. HIDE DEF C, Q
<1>5. Rearranged(n, m, C, Q, n.max)
  BY <1>1, <1>2, <1>3, Rearrayed
<1>. HIDE DEF m
<1>6. m \in NodeType /\ m.keys = Q /\ m.kids = C /\ m.leaf = n.leaf /\ m.parent = n.parent /\ m.prev = n.prev /\ m.next = n.next /\ m.max = n.max
  BY <1>5 DEF Rearranged
<1>7. CASE i = l
  <2>1. i > 1 /\ l - 1 \in 1 .. (l - 1)
    BY <1>1, <1>7
  <2>2. Q[l - 1] = n.keys[l - 1]
    BY <1>1, <1>3, <1>7, <2>1
  <2>3. Last(m.keys) = n.keys[l - 1]
    <3>1. Last(Q) = Q[Len(Q)]
      BY DEF Last
    <3>. QED
      BY <1>3, <1>6, <2>2, <3>1
  <2>4. n.keys[l - 1] \in Key
    BY <1>1, <2>1
  <2>5. NodeWithout(n, i) = [m EXCEPT !.max = n.keys[l - 1]]
    BY <1>4, <1>7, <2>1, <2>3
  <2>6. MaxWithout(n, i) = n.keys[l - 1]
    BY <1>7 DEF MaxWithout
  <2> DEFINE k == n.keys[l - 1]
             w == [m EXCEPT !.max = k]
  <2>. HIDE DEF k
  <2>7. /\ w \in NodeType /\ w.leaf = m.leaf /\ w.kids = m.kids /\ w.max = k /\ w.parent = m.parent
        /\ w.prev = m.prev /\ w.next = m.next /\ w.keys = m.keys
    BY <1>6, <2>4, Remaxed DEF k
  <2>. HIDE DEF w
  <2>8. Rearranged(n, w, C, Q, k)
    BY <1>6, <2>7 DEF Rearranged
  <2>. QED
    BY <2>5, <2>6, <2>8 DEF w, k, C, Q
<1>8. CASE i # l
  <2>1. NodeWithout(n, i) = m /\ MaxWithout(n, i) = n.max
    BY <1>4, <1>8 DEF MaxWithout
  <2>. QED
    BY <1>5, <2>1 DEF C, Q
<1>. QED
  BY <1>7, <1>8

\* The leaf at a of u has what that of t has but for the i-th page.
WithoutAt(t, u, a, i) ==
  /\ Len(Kids(u, a)) = Len(Kids(t, a)) - 1 /\ Len(Keys(u, a)) = Len(Kids(t, a)) - 1
  /\ \A m \in 1 .. (Len(Kids(t, a)) - 1) :
       /\ Kids(u, a)[m] = Kids(t, a)[IF m < i THEN m ELSE m + 1]
       /\ Keys(u, a)[m] = Keys(t, a)[IF m < i THEN m ELSE m + 1]
  /\ Top(u, a) = IF i = Len(Kids(t, a)) THEN Keys(t, a)[Len(Kids(t, a)) - 1] ELSE Top(t, a)

LEMMA RemovedAt ==
  ASSUME NEW t, NEW a, NEW i, Typed(t), Arrays(t), a \in Nodes(t), Leaf(t, a), i \in 1 .. Len(Kids(t, a)),
         Len(Kids(t, a)) >= 2
  PROVE  /\ EditedTo(t, MarkNode(t, a, NodeWithout(t.node[a], i)), a, NodeWithout(t.node[a], i))
         /\ WithoutAt(t, MarkNode(t, a, NodeWithout(t.node[a], i)), a, i)
<1> DEFINE n == t.node[a]
           w == NodeWithout(n, i)
           u == MarkNode(t, a, w)
           C == RemoveAt(n.kids, i)
           Q == RemoveAt(n.keys, i)
           k == MaxWithout(n, i)
<1>1. n \in NodeType /\ Kids(t, a) = n.kids /\ Keys(t, a) = n.keys /\ Top(t, a) = n.max
  BY TypedParts DEF Kids, Keys, Top
<1>2. Len(n.keys) = Len(n.kids) /\ n.kids \in Seq(Nat \ {0}) /\ n.keys \in Seq(Key) /\ Len(n.kids) \in Nat
  BY <1>1, NodeFields DEF Arrays
<1>3. i \in 1 .. Len(n.kids) /\ Len(n.kids) >= 2 /\ i \in 1 .. Len(n.keys)
  BY <1>1, <1>2
<1>4. /\ Len(C) = Len(n.kids) - 1
      /\ \A x \in 1 .. (Len(n.kids) - 1) : C[x] = IF x < i THEN n.kids[x] ELSE n.kids[x + 1]
  BY <1>2, <1>3, RemoveAtItems
<1>5. /\ Len(Q) = Len(n.keys) - 1
      /\ \A x \in 1 .. (Len(n.keys) - 1) : Q[x] = IF x < i THEN n.keys[x] ELSE n.keys[x + 1]
  BY <1>2, <1>3, RemoveAtItems
<1>6. Rearranged(n, w, C, Q, k)
  BY <1>1, <1>2, <1>3, NodeWithoutIs
<1>. HIDE DEF w, C, Q, k
<1>7. w \in NodeType /\ w.leaf = n.leaf /\ w.parent = n.parent /\ w.prev = n.prev /\ w.next = n.next /\ w.kids = C /\ w.keys = Q /\ w.max = k
  BY <1>6 DEF Rearranged
<1>8. EditedTo(t, u, a, w)
  BY <1>7, EditedBy
<1>. HIDE DEF u, n
<1>9. Kids(u, a) = C /\ Keys(u, a) = Q /\ Top(u, a) = k
  BY <1>7, <1>8 DEF EditedTo
<1>10. k = IF i = Len(Kids(t, a)) THEN Keys(t, a)[Len(Kids(t, a)) - 1] ELSE Top(t, a)
  BY <1>1 DEF k, MaxWithout
<1>11. WithoutAt(t, u, a, i)
  BY <1>1, <1>2, <1>4, <1>5, <1>9, <1>10 DEF WithoutAt
<1>. QED
  BY <1>8, <1>11 DEF u, w, n

LEMMA WithoutFiled ==
  ASSUME NEW t, NEW u, NEW a, NEW w, NEW i, NEW lv, NEW lo, NEW nx,
         Good(t, lv, lo, nx, {}, 0), EditedTo(t, u, a, w), WithoutAt(t, u, a, i), i \in 1 .. Len(Kids(t, a)), Len(Kids(t, a)) >= 2
  PROVE  FiledAt(u, lo, a) /\ Top(u, a) <= Top(t, a)
<1> DEFINE l == Len(Kids(t, a))
           g(m) == IF m < i THEN m ELSE m + 1
<1>1. Typed(t) /\ Arrays(t) /\ Filed(t, lo) /\ Bounds(t, lo, 0) /\ Children(t, lv)
  BY DEF Good
<1>2. a \in Nodes(t) /\ Leaf(t, a) /\ u.page = t.page
  BY DEF EditedTo, Edited
<1>3. /\ l \in Nat /\ l >= 2 /\ Len(Keys(t, a)) = l /\ Top(t, a) \in Nat /\ i \in 1 .. l
      /\ \A m \in 1 .. l : Keys(t, a)[m] \in Nat
  <2>1. Len(Keys(t, a)) = Len(Kids(t, a))
    BY <1>1, <1>2 DEF Arrays
  <2>. QED
    BY <1>1, <1>2, <2>1, NodeFields
<1>4. lo[a] \in Int
  BY <1>1, <1>2 DEF Bounds
<1>5. /\ \A x, y \in 1 .. l : x < y => Keys(t, a)[x] < Keys(t, a)[y]
      /\ \A x \in 1 .. l : lo[a] < Keys(t, a)[x] /\ Keys(t, a)[x] <= Top(t, a)
  BY <1>1, <1>2, <1>3, KeysAscend
<1>6. /\ Len(Kids(u, a)) = l - 1 /\ Len(Keys(u, a)) = l - 1
      /\ \A m \in 1 .. (l - 1) : Kids(u, a)[m] = Kids(t, a)[g(m)] /\ Keys(u, a)[m] = Keys(t, a)[g(m)]
      /\ Top(u, a) = IF i = l THEN Keys(t, a)[l - 1] ELSE Top(t, a)
  BY DEF WithoutAt
<1>7. \A x, y \in 1 .. l : Kids(t, a)[x] = Kids(t, a)[y] => x = y
  BY <1>1, <1>2 DEF Arrays
<1>8. \A x \in 1 .. l : /\ Kids(t, a)[x] \in DOMAIN t.page /\ LoAt(t, lo, a, x) < Keys(t, a)[x]
                        /\ \A k \in DOMAIN t.page[Kids(t, a)[x]] : LoAt(t, lo, a, x) < k /\ k <= Keys(t, a)[x]
  BY <1>1, <1>2 DEF Filed
<1>9. \A x \in 1 .. l : LoAt(t, lo, a, x) = IF x = 1 THEN lo[a] ELSE Keys(t, a)[x - 1]
  BY DEF LoAt
<1>10. \A m : LoAt(u, lo, a, m) = IF m = 1 THEN lo[a] ELSE Keys(u, a)[m - 1]
  BY DEF LoAt
<1>. HIDE DEF l
<1>11. \A m \in 1 .. (l - 1) : g(m) \in 1 .. l /\ (m # 1 => m - 1 \in 1 .. (l - 1))
  BY <1>3
<1>12. \A m \in 1 .. (l - 1) : LoAt(u, lo, a, m) \in Int /\ LoAt(u, lo, a, m) <= LoAt(t, lo, a, g(m)) /\ LoAt(t, lo, a, g(m)) \in Int
  <2>1. SUFFICES ASSUME NEW m \in 1 .. (l - 1)
                 PROVE  LoAt(u, lo, a, m) \in Int /\ LoAt(u, lo, a, m) <= LoAt(t, lo, a, g(m)) /\ LoAt(t, lo, a, g(m)) \in Int
    OBVIOUS
  <2>2. CASE m < i
    <3>1. g(m) = m /\ (m # 1 => g(m - 1) = m - 1)
      BY <1>3, <2>2
    <3>2. LoAt(u, lo, a, m) = LoAt(t, lo, a, m)
      <4>1. CASE m = 1
        BY <1>9, <1>10, <1>11, <3>1, <4>1
      <4>2. CASE m # 1
        <5>1. m - 1 \in 1 .. (l - 1) /\ g(m - 1) = m - 1 /\ m \in 1 .. l
          BY <1>11, <3>1, <4>2
        <5>2. Keys(u, a)[m - 1] = Keys(t, a)[m - 1]
          BY <1>6, <5>1
        <5>. QED
          BY <1>9, <1>10, <4>2, <5>1, <5>2
      <4>. QED
        BY <4>1, <4>2
    <3>3. LoAt(t, lo, a, m) \in Int
      BY <1>3, <1>4, <1>9, <1>11
    <3>. QED
      BY <3>1, <3>2, <3>3
  <2>3. CASE ~(m < i)
    <3>1. g(m) = m + 1 /\ m + 1 # 1 /\ (m + 1) - 1 = m /\ m \in 1 .. l /\ m + 1 \in 1 .. l
      BY <1>3, <2>3
    <3>2. LoAt(t, lo, a, m + 1) = Keys(t, a)[m] /\ Keys(t, a)[m] \in Nat
      BY <1>3, <1>9, <3>1
    <3>3. CASE m = 1
      <4>1. LoAt(u, lo, a, m) = lo[a] /\ lo[a] < Keys(t, a)[m]
        BY <1>5, <1>10, <3>1, <3>3
      <4>. QED
        BY <1>4, <3>1, <3>2, <4>1
    <3>4. CASE m # 1
      <4>1. m - 1 \in 1 .. (l - 1) /\ LoAt(u, lo, a, m) = Keys(t, a)[g(m - 1)]
        BY <1>6, <1>10, <1>11, <3>4
      <4>2. g(m - 1) \in 1 .. l /\ g(m - 1) <= m
        BY <1>3, <2>3, <4>1
      <4>3. Keys(t, a)[g(m - 1)] \in Nat /\ Keys(t, a)[g(m - 1)] <= Keys(t, a)[m]
        BY <1>3, <1>5, <3>1, <4>2
      <4>. QED
        BY <3>1, <3>2, <4>1, <4>3
    <3>. QED
      BY <3>3, <3>4
  <2>. QED
    BY <2>2, <2>3
<1>13. Top(u, a) \in Nat /\ Top(u, a) <= Top(t, a)
  BY <1>3, <1>5, <1>6
<1>14. \A m \in 1 .. (l - 1) : Keys(t, a)[g(m)] <= Top(u, a)
  <2>1. SUFFICES ASSUME NEW m \in 1 .. (l - 1) PROVE Keys(t, a)[g(m)] <= Top(u, a)
    OBVIOUS
  <2>2. CASE i = l
    <3>1. g(m) = m /\ l - 1 \in 1 .. l /\ (m = l - 1 \/ m < l - 1) /\ m \in 1 .. l
      BY <1>3, <2>2
    <3>. QED
      BY <1>3, <1>5, <1>6, <2>2, <3>1
  <2>3. CASE i # l
    BY <1>5, <1>6, <1>11, <2>3
  <2>. QED
    BY <2>2, <2>3
<1>15. \A x, y \in 1 .. (l - 1) : Kids(u, a)[x] = Kids(u, a)[y] => x = y
  <2>1. SUFFICES ASSUME NEW x \in 1 .. (l - 1), NEW y \in 1 .. (l - 1), Kids(u, a)[x] = Kids(u, a)[y] PROVE x = y
    OBVIOUS
  <2>2. g(x) = g(y)
    <3>1. Kids(t, a)[g(x)] = Kids(t, a)[g(y)]
      BY <1>6, <2>1
    <3>2. g(x) \in 1 .. l /\ g(y) \in 1 .. l
      BY <1>11
    <3>. HIDE DEF g
    <3>. QED
      BY <1>7, <3>1, <3>2
  <2>. QED
    BY <1>3, <2>2
<1>16. ASSUME NEW m \in 1 .. (l - 1)
       PROVE  /\ Kids(u, a)[m] \in DOMAIN u.page
              /\ LoAt(u, lo, a, m) < Keys(u, a)[m] /\ Keys(u, a)[m] <= Top(u, a)
              /\ \A k \in DOMAIN u.page[Kids(u, a)[m]] : LoAt(u, lo, a, m) < k /\ k <= Keys(u, a)[m]
  <2> DEFINE x == g(m)
             c == LoAt(u, lo, a, m)
             d == LoAt(t, lo, a, x)
             e == Keys(t, a)[x]
  <2>1. x \in 1 .. l /\ c \in Int /\ d \in Int /\ c <= d /\ e \in Nat /\ Keys(u, a)[m] = e /\ e <= Top(u, a) /\ Kids(u, a)[m] = Kids(t, a)[x]
    BY <1>3, <1>6, <1>11, <1>12, <1>14
  <2>2. Kids(t, a)[x] \in DOMAIN t.page /\ d < e /\ \A k \in DOMAIN t.page[Kids(t, a)[x]] : d < k /\ k <= e
    BY <1>8, <2>1
  <2>3. \A k \in DOMAIN t.page[Kids(t, a)[x]] : k \in Nat
    BY <1>1, <2>2, KeyAssumption, TypedParts DEF PageType
  <2>. HIDE DEF x, c, d, e
  <2>4. c < e /\ \A k \in DOMAIN t.page[Kids(t, a)[x]] : c < k /\ k <= e
    BY <2>1, <2>2, <2>3
  <2>. QED
    BY <1>2, <2>1, <2>2, <2>4 DEF c
<1>17. Len(Kids(u, a)) >= 1 /\ Len(Keys(u, a)) = Len(Kids(u, a))
  BY <1>3, <1>6
<1>. HIDE DEF g
<1>18. FiledAt(u, lo, a)
  BY <1>6, <1>15, <1>16, <1>17, Zenon DEF FiledAt
<1>. QED
  BY <1>13, <1>18

LEMMA WithoutPlaced ==
  ASSUME NEW t, NEW u, NEW a, NEW w, NEW i, NEW lv, NEW lo, NEW nx,
         Good(t, lv, lo, nx, {}, 0), EditedTo(t, u, a, w), WithoutAt(t, u, a, i), i \in 1 .. Len(Kids(t, a)), Len(Kids(t, a)) >= 2
  PROVE  Placed(u, {Kids(t, a)[i]})
<1> DEFINE l == Len(Kids(t, a))
           g(m) == IF m < i THEN m ELSE m + 1
<1>1. Typed(t) /\ Arrays(t) /\ Placed(t, {})
  BY DEF Good
<1>2. /\ a \in Nodes(t) /\ Leaf(t, a) /\ u.page = t.page /\ Nodes(u) = Nodes(t)
      /\ \A x \in Nodes(t) : Leaf(u, x) = Leaf(t, x) /\ (x # a => Kids(u, x) = Kids(t, x))
  BY EditFacts DEF EditedTo
<1>3. l \in Nat /\ l >= 2 /\ i \in 1 .. l
  BY <1>1, <1>2, NodeFields
<1>4. /\ Len(Kids(u, a)) = l - 1
      /\ \A m \in 1 .. (l - 1) : Kids(u, a)[m] = Kids(t, a)[g(m)]
  BY DEF WithoutAt
<1>5. \A x, y \in 1 .. l : Kids(t, a)[x] = Kids(t, a)[y] => x = y
  BY <1>1, <1>2 DEF Arrays
<1>6. /\ \A x, y \in Nodes(t) : Leaf(t, x) /\ Leaf(t, y) =>
           \A j \in 1 .. Len(Kids(t, x)), m \in 1 .. Len(Kids(t, y)) : Kids(t, x)[j] = Kids(t, y)[m] => x = y
      /\ \A pg \in DOMAIN t.page : \E x \in Nodes(t) : Leaf(t, x) /\ \E j \in 1 .. Len(Kids(t, x)) : Kids(t, x)[j] = pg
  BY <1>1 DEF Placed
<1>. HIDE DEF l
<1>7. \A m \in 1 .. (l - 1) : g(m) \in 1 .. l /\ g(m) # i
  BY <1>3
<1>8. \A j \in 1 .. l : j # i => \E m \in 1 .. (l - 1) : g(m) = j
  <2>1. SUFFICES ASSUME NEW j \in 1 .. l, j # i PROVE \E m \in 1 .. (l - 1) : g(m) = j
    OBVIOUS
  <2>2. CASE j < i
    <3>1. j \in 1 .. (l - 1) /\ g(j) = j
      BY <1>3, <2>2
    <3>. QED
      BY <3>1
  <2>3. CASE j > i
    <3>1. j - 1 \in 1 .. (l - 1) /\ g(j - 1) = j
      BY <1>3, <2>3
    <3>. QED
      BY <3>1
  <2>. QED
    BY <1>3, <2>1, <2>2, <2>3
<1>. HIDE DEF g
\* What a leaf of u has, the leaf of t had.
<1>9. \A x \in Nodes(t) : \A j \in 1 .. Len(Kids(u, x)) : \E m \in 1 .. Len(Kids(t, x)) : Kids(t, x)[m] = Kids(u, x)[j]
  <2>1. SUFFICES ASSUME NEW x \in Nodes(t), NEW j \in 1 .. Len(Kids(u, x))
                 PROVE  \E m \in 1 .. Len(Kids(t, x)) : Kids(t, x)[m] = Kids(u, x)[j]
    OBVIOUS
  <2>2. CASE x = a
    BY <1>4, <1>7, <2>2 DEF l
  <2>3. CASE x # a
    BY <1>2, <2>3
  <2>. QED
    BY <2>2, <2>3
<1>10. \A x, y \in Nodes(u) : Leaf(u, x) /\ Leaf(u, y) =>
         \A j \in 1 .. Len(Kids(u, x)), m \in 1 .. Len(Kids(u, y)) : Kids(u, x)[j] = Kids(u, y)[m] => x = y
  <2>1. SUFFICES ASSUME NEW x \in Nodes(t), NEW y \in Nodes(t), Leaf(t, x), Leaf(t, y),
                        NEW j \in 1 .. Len(Kids(u, x)), NEW m \in 1 .. Len(Kids(u, y)), Kids(u, x)[j] = Kids(u, y)[m]
                 PROVE  x = y
    BY <1>2
  <2>2. PICK j2 \in 1 .. Len(Kids(t, x)) : Kids(t, x)[j2] = Kids(u, x)[j]
    BY <1>9
  <2>3. PICK m2 \in 1 .. Len(Kids(t, y)) : Kids(t, y)[m2] = Kids(u, y)[m]
    BY <1>9
  <2>. QED
    BY <1>6, <2>1, <2>2, <2>3
<1> DEFINE In(v, pg) == \E x \in Nodes(v) : Leaf(v, x) /\ \E j \in 1 .. Len(Kids(v, x)) : Kids(v, x)[j] = pg
<1>11. ~In(u, Kids(t, a)[i])
  <2>1. SUFFICES ASSUME NEW x \in Nodes(t), Leaf(t, x), NEW j \in 1 .. Len(Kids(u, x)), Kids(u, x)[j] = Kids(t, a)[i]
                 PROVE  FALSE
    BY <1>2
  <2>2. CASE x = a
    <3>1. j \in 1 .. (l - 1) /\ g(j) \in 1 .. l /\ g(j) # i /\ Kids(t, a)[g(j)] = Kids(t, a)[i]
      BY <1>4, <1>7, <2>1, <2>2
    <3>. QED
      BY <1>3, <1>5, <3>1
  <2>3. CASE x # a
    BY <1>2, <1>3, <1>6, <2>1, <2>3 DEF l
  <2>. QED
    BY <2>2, <2>3
<1>12. ASSUME NEW pg \in DOMAIN t.page, pg # Kids(t, a)[i] PROVE In(u, pg)
  <2>1. PICK x \in Nodes(t) : Leaf(t, x) /\ \E j \in 1 .. Len(Kids(t, x)) : Kids(t, x)[j] = pg
    BY <1>6
  <2>2. PICK j \in 1 .. Len(Kids(t, x)) : Kids(t, x)[j] = pg
    BY <2>1
  <2>3. CASE x = a
    <3>1. j \in 1 .. l /\ j # i
      BY <1>12, <2>2, <2>3 DEF l
    <3>2. PICK m \in 1 .. (l - 1) : g(m) = j
      BY <1>8, <3>1
    <3>3. m \in 1 .. Len(Kids(u, a)) /\ Kids(u, a)[m] = pg
      BY <1>4, <2>2, <2>3, <3>2
    <3>. QED
      BY <1>2, <3>3
  <2>4. CASE x # a
    BY <1>2, <2>1, <2>2, <2>4
  <2>. QED
    BY <2>3, <2>4
<1>13. \A pg \in DOMAIN u.page : In(u, pg) <=> pg \notin {Kids(t, a)[i]}
  BY <1>2, <1>11, <1>12
<1>. QED
  BY <1>10, <1>13, Zenon DEF Placed

\* The page at pg is one of a leaf that can spare it.
Spared(t, lv, lo, nx, a, i, pg) ==
  /\ Good(t, lv, lo, nx, {}, 0) /\ Roomy(t, 0) /\ Fits(t) /\ a \in Nodes(t) /\ Leaf(t, a)
  /\ i \in 1 .. Len(Kids(t, a)) /\ Kids(t, a)[i] = pg /\ Len(Kids(t, a)) >= 2
  /\ a # t.root => Len(Kids(t, a)) >= HalfM + 1

Unfiled(t, u, lv, lo, nx, pg) == Good(u, lv, lo, nx, {pg}, 0) /\ Roomy(u, 0) /\ u.page = t.page

LEMMA UnfiledStands ==
  ASSUME NEW t, NEW lv, NEW lo, NEW nx, NEW a, NEW i, NEW pg, Spared(t, lv, lo, nx, a, i, pg)
  PROVE  Unfiled(t, MarkNode(t, a, NodeWithout(t.node[a], i)), lv, lo, nx, pg)
<1> DEFINE u == MarkNode(t, a, NodeWithout(t.node[a], i))
<1>1. /\ Good(t, lv, lo, nx, {}, 0) /\ Roomy(t, 0) /\ a \in Nodes(t) /\ Leaf(t, a)
      /\ i \in 1 .. Len(Kids(t, a)) /\ Kids(t, a)[i] = pg /\ Len(Kids(t, a)) >= 2
      /\ a # t.root => Len(Kids(t, a)) >= HalfM + 1
  BY DEF Spared
<1>2. Typed(t) /\ Arrays(t) /\ Ordered(t, lv, lo, nx) /\ Bounds(t, lo, 0)
  BY <1>1 DEF Good
<1> DEFINE w == NodeWithout(t.node[a], i)
<1>3. EditedTo(t, u, a, w) /\ WithoutAt(t, u, a, i)
  BY <1>1, <1>2, RemovedAt
<1>. HIDE DEF w, u
<1>4. FiledAt(u, lo, a) /\ Top(u, a) <= Top(t, a)
  BY <1>1, <1>3, WithoutFiled
<1>5. Placed(u, {pg})
  BY <1>1, <1>3, WithoutPlaced
<1>6. /\ Typed(u) /\ Nodes(u) = Nodes(t) /\ u.root = t.root /\ u.page = t.page
      /\ \A x \in Nodes(t) : Leaf(u, x) = Leaf(t, x) /\ (x # a => Kids(u, x) = Kids(t, x))
  BY <1>3, EditFacts DEF EditedTo
<1>7. nx[a] # 0 => Top(u, a) <= lo[nx[a]]
  <2>1. SUFFICES ASSUME nx[a] # 0 PROVE Top(u, a) <= lo[nx[a]]
    OBVIOUS
  <2>2. nx[a] \in Nodes(t) /\ Top(t, a) <= lo[nx[a]]
    BY <1>1, <1>2, <2>1 DEF Ordered
  <2>3. lo[nx[a]] \in Int
    BY <1>2, <2>2 DEF Bounds
  <2>4. Top(t, a) \in Nat /\ Top(u, a) \in Nat
    BY <1>1, <1>2, <1>6, NodeFields
  <2>. QED
    BY <1>4, <2>2, <2>3, <2>4
<1>8. Good(u, lv, lo, nx, {pg}, 0)
  BY <1>1, <1>3, <1>4, <1>5, <1>7, LeafKeeps
<1>9. \A x \in Nodes(t) : Len(Kids(t, x)) \in Nat
  BY <1>2, NodeFields
<1>10. Len(Kids(u, a)) = Len(Kids(t, a)) - 1
  BY <1>3 DEF WithoutAt
<1>11. HalfM \in Nat /\ M \in Nat
  BY HalfIs
<1>12. ASSUME NEW x \in Nodes(t)
       PROVE  /\ Len(Kids(u, x)) <= M
              /\ x # t.root => Len(Kids(u, x)) >= IF x = 0 THEN HalfM - 1 ELSE HalfM
              /\ x = t.root /\ ~Leaf(t, x) => Len(Kids(u, x)) >= IF x = 0 THEN 1 ELSE 2
  <2>1. x # 0
    BY <1>2, NodeFields
  <2>2. /\ Len(Kids(t, x)) <= M
        /\ x # t.root => Len(Kids(t, x)) >= HalfM
        /\ x = t.root /\ ~Leaf(t, x) => Len(Kids(t, x)) >= 2
    BY <1>1, <2>1 DEF Roomy
  <2>3. CASE x # a
    BY <1>6, <2>1, <2>2, <2>3
  <2>4. CASE x = a
    <3>1. Len(Kids(u, x)) = Len(Kids(t, x)) - 1 /\ Len(Kids(t, x)) \in Nat
      BY <1>9, <1>10, <2>4
    <3>2. Len(Kids(u, x)) <= M
      BY <1>11, <2>2, <3>1
    <3>3. x # t.root => Len(Kids(u, x)) >= HalfM
      BY <1>1, <1>11, <2>4, <3>1
    <3>. QED
      BY <1>1, <2>1, <2>4, <3>2, <3>3
  <2>. QED
    BY <2>3, <2>4
<1>13. Roomy(u, 0)
  BY <1>6, <1>12 DEF Roomy
<1>. QED
  BY <1>6, <1>8, <1>13 DEF Unfiled, u

\* The page pg is no more.
PageGone(t, v, pg) ==
  Holds(v) /\ DOMAIN v.page = DOMAIN t.page \ {pg} /\ \A x \in DOMAIN v.page : v.page[x] = t.page[x]

LEMMA DeletedStands ==
  ASSUME NEW u, NEW lv, NEW lo, NEW nx, NEW pg, Good(u, lv, lo, nx, {pg}, 0), Roomy(u, 0), Fits(u)
  PROVE  PageGone(u, DeletePageObject(u, pg), pg)
<1> DEFINE v == DeletePageObject(u, pg)
<1>1. Typed(u) /\ Placed(u, {pg}) /\ Filed(u, lo)
  BY DEF Good
<1>2. /\ Formed(v) /\ v.root = u.root /\ v.node = u.node
      /\ IsMap(v.page) /\ DOMAIN v.page = DOMAIN u.page \ {pg}
      /\ \A x \in DOMAIN u.page : x # pg => v.page[x] = u.page[x]
  BY <1>1, PageDeleted, TypedParts
<1>. HIDE DEF v
<1>3. Nodes(v) = Nodes(u) /\ \A x : Leaf(v, x) = Leaf(u, x) /\ Kids(v, x) = Kids(u, x)
  BY <1>2 DEF Nodes, Leaf, Kids
<1>4. Typed(v)
  <2>1. IsFiniteSet(DOMAIN v.page)
    <3>1. IsFiniteSet(DOMAIN u.page) /\ DOMAIN v.page \subseteq DOMAIN u.page
      BY <1>1, <1>2, TypedParts
    <3>. QED
      BY <3>1, FS_Subset
  <2>2. /\ IsMap(v.node) /\ v.root \in Nodes(v) /\ IsFiniteSet(Nodes(v)) /\ Nodes(v) \subseteq Nat \ {0}
        /\ \A x \in Nodes(v) : v.node[x] \in NodeType
    BY <1>1, <1>2, <1>3, TypedParts
  <2>3. DOMAIN v.page \subseteq Nat \ {0} /\ \A x \in DOMAIN v.page : PageType(v.page[x])
    BY <1>1, <1>2, TypedParts
  <2>. QED
    BY <1>2, <2>1, <2>2, <2>3, MadeTree
<1>5. Placed(v, {})
  BY <1>1, <1>2, <1>3 DEF Placed
<1>6. ASSUME NEW x \in Nodes(u), Leaf(u, x), NEW i \in 1 .. Len(Kids(u, x))
      PROVE  /\ Kids(u, x)[i] \in DOMAIN v.page
             /\ \A k \in DOMAIN v.page[Kids(u, x)[i]] : LoAt(u, lo, x, i) < k /\ k <= Keys(u, x)[i]
  <2>1. /\ Kids(u, x)[i] \in DOMAIN u.page
        /\ \A k \in DOMAIN u.page[Kids(u, x)[i]] : LoAt(u, lo, x, i) < k /\ k <= Keys(u, x)[i]
    BY <1>1, <1>6 DEF Filed
  <2>2. Kids(u, x)[i] \notin {pg}
    BY <1>1, <1>6, <2>1 DEF Placed
  <2>. QED
    BY <1>2, <2>1, <2>2
<1>7. Good(v, lv, lo, nx, {}, 0)
  BY <1>2, <1>4, <1>5, <1>6, PagesEdit
<1>8. Roomy(v, 0)
  BY <1>2, <1>3 DEF Roomy
<1>9. Fits(v)
  BY <1>2 DEF Fits
<1>. QED
  BY <1>2, <1>7, <1>8, <1>9 DEF Holds, Stands, PageGone, v

LEMMA RemovePageHolds ==
  ASSUME NEW b, NEW t, NEW lv, NEW lo, NEW nx, NEW a, NEW i, NEW pg, b.tree = t, b.at = a,
         Spared(t, lv, lo, nx, a, i, pg)
  PROVE  PageGone(t, RemovePage(b, pg), pg) /\ a \in Nodes(RemovePage(b, pg)) /\ Leaf(RemovePage(b, pg), a)
<1> DEFINE n == t.node[a]
           u == MarkNode(t, a, NodeWithout(n, i))
<1>0. u = MarkNode(t, a, NodeWithout(t.node[a], i))
  OBVIOUS
<1>. HIDE DEF u
<1>1. Good(u, lv, lo, nx, {pg}, 0) /\ Roomy(u, 0) /\ u.page = t.page
  <2>1. Unfiled(t, u, lv, lo, nx, pg)
    BY UnfiledStands DEF u
  <2>. QED
    BY <2>1 DEF Unfiled
<1>2. Position(n.kids, pg) = i
  <2>1. Typed(t) /\ Arrays(t) /\ a \in Nodes(t) /\ i \in 1 .. Len(Kids(t, a)) /\ Kids(t, a)[i] = pg
    BY DEF Spared, Good
  <2>2. Kids(t, a) \in Seq(Nat \ {0}) /\ \A j, m \in 1 .. Len(Kids(t, a)) : Kids(t, a)[j] = Kids(t, a)[m] => j = m
    BY <2>1, NodeFields DEF Arrays
  <2>3. Position(Kids(t, a), pg) = i
    BY <2>1, <2>2, PositionIs
  <2>. QED
    BY <2>3 DEF Kids
<1>3. RemovePage(b, pg) = DeletePageObject(u, pg)
  <2>1. RemovePage(b, pg) = DeletePageObject(MarkNode(b.tree, b.at,
          NodeWithout(b.tree.node[b.at], Position(b.tree.node[b.at].kids, pg))), pg)
    BY DEF RemovePage, NodeWithout
  <2>2. RemovePage(b, pg) = DeletePageObject(MarkNode(t, a, NodeWithout(n, Position(n.kids, pg))), pg)
    BY <2>1, Zenon
  <2>. QED
    BY <1>0, <1>2, <2>2, Zenon
<1>4. Fits(u)
  BY <1>1 DEF Spared, Fits
<1>5. PageGone(u, DeletePageObject(u, pg), pg)
  BY <1>1, <1>4, DeletedStands
<1>6. a \in Nodes(u) /\ Leaf(u, a)
  <2>1. Typed(t) /\ a \in Nodes(t) /\ Leaf(t, a) /\ Arrays(t) /\ i \in 1 .. Len(Kids(t, a)) /\ Len(Kids(t, a)) >= 2
    BY DEF Spared, Good
  <2>2. EditedTo(t, u, a, NodeWithout(t.node[a], i))
    BY <2>1, RemovedAt DEF u
  <2>3. Nodes(u) = Nodes(t) /\ \A x \in Nodes(t) : Leaf(u, x) = Leaf(t, x)
    BY <2>1, <2>2, EditFacts DEF EditedTo
  <2>. QED
    BY <2>1, <2>3
<1>7. DeletePageObject(u, pg).node = u.node
  <2>1. Formed(u)
    BY <1>1 DEF Good, Typed
  <2>. QED
    BY <2>1, PageDeleted
<1>. QED
  BY <1>1, <1>3, <1>5, <1>6, <1>7 DEF PageGone, Nodes, Leaf

LEMMA DeletePageHolds ==
  ASSUME NEW t, NEW lv, NEW lo, NEW nx, NEW a, NEW i, NEW pg,
         Good(t, lv, lo, nx, {}, 0), Roomy(t, 0), Fits(t), a \in Nodes(t), Leaf(t, a),
         i \in 1 .. Len(Kids(t, a)), Kids(t, a)[i] = pg, ~(IsRoot(t.node[a]) /\ Len(t.node[a].kids) = 1)
  PROVE  /\ PageGone(t, DeletePage(t, a, pg), pg)
         /\ LeafAfter(t, a) \in Nodes(DeletePage(t, a, pg)) /\ Leaf(DeletePage(t, a, pg), LeafAfter(t, a))
<1> DEFINE n == t.node[a]
           short == Len(n.kids) = HalfM /\ ~IsRoot(n)
           b == IF short THEN BalanceTreeDelete(t, n, a) ELSE [tree |-> t, at |-> a]
<1>1. DeletePage(t, a, pg) = RemovePage(b, pg)
  BY Zenon DEF DeletePage
<1>2. Typed(t) /\ Parents(t) /\ Arrays(t)
  BY DEF Good
<1>3. IsRoot(n) <=> a = t.root
  <2>1. Up(t, t.root) = 0 /\ \A x \in Nodes(t) \ {t.root} : Up(t, x) \in Nodes(t)
    BY <1>2 DEF Parents
  <2>2. 0 \notin Nodes(t)
    BY <1>2, TypedParts
  <2>. QED
    BY <2>1, <2>2 DEF IsRoot, Up
<1>4. Len(Kids(t, a)) \in Nat /\ Len(Kids(t, a)) >= 1 /\ Kids(t, a) = n.kids
  BY <1>2, NodeFields DEF Arrays, Kids
<1>5. HalfM \in Nat /\ HalfM >= 2
  BY HalfIs
<1>6. CASE short
  <2>1. a # t.root /\ Len(Kids(t, a)) = HalfM
    BY <1>3, <1>4, <1>6
  <2> DEFINE v == BalanceTreeDelete(t, n, a).tree
             to == BalanceTreeDelete(t, n, a).at
  <2>2. Rebalanced(t, v, {}, a, to)
    BY <2>1, RebalanceKeeps, RebalancedAt
  <2>3. b = BalanceTreeDelete(t, n, a)
    BY <1>6
  <2>14. LeafAfter(t, a) = to
    BY <1>6 DEF LeafAfter
  <2>. HIDE DEF b
  <2>4. b.tree = v /\ b.at = to
    BY <2>3
  <2>. HIDE DEF v, to
  <2>5. v.page = t.page /\ PagesHeld(t, v, a, to) /\ Roomy(v, 0)
    BY <2>2 DEF Rebalanced
  <2>6. PICK lv2, lo2, nx2 : Good(v, lv2, lo2, nx2, {}, 0)
    BY <2>2 DEF Rebalanced
  <2>7. to \in Nodes(v) /\ Leaf(v, to) /\ Len(Kids(v, to)) >= HalfM + 1
    BY <2>5 DEF PagesHeld
  <2>8. PICK j \in 1 .. Len(Kids(v, to)) : Kids(v, to)[j] = pg
    BY <2>5 DEF PagesHeld
  <2>9. Fits(v)
    BY <2>5 DEF Fits
  <2>10. Len(Kids(v, to)) >= 2
    <3>1. Len(Kids(v, to)) \in Nat
      BY <2>6, <2>7, NodeFields DEF Good
    <3>. QED
      BY <1>5, <2>7, <3>1
  <2>11. Spared(v, lv2, lo2, nx2, to, j, pg)
    BY <2>5, <2>6, <2>7, <2>8, <2>9, <2>10 DEF Spared
  <2>12. LeafAfter(t, a) = to
    BY <2>14
  <2>13. PageGone(v, RemovePage(b, pg), pg) /\ to \in Nodes(RemovePage(b, pg)) /\ Leaf(RemovePage(b, pg), to)
    BY <2>4, <2>11, RemovePageHolds
  <2>. QED
    BY <1>1, <2>5, <2>12, <2>13 DEF PageGone
<1>7. CASE ~short
  <2>1. b = [tree |-> t, at |-> a]
    BY <1>7
  <2>2. a = t.root => Len(Kids(t, a)) >= 2
    <3>1. a = t.root => Len(Kids(t, a)) # 1
      BY <1>3, <1>4, Zenon
    <3>2. \A x \in Nat : x >= 1 /\ x # 1 => x >= 2
      OBVIOUS
    <3>3. Len(Kids(t, a)) \in Nat /\ Len(Kids(t, a)) >= 1
      BY <1>4
    <3>. HIDE DEF n, short, b
    <3>. QED
      BY <3>1, <3>2, <3>3
  <2>3. a # t.root => Len(Kids(t, a)) >= HalfM + 1 /\ Len(Kids(t, a)) >= 2
    <3>1. SUFFICES ASSUME a # t.root PROVE Len(Kids(t, a)) >= HalfM + 1 /\ Len(Kids(t, a)) >= 2
      OBVIOUS
    <3>2. Len(Kids(t, a)) # HalfM
      BY <1>3, <1>4, <1>7, <3>1
    <3>3. Len(Kids(t, a)) >= HalfM
      <4>1. a # 0
        BY <1>2, NodeFields
      <4>. QED
        BY <3>1, <4>1 DEF Roomy
    <3>. QED
      BY <1>4, <1>5, <3>2, <3>3
  <2>4. Spared(t, lv, lo, nx, a, i, pg)
    BY <2>2, <2>3 DEF Spared
  <2>. HIDE DEF b
  <2>5. b.tree = t /\ b.at = a
    BY <2>1
  <2>6. LeafAfter(t, a) = a
    BY <1>7 DEF LeafAfter
  <2>. QED
    BY <1>1, <2>4, <2>5, <2>6, RemovePageHolds
<1>. QED
  BY <1>6, <1>7

LEMMA DeleteHolds ==
  ASSUME NEW t, Holds(t), NEW k \in Key
  PROVE  Holds(DeleteRecord(t, k).tree)
<1> DEFINE pg == FindPage(t, k)
           a == FindLeaf(t, k)
           p == Restrict(t.page[pg], DOMAIN t.page[pg] \ {k})
           only == IsRoot(t.node[a]) /\ Len(t.node[a].kids) = 1
<1>1. \A s, r : Result(s, r).tree = s
  BY DEF Result
<1>2. DeleteRecord(t, k) = IF pg = 0 THEN Result(t, "deleted")
                           ELSE IF k \notin DOMAIN t.page[pg] THEN Result(t, "refused")
                           ELSE IF p = <<>> /\ ~only THEN Result(DeletePage(t, a, pg), "deleted")
                           ELSE Result(MarkPage(t, pg, p), "deleted")
  BY Zenon DEF DeleteRecord
<1>. HIDE DEF only, p
<1>3. \/ DeleteRecord(t, k).tree = t
      \/ pg # 0 /\ ~only /\ DeleteRecord(t, k).tree = DeletePage(t, a, pg)
      \/ pg # 0 /\ DeleteRecord(t, k).tree = MarkPage(t, pg, p)
  BY <1>1, <1>2, Zenon
<1>4. CASE DeleteRecord(t, k).tree = t
  BY <1>4, Zenon
<1>5. ASSUME pg # 0 PROVE \E lv, lo, nx, i : Found(t, lv, lo, nx, k, a, i, pg)
  <2>1. PICK lv, lo, nx, b, i : Found(t, lv, lo, nx, k, b, i, pg)
    BY <1>5, PageFound DEF Holds
  <2>2. b = a
    BY <2>1 DEF Found
  <2>. QED
    BY <2>1, <2>2
<1>6. Roomy(t, 0) /\ Fits(t)
  BY DEF Holds, Stands
<1>7. CASE pg # 0 /\ ~only /\ DeleteRecord(t, k).tree = DeletePage(t, a, pg)
  <2>1. PICK lv, lo, nx, i : Found(t, lv, lo, nx, k, a, i, pg)
    BY <1>5, <1>7
  <2>. HIDE DEF pg, a
  <2>2. Good(t, lv, lo, nx, {}, 0) /\ a \in Nodes(t) /\ Leaf(t, a) /\ i \in 1 .. Len(Kids(t, a)) /\ Kids(t, a)[i] = pg
    BY <2>1 DEF Found, Lands
  <2>3. Holds(DeletePage(t, a, pg))
    BY <1>6, <1>7, <2>2, DeletePageHolds DEF only, PageGone
  <2>. QED
    BY <1>7, <2>3
<1>8. CASE pg # 0 /\ DeleteRecord(t, k).tree = MarkPage(t, pg, p)
  <2>1. PICK lv, lo, nx, i : Found(t, lv, lo, nx, k, a, i, pg)
    BY <1>5, <1>8
  <2>. HIDE DEF pg, a
  <2>2. /\ Good(t, lv, lo, nx, {}, 0) /\ a \in Nodes(t) /\ Leaf(t, a) /\ i \in 1 .. Len(Kids(t, a)) /\ Kids(t, a)[i] = pg
        /\ pg \in DOMAIN t.page
    BY <2>1 DEF Found, Lands
  <2> DEFINE o == t.page[pg]
  <2>3. Typed(t) /\ PageType(o)
    BY <2>2, TypedParts DEF Good
  <2>4. /\ PageType(p) /\ DOMAIN p \subseteq DOMAIN o /\ \A x \in DOMAIN p : p[x] = o[x]
    <3>1. DOMAIN o \ {k} \in SUBSET DOMAIN o
      OBVIOUS
    <3> DEFINE S == DOMAIN o \ {k}
    <3>2. /\ PageType(Restrict(o, S)) /\ DOMAIN Restrict(o, S) = S
          /\ \A x \in S : Restrict(o, S)[x] = o[x]
      BY <2>3, <3>1, PartIs
    <3>. QED
      BY <3>2 DEF p
  <2>5. Used(p) <= Capacity
    <3>1. Sized(o) /\ Sized(p)
      BY <2>3, <2>4, PageSized
    <3>2. \A x \in DOMAIN p : x \in DOMAIN o /\ p[x] <= o[x]
      BY <2>4, <3>1 DEF Sized
    <3>3. Used(p) <= Used(o) /\ Used(p) \in Nat /\ Used(o) \in Nat
      BY <3>1, <3>2, UsedWithin
    <3>4. Used(o) <= Capacity
      BY <1>6, <2>2 DEF Fits
    <3>. QED
      BY <3>3, <3>4, OrderAssumption
  <2>6. \A x \in DOMAIN p : LoAt(t, lo, a, i) < x /\ x <= Keys(t, a)[i]
    BY <2>2, <2>4 DEF Good, Filed
  <2>7. Good(MarkPage(t, pg, p), lv, lo, nx, {}, 0) /\ Roomy(MarkPage(t, pg, p), 0)
    BY <1>6, <2>2, <2>4, <2>6, PageStored
  <2>8. Fits(MarkPage(t, pg, p))
    BY <1>6, <2>3, <2>5, MarkedFits DEF Typed
  <2>9. Holds(MarkPage(t, pg, p))
    BY <2>7, <2>8 DEF Holds, Stands
  <2>. QED
    BY <1>8, <2>9
<1>. QED
  BY <1>3, <1>4, <1>7, <1>8

NoRecords(p) == DOMAIN p = {} /\ PageType(p) /\ Used(p) = 0

LEMMA NoRecordsIs ==
  ASSUME NEW p, IsMap(p), DOMAIN p = {}
  PROVE  NoRecords(p)
<1>1. PageType(p)
  BY FS_EmptySet DEF PageType, IsMap
<1>2. Used(p) = 0
  BY DEF Used
<1>3. NoRecords(p)
  BY <1>1, <1>2 DEF NoRecords
<1>. QED
  BY <1>3

LEMMA NewNode ==
  /\ Nodes(NewTree) = {1} /\ NewTree.root = 1 /\ Formed(NewTree)
  /\ NewTree.node[1] \in NodeType
  /\ Leaf(NewTree, 1) = TRUE /\ Kids(NewTree, 1) = <<1>> /\ Keys(NewTree, 1) = <<0>>
  /\ Top(NewTree, 1) = 0 /\ Up(NewTree, 1) = 0
  /\ NewTree.node[1].prev = 0 /\ NewTree.node[1].next = 0
  /\ NewTree.page = [pg \in {1} |-> <<>>] /\ IsMap(NewTree.node)
<1> DEFINE n == [leaf |-> TRUE, kids |-> <<1>>, keys |-> <<0>>, max |-> 0, parent |-> 0, prev |-> 0, next |-> 0]
           f == [a \in {1} |-> n]
           t == NewTree
<1>1. t = [root |-> 1, node |-> f, page |-> [pg \in {1} |-> <<>>]]
  BY Zenon DEF NewTree
<1>2. n \in NodeType
  <2>1. <<1>> \in Seq(Nat \ {0}) /\ <<0>> \in Seq(Key) /\ 0 \in Key
    BY KeyAssumption
  <2>. QED
    BY <2>1, MadeNode
<1>3. /\ n.leaf = TRUE /\ n.kids = <<1>> /\ n.keys = <<0>> /\ n.max = 0 /\ n.parent = 0 /\ n.prev = 0 /\ n.next = 0
  OBVIOUS
<1>. HIDE DEF n
<1>4. DOMAIN f = {1} /\ f[1] = n /\ IsMap(f)
  BY DEF IsMap
<1>. HIDE DEF f, t
<1>5. t.root = 1 /\ t.node = f /\ t.page = [pg \in {1} |-> <<>>] /\ Formed(t)
  BY <1>1 DEF Formed
<1>6. t.node[1] = n
  BY <1>4, <1>5
<1>. QED
  BY <1>2, <1>3, <1>4, <1>5, <1>6, Zenon DEF Nodes, Leaf, Kids, Keys, Top, Up, t

LEMMA NewTreeHolds == Holds(NewTree)
<1> DEFINE t == NewTree
           lv == [a \in {1} |-> 0]
           lo == [a \in {1} |-> -1]
           nx == [a \in {1} |-> 0]
<1>1. /\ Nodes(t) = {1} /\ t.root = 1 /\ Formed(t) /\ t.node[1] \in NodeType
      /\ Leaf(t, 1) = TRUE /\ Kids(t, 1) = <<1>> /\ Keys(t, 1) = <<0>> /\ Top(t, 1) = 0 /\ Up(t, 1) = 0
      /\ t.node[1].prev = 0 /\ t.node[1].next = 0
      /\ t.page = [pg \in {1} |-> <<>>] /\ IsMap(t.node)
  BY NewNode
<1>. HIDE DEF t
<1>2. DOMAIN t.page = {1} /\ NoRecords(t.page[1]) /\ IsMap(t.page)
  <2>1. DOMAIN t.page = {1} /\ t.page[1] = <<>> /\ IsMap(t.page)
    BY <1>1 DEF IsMap
  <2>2. DOMAIN t.page[1] = {} /\ IsMap(t.page[1])
    BY <2>1 DEF IsMap
  <2>3. NoRecords(t.page[1])
    BY <2>2, NoRecordsIs
  <2>. QED
    BY <2>1, <2>3, Zenon
<1>3. lv[1] = 0 /\ lo[1] = -1 /\ nx[1] = 0
  OBVIOUS
<1>. HIDE DEF lv, lo, nx
<1>4. Len(Kids(t, 1)) = 1 /\ Kids(t, 1)[1] = 1 /\ Len(Keys(t, 1)) = 1 /\ Keys(t, 1)[1] = 0
  BY <1>1
<1>5. Typed(t)
  <2>1. IsFiniteSet({1})
    BY FS_Singleton
  <2>2. \A pg \in DOMAIN t.page : PageType(t.page[pg])
    BY <1>2 DEF NoRecords
  <2>. QED
    <3>1. /\ IsFiniteSet(Nodes(t)) /\ Nodes(t) \subseteq Nat \ {0} /\ t.root \in Nodes(t)
          /\ \A x \in Nodes(t) : t.node[x] \in NodeType
      BY <1>1, <2>1
    <3>2. IsFiniteSet(DOMAIN t.page) /\ DOMAIN t.page \subseteq Nat \ {0}
      BY <1>2, <2>1
    <3>. QED
      BY <1>1, <1>2, <2>2, <3>1, <3>2, MadeTree, Zenon
<1>6. \A i \in 1 .. Len(Kids(t, 1)) : i = 1
  <2>1. \A i \in 1 .. 1 : i = 1
    OBVIOUS
  <2>. QED
    BY <1>4, <2>1, Zenon
<1>7. Arrays(t)
  BY <1>1, <1>4, <1>6 DEF Arrays
<1>8. Parents(t) /\ Levels(t, lv) /\ Children(t, lv) /\ Following(t, nx)
  BY <1>1, <1>3 DEF Parents, Levels, Children, Following
<1>9. Bounds(t, lo, 0)
  BY <1>1, <1>3 DEF Bounds
<1>10. Filed(t, lo)
  <2>1. LoAt(t, lo, 1, 1) = -1
    BY <1>3 DEF LoAt
  <2>. QED
    BY <1>1, <1>2, <1>4, <1>6, <2>1 DEF Filed, NoRecords
<1>11. Ordered(t, lv, lo, nx)
  BY <1>1, <1>3 DEF Ordered
<1>12. Linked(t, nx)
  <2>1. t.node[1].leaf = TRUE
    BY <1>1 DEF Leaf
  <2>. QED
    BY <1>1, <1>3, <2>1 DEF Linked
<1>13. Placed(t, {})
  BY <1>1, <1>2, <1>4 DEF Placed
<1>14. Good(t, lv, lo, nx, {}, 0)
  BY <1>5, <1>7, <1>8, <1>9, <1>10, <1>11, <1>12, <1>13 DEF Good
<1>15. Roomy(t, 0)
  <2>1. M \in Nat /\ M >= 4
    BY HalfIs
  <2>2. Len(Kids(t, 1)) <= M
    <3>1. 1 <= M
      BY <2>1
    <3>. QED
      BY <1>4, <3>1, Zenon
  <2>. QED
    BY <1>1, <2>2, Zenon DEF Roomy
<1>16. Fits(t)
  <2>1. 0 <= Capacity
    BY OrderAssumption
  <2>. QED
    BY <1>2, <2>1 DEF Fits, NoRecords
<1>. QED
  BY <1>14, <1>15, <1>16 DEF Holds, Stands, t

(***************************************************************************)
(* The invariant of the tree: there are heights, lower bounds and          *)
(* successors for its nodes with which every node is as it should be, no   *)
(* node has too few or too many children, and every page fits.             *)
(***************************************************************************)
IInv == Holds(tree)

\* insertRecord, updateRecord and deleteRecord keep it, whatever they split,
\* borrow and merge (bplus.c).
THEOREM TreeInvariant == Spec => []IInv
<1>1. Init => IInv
  BY NewTreeHolds DEF Init, IInv
<1>2. IInv /\ [Next]_tree => IInv'
  <2>1. SUFFICES ASSUME IInv, [Next]_tree PROVE IInv'
    OBVIOUS
  <2>2. ASSUME NEW k \in Key, NEW z \in Size, Insert(k, z) PROVE IInv'
    BY <2>1, <2>2, InsertHolds DEF Insert, IInv
  <2>3. ASSUME NEW k \in Key, NEW z \in Size, Update(k, z) PROVE IInv'
    BY <2>1, <2>3, UpdateHolds DEF Update, IInv
  <2>4. ASSUME NEW k \in Key, Delete(k) PROVE IInv'
    BY <2>1, <2>4, DeleteHolds DEF Delete, IInv
  <2>5. CASE UNCHANGED tree
    BY <2>1, <2>5 DEF IInv
  <2>. QED
    BY <2>1, <2>2, <2>3, <2>4, <2>5 DEF Next
<1>. QED
  BY <1>1, <1>2, PTL DEF Spec

\* What is below a node is within its bounds.
Within(t, lo, a, x) == x \in Nodes(t) /\ lo[a] <= lo[x] /\ Top(t, x) <= Top(t, a)

LEMMA ChildWithin ==
  ASSUME NEW t, NEW lv, NEW lo, NEW nx, NEW loose, Good(t, lv, lo, nx, loose, 0),
         NEW a \in Nodes(t), ~Leaf(t, a), NEW i \in 1 .. Len(Kids(t, a))
  PROVE  /\ Within(t, lo, a, Kids(t, a)[i])
         /\ LoAt(t, lo, a, i) <= lo[Kids(t, a)[i]] /\ Top(t, Kids(t, a)[i]) <= HiAt(t, a, i)
<1> DEFINE c == Kids(t, a)[i]
<1>1. Typed(t) /\ Bounds(t, lo, 0) /\ c \in Nodes(t)
  BY GhostTypes DEF Good
<1>2. c # 0
  BY <1>1, NodeFields
<1>3. /\ lo[a] <= LoAt(t, lo, a, i) /\ LoAt(t, lo, a, i) <= lo[c]
      /\ Top(t, c) <= HiAt(t, a, i) /\ HiAt(t, a, i) <= Top(t, a)
  BY <1>1, <1>2 DEF Bounds
<1>4. LoAt(t, lo, a, i) \in Int /\ HiAt(t, a, i) \in Nat
  BY BoundTypes
<1>5. lo[c] \in Int /\ lo[a] \in Int /\ Top(t, c) \in Nat /\ Top(t, a) \in Nat
  BY <1>1, GhostTypes, NodeFields
<1>. HIDE DEF c
<1>6. lo[a] <= lo[c] /\ Top(t, c) <= Top(t, a)
  BY <1>3, <1>4, <1>5
<1>. QED
  BY <1>1, <1>3, <1>6 DEF Within, c

LEMMA WithinFurther ==
  ASSUME NEW t, NEW lv, NEW lo, NEW nx, NEW loose, Good(t, lv, lo, nx, loose, 0),
         NEW a \in Nodes(t), NEW b, NEW c, Within(t, lo, a, b), Within(t, lo, b, c)
  PROVE  Within(t, lo, a, c)
<1>1. /\ b \in Nodes(t) /\ lo[a] <= lo[b] /\ Top(t, b) <= Top(t, a)
      /\ c \in Nodes(t) /\ lo[b] <= lo[c] /\ Top(t, c) <= Top(t, b)
  BY DEF Within
<1>2. lo[a] \in Int /\ lo[b] \in Int /\ lo[c] \in Int
  BY <1>1, GhostTypes
<1>3. Top(t, a) \in Nat /\ Top(t, b) \in Nat /\ Top(t, c) \in Nat
  BY <1>1, NodeFields DEF Good
<1>. QED
  BY <1>1, <1>2, <1>3 DEF Within

LEMMA SubtreeWithin ==
  ASSUME NEW t, NEW lv, NEW lo, NEW nx, NEW loose, Good(t, lv, lo, nx, loose, 0), NEW a \in Nodes(t)
  PROVE  \A x \in Subtree(t, a) : Within(t, lo, a, x)
<1> DEFINE n == Cardinality(DOMAIN t.node)
<1>1. Typed(t) /\ Arrays(t) /\ Parents(t) /\ Levels(t, lv) /\ Children(t, lv)
  BY DEF Good
<1>2. n \in Nat
  BY <1>1, Height DEF Nodes
<1>3. PICK f : Spread(f, n, t, a) /\ Subtree(t, a) = f[n]
  BY <1>2, SubtreeRuns
<1>10. f[0] = {a} /\ \A i \in 1 .. n : \A x : SpreadTo(t, f, i, x)
  BY <1>2, <1>3, SpreadBy
<1>. HIDE DEF n
<1> DEFINE T == {i \in Nat : \A x \in f[i] : Within(t, lo, a, x)}
<1>4. 0 \in T
  <2>1. Within(t, lo, a, a)
    <3>1. lo[a] \in Int /\ Top(t, a) \in Nat
      BY <1>1, GhostTypes, NodeFields
    <3>. QED
      BY <3>1 DEF Within
  <2>. QED
    BY <1>10, <2>1
<1>5. \A i \in 1 .. n : i - 1 \in T => i \in T
  <2>1. SUFFICES ASSUME NEW i \in 1 .. n, i - 1 \in T, NEW x \in f[i] PROVE Within(t, lo, a, x)
    OBVIOUS
  <2>2. CASE x \in f[i - 1]
    BY <2>1, <2>2
  <2>3. CASE x \notin f[i - 1]
    <3>1. PICK b \in f[i - 1] : ~t.node[b].leaf /\ x \in ToSet(t.node[b].kids)
      BY <1>10, <2>1, <2>3 DEF SpreadTo
    <3>2. Within(t, lo, a, b)
      BY <2>1, <3>1
    <3>3. b \in Nodes(t) /\ ~Leaf(t, b)
      BY <3>1, <3>2 DEF Within, Leaf
    <3>4. PICK j \in 1 .. Len(Kids(t, b)) : Kids(t, b)[j] = x
      <4>1. Kids(t, b) \in Seq(Nat \ {0})
        BY <1>1, <3>3, NodeFields
      <4>2. DOMAIN Kids(t, b) = 1 .. Len(Kids(t, b))
        BY <4>1
      <4>. QED
        BY <3>1, <4>2 DEF ToSet, Kids
    <3>5. Within(t, lo, b, x)
      BY <3>3, <3>4, ChildWithin
    <3>. QED
      BY <3>2, <3>5, WithinFurther
  <2>. QED
    BY <2>2, <2>3
<1>. HIDE DEF T
<1>6. 0 .. n \subseteq T
  BY <1>2, <1>4, <1>5, CountingUpTo
<1>7. n \in T
  BY <1>2, <1>6
<1>. QED
  BY <1>3, <1>7 DEF T

\* From the root every node is reached.
LEMMA RootReaches ==
  ASSUME NEW t, NEW lv, NEW lo, NEW nx, NEW loose, Good(t, lv, lo, nx, loose, 0)
  PROVE  Subtree(t, t.root) = Nodes(t)
<1> DEFINE n == Cardinality(DOMAIN t.node)
           h == lv[t.root]
<1>1. Typed(t) /\ Arrays(t) /\ Parents(t) /\ Levels(t, lv) /\ Children(t, lv) /\ t.root \in Nodes(t)
  BY DEF Good, Typed
<1>2. n \in Nat /\ h \in Nat /\ h < n /\ \A x \in Nodes(t) : lv[x] <= h /\ lv[x] \in Nat
  BY <1>1, Height DEF Nodes, Levels
<1>3. PICK f : Spread(f, n, t, t.root) /\ Subtree(t, t.root) = f[n]
  BY <1>2, SubtreeRuns
<1>10. f[0] = {t.root} /\ \A i \in 1 .. n : \A x : SpreadTo(t, f, i, x)
  BY <1>2, <1>3, SpreadBy
<1>. HIDE DEF n, h
<1> DEFINE T == {i \in Nat : \A x \in Nodes(t) : lv[x] + i >= h => x \in f[i]}
<1>4. 0 \in T
  <2>1. SUFFICES ASSUME NEW x \in Nodes(t), lv[x] + 0 >= h PROVE x = t.root
    BY <1>10
  <2>2. SUFFICES ASSUME x # t.root PROVE FALSE
    OBVIOUS
  <2>3. Up(t, x) \in Nodes(t) /\ lv[Up(t, x)] = lv[x] + 1
    BY <1>1, <2>2, ParentOf
  <2>4. lv[Up(t, x)] <= h /\ lv[x] \in Nat
    BY <1>2, <2>3
  <2>. QED
    BY <1>2, <2>1, <2>3, <2>4
<1>5. \A i \in 1 .. n : i - 1 \in T => i \in T
  <2>1. SUFFICES ASSUME NEW i \in 1 .. n, i - 1 \in T, NEW x \in Nodes(t), lv[x] + i >= h PROVE x \in f[i]
    OBVIOUS
  <2>2. CASE lv[x] + (i - 1) >= h
    BY <1>10, <2>1, <2>2 DEF SpreadTo
  <2>3. CASE ~(lv[x] + (i - 1) >= h)
    <3>1. lv[x] \in Nat /\ lv[x] # h
      BY <1>2, <2>3
    <3>2. x # t.root
      BY <3>1 DEF h
    <3> DEFINE p == Up(t, x)
               m == Position(Kids(t, p), x)
    <3>3. p \in Nodes(t) /\ ~Leaf(t, p) /\ lv[p] = lv[x] + 1 /\ m \in 1 .. Len(Kids(t, p)) /\ Kids(t, p)[m] = x
      BY <1>1, <3>2, ParentOf
    <3>. HIDE DEF p, m
    <3>4. lv[p] + (i - 1) >= h
      BY <1>2, <2>1, <3>1, <3>3
    <3>5. p \in f[i - 1]
      BY <2>1, <3>3, <3>4
    <3>6. x \in ToSet(t.node[p].kids)
      <4>1. Kids(t, p) \in Seq(Nat \ {0})
        BY <1>1, <3>3, NodeFields
      <4>2. DOMAIN Kids(t, p) = 1 .. Len(Kids(t, p))
        BY <4>1
      <4>. QED
        BY <3>3, <4>2 DEF ToSet, Kids
    <3>. QED
      BY <1>10, <3>3, <3>5, <3>6 DEF SpreadTo, Leaf
  <2>. QED
    BY <2>2, <2>3
<1>. HIDE DEF T
<1>6. 0 .. n \subseteq T
  BY <1>2, <1>4, <1>5, CountingUpTo
<1>7. n \in T
  BY <1>2, <1>6
<1>8. Nodes(t) \subseteq f[n]
  <2>1. SUFFICES ASSUME NEW x \in Nodes(t) PROVE lv[x] + n >= h
    BY <1>7 DEF T
  <2>. QED
    BY <1>2
<1>9. \A x \in Subtree(t, t.root) : x \in Nodes(t)
  BY <1>1, SubtreeWithin DEF Within
<1>. QED
  BY <1>3, <1>8, <1>9

\* At its height the node at a follows none, and every other node follows one.
Foremost(t, lv, nx, a) ==
  /\ a \in Nodes(t) /\ \A b \in Nodes(t) : nx[b] # a
  /\ \A x \in Nodes(t) : lv[x] = lv[a] /\ x # a => \E y \in Nodes(t) : nx[y] = x

LEMMA RootForemost ==
  ASSUME NEW t, NEW lv, NEW lo, NEW nx, NEW loose, Good(t, lv, lo, nx, loose, 0)
  PROVE  Foremost(t, lv, nx, t.root)
<1>1. /\ Typed(t) /\ Arrays(t) /\ Parents(t) /\ Levels(t, lv) /\ Children(t, lv) /\ Ordered(t, lv, lo, nx)
      /\ t.root \in Nodes(t) /\ t.root # 0
  BY NodeFields DEF Good, Typed
<1>2. \A x \in Nodes(t) : lv[x] \in Nat /\ lv[x] <= lv[t.root]
  BY <1>1, Height DEF Levels
<1>3. \A x \in Nodes(t) : lv[x] = lv[t.root] => x = t.root
  <2>1. SUFFICES ASSUME NEW x \in Nodes(t), lv[x] = lv[t.root], x # t.root PROVE FALSE
    OBVIOUS
  <2>2. Up(t, x) \in Nodes(t) /\ lv[Up(t, x)] = lv[x] + 1
    BY <1>1, <2>1, ParentOf
  <2>. QED
    BY <1>1, <1>2, <2>1, <2>2
<1>4. \A b \in Nodes(t) : nx[b] # t.root
  <2>1. SUFFICES ASSUME NEW b \in Nodes(t), nx[b] = t.root PROVE FALSE
    OBVIOUS
  <2>2. lv[t.root] = lv[b] /\ nx[t.root] = 0
    BY <1>1, <2>1 DEF Ordered
  <2>. QED
    BY <1>1, <1>3, <2>1, <2>2
<1>. QED
  BY <1>1, <1>3, <1>4 DEF Foremost

LEMMA DownForemost ==
  ASSUME NEW t, NEW lv, NEW lo, NEW nx, NEW loose, Good(t, lv, lo, nx, loose, 0), NEW a,
         Foremost(t, lv, nx, a), ~Leaf(t, a)
  PROVE  Foremost(t, lv, nx, Kids(t, a)[1]) /\ lv[a] = lv[Kids(t, a)[1]] + 1
<1> DEFINE c == Kids(t, a)[1]
<1>1. /\ Typed(t) /\ Arrays(t) /\ Parents(t) /\ Levels(t, lv) /\ Children(t, lv) /\ Ordered(t, lv, lo, nx)
      /\ Following(t, nx) /\ a \in Nodes(t) /\ \A b \in Nodes(t) : nx[b] # a
      /\ \A x \in Nodes(t) : lv[x] = lv[a] /\ x # a => \E y \in Nodes(t) : nx[y] = x
  BY DEF Good, Foremost
<1>2. 1 \in 1 .. Len(Kids(t, a))
  BY <1>1, NodeFields DEF Arrays
<1>3. c \in Nodes(t) /\ lv[a] = lv[c] + 1
  BY <1>1, <1>2 DEF Children
<1>. HIDE DEF c
<1>4. \A x \in Nodes(t) : lv[x] \in Nat
  BY <1>1 DEF Levels
<1>5. \A b \in Nodes(t) : nx[b] # c
  <2>1. SUFFICES ASSUME NEW b \in Nodes(t), nx[b] = c PROVE FALSE
    OBVIOUS
  <2>2. \E p \in Nodes(t) : nx[p] = a
    BY <1>1, <2>1, FollowsFirst DEF c
  <2>. QED
    BY <1>1, <2>2
<1>6. ASSUME NEW x \in Nodes(t), lv[x] = lv[c], x # c PROVE \E y \in Nodes(t) : nx[y] = x
  <2>1. x # t.root
    <3>1. lv[a] <= lv[t.root]
      BY <1>1, Height
    <3>. QED
      BY <1>3, <1>4, <1>6, <3>1
  <2> DEFINE p == Up(t, x)
             m == Position(Kids(t, p), x)
  <2>2. p \in Nodes(t) /\ ~Leaf(t, p) /\ lv[p] = lv[x] + 1 /\ m \in 1 .. Len(Kids(t, p)) /\ Kids(t, p)[m] = x
    BY <1>1, <2>1, ParentOf
  <2>. HIDE DEF p, m
  <2>3. Len(Kids(t, p)) \in Nat /\ Len(Kids(t, p)) >= 1
    BY <1>1, <2>2, NodeFields DEF Arrays
  <2>4. CASE m > 1
    <3>1. m - 1 \in 1 .. Len(Kids(t, p)) /\ m - 1 < Len(Kids(t, p)) /\ (m - 1) + 1 = m
      BY <2>2, <2>3, <2>4
    <3>2. Kids(t, p)[m - 1] \in Nodes(t)
      BY <2>2, <3>1, GhostTypes
    <3>3. nx[Kids(t, p)[m - 1]] = Kids(t, p)[(m - 1) + 1]
      BY <1>1, <2>2, <3>1 DEF Following
    <3>4. nx[Kids(t, p)[m - 1]] = x
      BY <2>2, <3>1, <3>3
    <3>. QED
      BY <3>2, <3>4
  <2>5. CASE ~(m > 1)
    <3>1. m = 1
      BY <2>2, <2>5
    <3>2. lv[p] = lv[a] /\ p # a
      BY <1>3, <1>6, <2>2, <3>1 DEF c
    <3>3. PICK q \in Nodes(t) : nx[q] = p
      BY <1>1, <2>2, <3>2
    <3>4. p # 0 /\ lv[p] = lv[q]
      <4>1. p # 0
        BY <1>1, <2>2, NodeFields
      <4>2. nx[q] # 0
        BY <3>3, <4>1
      <4>3. lv[nx[q]] = lv[q]
        BY <1>1, <3>3, <4>2 DEF Ordered
      <4>. QED
        BY <3>3, <4>1, <4>3
    <3>5. ~Leaf(t, q)
      BY <1>1, <2>2, <3>4 DEF Levels
    <3> DEFINE l == Len(Kids(t, q))
    <3>6. l \in 1 .. l /\ ~(l < l)
      BY <1>1, NodeFields DEF Arrays
    <3>7. Kids(t, q)[l] \in Nodes(t)
      BY <3>5, <3>6, GhostTypes
    <3>8. nx[Kids(t, q)[l]] = IF nx[q] = 0 THEN 0 ELSE Kids(t, nx[q])[1]
      BY <1>1, <3>5, <3>6 DEF Following
    <3>9. nx[Kids(t, q)[l]] = x
      BY <2>2, <3>1, <3>3, <3>4, <3>8
    <3>. QED
      BY <3>7, <3>9
  <2>. QED
    BY <2>4, <2>5
<1>. QED
  BY <1>3, <1>5, <1>6 DEF Foremost, c

LEMMA LeftmostIs ==
  ASSUME NEW t, NEW lv, NEW lo, NEW nx, NEW loose, Good(t, lv, lo, nx, loose, 0)
  PROVE  Foremost(t, lv, nx, LeftmostLeaf(t)) /\ Leaf(t, LeftmostLeaf(t))
<1> DEFINE n == Cardinality(DOMAIN t.node)
           h == lv[t.root]
<1>1. Typed(t) /\ Arrays(t) /\ Parents(t) /\ Levels(t, lv) /\ Children(t, lv)
  BY DEF Good
<1>2. n \in Nat /\ h \in Nat /\ h < n /\ \A x \in Nodes(t) : lv[x] \in Nat
  BY <1>1, Height DEF Nodes, Levels
<1>3. PICK f : /\ LeftmostLeaf(t) = f[n]
               /\ f = [i \in 0 .. n |-> f[i]] /\ f[0] = t.root
               /\ \A i \in 1 .. n : f[i] = (IF t.node[f[i - 1]].leaf THEN f[i - 1] ELSE Head(t.node[f[i - 1]].kids))
  BY <1>2, LeftmostLeafRuns
<1>. HIDE DEF n, h
<1> DEFINE At(i) == Foremost(t, lv, nx, f[i]) /\ (Leaf(t, f[i]) \/ lv[f[i]] + i = h)
           T == {i \in Nat : At(i)}
<1>4. 0 \in T
  BY <1>2, <1>3, RootForemost DEF h
<1>5. \A i \in 1 .. n : i - 1 \in T => i \in T
  <2>1. SUFFICES ASSUME NEW i \in 1 .. n, i - 1 \in T PROVE At(i)
    OBVIOUS
  <2> DEFINE a == f[i - 1]
  <2>2. Foremost(t, lv, nx, a) /\ (Leaf(t, a) \/ lv[a] + (i - 1) = h)
    BY <2>1
  <2>3. f[i] = IF Leaf(t, a) THEN a ELSE Head(Kids(t, a))
    BY <1>3 DEF Leaf, Kids
  <2>. HIDE DEF a
  <2>4. CASE Leaf(t, a)
    BY <2>2, <2>3, <2>4
  <2>5. CASE ~Leaf(t, a)
    <3>1. f[i] = Kids(t, a)[1]
      <4>1. a \in Nodes(t)
        BY <2>2 DEF Foremost
      <4>2. Kids(t, a) \in Seq(Nat \ {0}) /\ Len(Kids(t, a)) >= 1
        BY <1>1, <4>1, NodeFields DEF Arrays
      <4>. QED
        BY <2>3, <2>5, <4>2
    <3>2. Foremost(t, lv, nx, f[i]) /\ lv[a] = lv[f[i]] + 1
      BY <2>2, <2>5, <3>1, DownForemost
    <3>3. lv[f[i]] \in Nat
      BY <1>2, <3>2 DEF Foremost
    <3>4. lv[f[i]] + i = h
      BY <1>2, <2>2, <2>5, <3>2, <3>3
    <3>. QED
      BY <3>2, <3>4
  <2>. QED
    BY <2>4, <2>5
<1>. HIDE DEF T
<1>6. 0 .. n \subseteq T
  BY <1>2, <1>4, <1>5, CountingUpTo
<1>7. n \in T
  BY <1>2, <1>6
<1>. HIDE DEF At
<1>8. At(n)
  BY <1>7 DEF T
<1>9. Foremost(t, lv, nx, f[n]) /\ (Leaf(t, f[n]) \/ lv[f[n]] + n = h) /\ f[n] \in Nodes(t)
  BY <1>8 DEF At, Foremost
<1>10. Leaf(t, f[n])
  BY <1>2, <1>9
<1>. QED
  BY <1>3, <1>9, <1>10

\* The way along the leaves from the node at a: each is followed by its next,
\* and nothing by nothing.
Along(f, t, nx, n) ==
  /\ f = [i \in 0 .. n |-> f[i]]
  /\ \A i \in 0 .. n : f[i] = 0 \/ (f[i] \in Nodes(t) /\ Leaf(t, f[i]))
  /\ \A i \in 1 .. n : f[i] = IF f[i - 1] = 0 THEN 0 ELSE nx[f[i - 1]]

LEMMA ChainAlong ==
  ASSUME NEW t, NEW lv, NEW lo, NEW nx, NEW loose, Good(t, lv, lo, nx, loose, 0),
         NEW a \in Nodes(t), Leaf(t, a), NEW n \in Nat, n = Cardinality(Nodes(t))
  PROVE  \E f : /\ Chain(t, a) = [i \in 1 .. Cardinality({j \in 0 .. n : f[j] # 0}) |-> f[i - 1]]
                /\ f[0] = a /\ Along(f, t, nx, n)
<1>1. Typed(t) /\ Linked(t, nx) /\ Ordered(t, lv, lo, nx) /\ Levels(t, lv)
  BY DEF Good
<1>12. PICK f : ChainBy(t, a, n, f)
  BY ChainRuns DEF Nodes
<1>2. /\ Chain(t, a) = [i \in 1 .. Cardinality({j \in DOMAIN f : f[j] # 0}) |-> f[i - 1]]
      /\ f = [i \in 0 .. n |-> f[i]] /\ f[0] = a
      /\ \A i \in 1 .. n : f[i] = NextOf(t)[f[i - 1]]
  BY <1>12 DEF ChainBy
<1>13. \A x : x = 0 \/ x \in Nodes(t) => NextOf(t)[x] = IF x = 0 THEN 0 ELSE t.node[x].next
  BY DEF NextOf, Nodes
<1> DEFINE At(i) == f[i] = 0 \/ (f[i] \in Nodes(t) /\ Leaf(t, f[i]))
           T == {i \in Nat : At(i)}
<1>3. \A x \in Nodes(t) : Leaf(t, x) => t.node[x].next = nx[x]
  BY <1>1 DEF Linked, Leaf
<1>4. \A x \in Nodes(t) : Leaf(t, x) /\ nx[x] # 0 => nx[x] \in Nodes(t) /\ Leaf(t, nx[x])
  BY <1>1 DEF Ordered, Levels
<1>5. 0 \in T
  BY <1>2
<1>6. \A i \in 1 .. n : i - 1 \in T => i \in T
  <2>1. SUFFICES ASSUME NEW i \in 1 .. n, i - 1 \in T PROVE At(i)
    OBVIOUS
  <2>2. At(i - 1) /\ f[i] = NextOf(t)[f[i - 1]]
    BY <1>2, <2>1
  <2>3. f[i] = IF f[i - 1] = 0 THEN 0 ELSE t.node[f[i - 1]].next
    BY <1>13, <2>2
  <2>. QED
    BY <1>3, <1>4, <2>2, <2>3
<1>. HIDE DEF T
<1>7. 0 .. n \subseteq T
  BY <1>5, <1>6, CountingUpTo
<1>8. \A i \in 0 .. n : At(i)
  BY <1>7 DEF T
<1>9. \A i \in 1 .. n : f[i] = IF f[i - 1] = 0 THEN 0 ELSE nx[f[i - 1]]
  <2>1. SUFFICES ASSUME NEW i \in 1 .. n PROVE f[i] = IF f[i - 1] = 0 THEN 0 ELSE nx[f[i - 1]]
    OBVIOUS
  <2>2. i - 1 \in 0 .. n
    OBVIOUS
  <2>3. f[i] = IF f[i - 1] = 0 THEN 0 ELSE t.node[f[i - 1]].next
    BY <1>2, <1>8, <1>13, <2>2
  <2>. QED
    BY <1>3, <1>8, <2>2, <2>3
<1>10. DOMAIN f = 0 .. n
  BY <1>2
<1>11. Along(f, t, nx, n)
  BY <1>2, <1>8, <1>9 DEF Along
<1>. QED
  BY <1>2, <1>10, <1>11

\* The bounds of the leaves on the way ascend.
LEMMA AlongAscends ==
  ASSUME NEW t, NEW lv, NEW lo, NEW nx, NEW loose, Good(t, lv, lo, nx, loose, 0),
         NEW n \in Nat, NEW f, Along(f, t, nx, n)
  PROVE  \A i, j \in 0 .. n : j < i /\ f[i] # 0 => f[j] # 0 /\ Top(t, f[j]) <= lo[f[i]]
<1>1. /\ Typed(t) /\ Ordered(t, lv, lo, nx) /\ Bounds(t, lo, 0)
      /\ \A i \in 0 .. n : f[i] # 0 => f[i] \in Nodes(t)
      /\ \A i \in 1 .. n : f[i] = IF f[i - 1] = 0 THEN 0 ELSE nx[f[i - 1]]
  BY DEF Good, Along
<1>2. \A x \in Nodes(t) : lo[x] \in Int /\ Top(t, x) \in Nat /\ lo[x] < Top(t, x)
  BY <1>1, NodeFields DEF Bounds
<1> DEFINE At(i) == i <= n /\ f[i] # 0 => \A j \in 0 .. (i - 1) : f[j] # 0 /\ Top(t, f[j]) <= lo[f[i]]
           T == {i \in Nat : At(i)}
<1>3. 0 \in T
  OBVIOUS
<1>4. \A i \in 1 .. n : i - 1 \in T => i \in T
  <2>1. SUFFICES ASSUME NEW i \in 1 .. n, i - 1 \in T, f[i] # 0, NEW j \in 0 .. (i - 1)
                 PROVE  f[j] # 0 /\ Top(t, f[j]) <= lo[f[i]]
    OBVIOUS
  <2> DEFINE x == f[i - 1]
  <2>2. x # 0 /\ f[i] = nx[x] /\ i - 1 \in 0 .. n
    BY <1>1, <2>1
  <2>3. x \in Nodes(t) /\ f[i] \in Nodes(t)
    BY <1>1, <2>1, <2>2
  <2>4. Top(t, x) <= lo[f[i]]
    BY <1>1, <2>1, <2>2, <2>3 DEF Ordered
  <2>5. CASE j = i - 1
    BY <2>2, <2>4, <2>5
  <2>6. CASE j # i - 1
    <3>1. j \in 0 .. ((i - 1) - 1) /\ j \in 0 .. n
      BY <2>6
    <3>2. f[j] # 0 /\ Top(t, f[j]) <= lo[x]
      BY <2>1, <2>2, <3>1
    <3>3. f[j] \in Nodes(t)
      BY <1>1, <3>1, <3>2
    <3>. HIDE DEF x
    <3>. QED
      BY <1>2, <2>3, <2>4, <3>2, <3>3
  <2>. QED
    BY <2>5, <2>6
<1>. HIDE DEF T
<1>5. 0 .. n \subseteq T
  BY <1>3, <1>4, CountingUpTo
<1>6. \A i \in 0 .. n : At(i)
  BY <1>5 DEF T
<1>. HIDE DEF At
<1>7. SUFFICES ASSUME NEW i \in 0 .. n, NEW j \in 0 .. n, j < i, f[i] # 0
               PROVE  f[j] # 0 /\ Top(t, f[j]) <= lo[f[i]]
  OBVIOUS
<1>8. j \in 0 .. (i - 1) /\ i <= n
  BY <1>7
<1>. QED
  BY <1>6, <1>7, <1>8 DEF At

\* There are fewer leaves than steps, so it ends, after m leaves.
LEMMA AlongEnds ==
  ASSUME NEW t, NEW lv, NEW lo, NEW nx, NEW loose, Good(t, lv, lo, nx, loose, 0),
         NEW n \in Nat, NEW f, Along(f, t, nx, n), f[0] # 0, n = Cardinality(Nodes(t))
  PROVE  \E m \in 1 .. n : f[m] = 0 /\ (\A i \in 0 .. (m - 1) : f[i] # 0)
                           /\ Cardinality({j \in 0 .. n : f[j] # 0}) = m
<1>1. /\ Typed(t) /\ Bounds(t, lo, 0) /\ f = [i \in 0 .. n |-> f[i]]
      /\ \A i \in 0 .. n : f[i] # 0 => f[i] \in Nodes(t)
  BY DEF Good, Along
<1>2. \A x \in Nodes(t) : lo[x] \in Int /\ Top(t, x) \in Nat /\ lo[x] < Top(t, x)
  BY <1>1, NodeFields DEF Bounds
<1>3. \A i, j \in 0 .. n : j < i /\ f[i] # 0 => f[j] # 0 /\ Top(t, f[j]) <= lo[f[i]]
  BY AlongAscends
<1>4. \E i \in 0 .. n : f[i] = 0
  <2>1. SUFFICES ASSUME \A i \in 0 .. n : f[i] # 0 PROVE FALSE
    OBVIOUS
  <2>2. f \in [0 .. n -> Nodes(t)]
    <3>1. \A i \in 0 .. n : f[i] \in Nodes(t)
      BY <1>1, <2>1
    <3>. QED
      BY <1>1, <3>1, Zenon
  <2>3. IsFiniteSet(0 .. n) /\ Cardinality(0 .. n) = n + 1
    <3>1. 0 \in Int /\ n \in Int /\ ~(0 > n) /\ n - 0 + 1 = n + 1
      OBVIOUS
    <3>. QED
      BY <3>1, FS_Interval
  <2>4. IsFiniteSet(Nodes(t)) /\ Cardinality(Nodes(t)) < Cardinality(0 .. n)
    BY <1>1, <2>3 DEF Typed
  <2>5. PICK x, y \in 0 .. n : x # y /\ f[x] = f[y]
    BY <2>2, <2>3, <2>4, FS_PigeonHole
  <2>6. f[x] \in Nodes(t) /\ Top(t, f[x]) <= lo[f[x]]
    <3>1. CASE x < y
      BY <1>1, <1>3, <2>1, <2>5, <3>1
    <3>2. CASE ~(x < y)
      <4>1. y < x
        BY <2>5, <3>2
      <4>2. Top(t, f[y]) <= lo[f[x]] /\ f[x] \in Nodes(t)
        BY <1>1, <1>3, <2>1, <4>1
      <4>. QED
        BY <2>5, <4>2
    <3>. QED
      BY <3>1, <3>2
  <2>. QED
    BY <1>2, <2>6
<1> DEFINE Z == {i \in 0 .. n : f[i] = 0}
<1>5. PICK m \in Z : \A i \in Z : m <= i
  <2>1. Z \subseteq Nat /\ Z # {}
    BY <1>4
  <2>. HIDE DEF Z
  <2>. QED
    BY <2>1, LeastNumber
<1>6. m \in 0 .. n /\ f[m] = 0 /\ m # 0 /\ \A i \in 0 .. n : f[i] = 0 => m <= i
  BY <1>5
<1>. HIDE DEF Z
<1>7. \A i \in 0 .. (m - 1) : f[i] # 0
  <2>1. SUFFICES ASSUME NEW i \in 0 .. (m - 1), f[i] = 0 PROVE FALSE
    OBVIOUS
  <2>2. i \in 0 .. n /\ ~(m <= i)
    BY <1>6
  <2>. QED
    BY <1>6, <2>1, <2>2
<1>8. {j \in 0 .. n : f[j] # 0} = 0 .. (m - 1)
  <2>1. ASSUME NEW j \in 0 .. n, f[j] # 0 PROVE j \in 0 .. (m - 1)
    <3>1. ~(m < j) /\ j # m
      BY <1>3, <1>6, <2>1
    <3>. QED
      BY <1>6, <3>1
  <2>2. ASSUME NEW j \in 0 .. (m - 1) PROVE j \in 0 .. n
    BY <1>6
  <2>. QED
    BY <1>7, <2>1, <2>2
<1>9. Cardinality(0 .. (m - 1)) = m
  <2>1. 0 \in Int /\ m - 1 \in Int /\ ~(0 > m - 1) /\ (m - 1) - 0 + 1 = m
    BY <1>6
  <2>. QED
    BY <2>1, FS_Interval
<1>10. m \in 1 .. n
  BY <1>6
<1>. QED
  BY <1>6, <1>7, <1>8, <1>9, <1>10

(***************************************************************************)
(* The sequence s is the leaves in the order of their bounds: each is      *)
(* linked to the one after it, and there is no other.                      *)
(***************************************************************************)
ScanOf(t, lo, nx, s) ==
  /\ s \in Seq(Nodes(t)) /\ Len(s) >= 1
  /\ \A i \in 1 .. Len(s) : Leaf(t, s[i])
  /\ \A i \in 1 .. Len(s) : nx[s[i]] = IF i = Len(s) THEN 0 ELSE s[i + 1]
  /\ \A i, j \in 1 .. Len(s) : i < j => Top(t, s[i]) <= lo[s[j]]
  /\ \A x \in Nodes(t) : Leaf(t, x) => \E i \in 1 .. Len(s) : s[i] = x

LEMMA AlongAll ==
  ASSUME NEW t, NEW lv, NEW lo, NEW nx, NEW loose, Good(t, lv, lo, nx, loose, 0),
         NEW n \in Nat, NEW f, Along(f, t, nx, n), Foremost(t, lv, nx, f[0]), Leaf(t, f[0]),
         NEW m \in 1 .. n, f[m] = 0
  PROVE  \A x \in Nodes(t) : Leaf(t, x) => \E i \in 0 .. (m - 1) : f[i] = x
<1>1. /\ Typed(t) /\ Bounds(t, lo, 0) /\ Ordered(t, lv, lo, nx) /\ Levels(t, lv)
      /\ \A i \in 1 .. n : f[i] = IF f[i - 1] = 0 THEN 0 ELSE nx[f[i - 1]]
      /\ f[0] \in Nodes(t)
      /\ \A x \in Nodes(t) : lv[x] = lv[f[0]] /\ x # f[0] => \E y \in Nodes(t) : nx[y] = x
  BY DEF Good, Along, Foremost
<1>2. \A x \in Nodes(t) : lo[x] \in Int /\ lo[x] >= -1 /\ Top(t, x) \in Nat /\ lo[x] < Top(t, x) /\ x # 0
  BY <1>1, NodeFields DEF Bounds
<1> DEFINE Missed(x) == x \in Nodes(t) /\ Leaf(t, x) /\ \A i \in 0 .. (m - 1) : f[i] # x
           S == {k \in Nat : \E x \in Nodes(t) : Missed(x) /\ lo[x] + 1 = k}
<1>3. SUFFICES ASSUME NEW z \in Nodes(t), Missed(z) PROVE FALSE
  OBVIOUS
<1>4. PICK k \in S : \A j \in S : k <= j
  <2>1. lo[z] + 1 \in Nat
    BY <1>2
  <2>2. S \subseteq Nat /\ S # {}
    BY <1>3, <2>1
  <2>. HIDE DEF S
  <2>. QED
    BY <2>2, LeastNumber
<1>5. PICK x \in Nodes(t) : Missed(x) /\ lo[x] + 1 = k
  BY <1>4
<1>6. 0 \in 0 .. (m - 1)
  OBVIOUS
<1>7. x # f[0] /\ lv[x] = lv[f[0]]
  BY <1>1, <1>5, <1>6 DEF Levels
<1>8. PICK y \in Nodes(t) : nx[y] = x
  BY <1>1, <1>7
<1>9. Leaf(t, y) /\ Top(t, y) <= lo[x]
  <2>1. nx[y] # 0
    BY <1>2, <1>8
  <2>2. lv[nx[y]] = lv[y] /\ Top(t, y) <= lo[nx[y]]
    BY <1>1, <2>1 DEF Ordered
  <2>3. lv[x] = lv[y] /\ Top(t, y) <= lo[x]
    BY <1>8, <2>2
  <2>. QED
    BY <1>1, <1>5, <2>3 DEF Levels
<1>10. lo[y] + 1 \in Nat /\ ~(k <= lo[y] + 1)
  BY <1>2, <1>5, <1>9
<1>11. ~Missed(y)
  BY <1>4, <1>10
<1>12. PICK i \in 0 .. (m - 1) : f[i] = y
  BY <1>9, <1>11
<1>13. i + 1 \in 1 .. n /\ (i + 1) - 1 = i
  OBVIOUS
<1>14. f[i + 1] = x
  <2>1. f[i + 1] = IF f[i] = 0 THEN 0 ELSE nx[f[i]]
    BY <1>1, <1>13
  <2>. QED
    BY <1>2, <1>8, <1>12, <2>1
<1>15. i + 1 # m
  BY <1>2, <1>14
<1>16. i + 1 \in 0 .. (m - 1)
  BY <1>15
<1>. QED
  BY <1>5, <1>14, <1>16

LEMMA ScanIs ==
  ASSUME NEW t, NEW lv, NEW lo, NEW nx, NEW loose, Good(t, lv, lo, nx, loose, 0)
  PROVE  ScanOf(t, lo, nx, Scan(t))
<1> DEFINE a == LeftmostLeaf(t)
           n == Cardinality(Nodes(t))
<1>1. Typed(t) /\ Foremost(t, lv, nx, a) /\ Leaf(t, a) /\ a \in Nodes(t)
  BY LeftmostIs DEF Good, Foremost
<1>2. n \in Nat /\ a # 0
  BY <1>1, FS_CardinalityType, NodeFields DEF Typed
<1>. HIDE DEF a, n
<1>3. PICK f : /\ Chain(t, a) = [i \in 1 .. Cardinality({j \in 0 .. n : f[j] # 0}) |-> f[i - 1]]
               /\ f[0] = a /\ Along(f, t, nx, n)
  BY <1>1, <1>2, ChainAlong DEF n
<1>4. f[0] # 0 /\ Foremost(t, lv, nx, f[0]) /\ Leaf(t, f[0])
  BY <1>1, <1>2, <1>3
<1>5. PICK m \in 1 .. n : /\ f[m] = 0 /\ (\A i \in 0 .. (m - 1) : f[i] # 0)
                          /\ Cardinality({j \in 0 .. n : f[j] # 0}) = m
  BY <1>2, <1>3, <1>4, AlongEnds DEF n
<1> DEFINE s == [i \in 1 .. m |-> f[i - 1]]
<1>6. Scan(t) = s
  BY <1>3, <1>5, Zenon DEF Scan, a
<1>7. /\ \A i \in 0 .. n : f[i] = 0 \/ (f[i] \in Nodes(t) /\ Leaf(t, f[i]))
      /\ \A i \in 1 .. n : f[i] = IF f[i - 1] = 0 THEN 0 ELSE nx[f[i - 1]]
  BY <1>3 DEF Along
<1>8. \A i \in 1 .. m : i - 1 \in 0 .. (m - 1) /\ i - 1 \in 0 .. n /\ i \in 1 .. n
  BY <1>2
<1>9. \A i \in 1 .. m : s[i] = f[i - 1] /\ s[i] # 0 /\ s[i] \in Nodes(t) /\ Leaf(t, s[i])
  BY <1>5, <1>7, <1>8
<1>10. s \in Seq(Nodes(t)) /\ Len(s) = m
  BY <1>9
<1>11. \A i \in 1 .. m : nx[s[i]] = IF i = m THEN 0 ELSE s[i + 1]
  <2>1. SUFFICES ASSUME NEW i \in 1 .. m PROVE nx[s[i]] = IF i = m THEN 0 ELSE s[i + 1]
    OBVIOUS
  <2>2. f[i] = nx[s[i]]
    BY <1>7, <1>8, <1>9
  <2>3. CASE i = m
    BY <1>5, <2>2, <2>3
  <2>4. CASE i # m
    <3>1. i + 1 \in 1 .. m /\ (i + 1) - 1 = i
      BY <2>4
    <3>2. s[i + 1] = f[i]
      BY <1>9, <3>1
    <3>. QED
      BY <2>2, <2>4, <3>2
  <2>. QED
    BY <2>3, <2>4
<1>12. \A i, j \in 1 .. m : i < j => Top(t, s[i]) <= lo[s[j]]
  <2>1. SUFFICES ASSUME NEW i \in 1 .. m, NEW j \in 1 .. m, i < j PROVE Top(t, s[i]) <= lo[s[j]]
    OBVIOUS
  <2>2. i - 1 < j - 1 /\ f[j - 1] # 0
    BY <1>5, <1>8, <2>1
  <2>3. Top(t, f[i - 1]) <= lo[f[j - 1]]
    BY <1>2, <1>3, <1>8, <2>2, AlongAscends
  <2>. QED
    BY <1>9, <2>3
<1>13. \A x \in Nodes(t) : Leaf(t, x) => \E i \in 1 .. m : s[i] = x
  <2>1. SUFFICES ASSUME NEW x \in Nodes(t), Leaf(t, x) PROVE \E i \in 1 .. m : s[i] = x
    OBVIOUS
  <2>2. PICK i \in 0 .. (m - 1) : f[i] = x
    BY <1>2, <1>3, <1>4, <1>5, <2>1, AlongAll
  <2>3. i + 1 \in 1 .. m /\ (i + 1) - 1 = i
    OBVIOUS
  <2>. QED
    BY <1>9, <2>2, <2>3
<1>. HIDE DEF s
<1>14. Len(s) >= 1
  BY <1>10
<1>15. ScanOf(t, lo, nx, s)
  BY <1>9, <1>10, <1>11, <1>12, <1>13, <1>14, Zenon DEF ScanOf
<1>. QED
  BY <1>6, <1>15

\* What is in a sequence.
LEMMA InIt ==
  ASSUME NEW S, NEW s \in Seq(S), NEW x
  PROVE  x \in ToSet(s) <=> \E i \in 1 .. Len(s) : s[i] = x
<1>1. DOMAIN s = 1 .. Len(s)
  OBVIOUS
<1>. QED
  BY <1>1 DEF ToSet

LEMMA ScannedNodes ==
  ASSUME NEW t, NEW lv, NEW lo, NEW nx, NEW loose, Good(t, lv, lo, nx, loose, 0)
  PROVE  ToSet(Scan(t)) = {x \in Nodes(t) : Leaf(t, x)}
<1> DEFINE s == Scan(t)
<1>1. /\ s \in Seq(Nodes(t)) /\ (\A i \in 1 .. Len(s) : Leaf(t, s[i]))
      /\ \A x \in Nodes(t) : Leaf(t, x) => \E i \in 1 .. Len(s) : s[i] = x
  BY ScanIs DEF ScanOf
<1>. HIDE DEF s
<1>2. \A x : x \in ToSet(s) <=> \E i \in 1 .. Len(s) : s[i] = x
  BY <1>1, InIt
<1>3. \A i \in 1 .. Len(s) : s[i] \in Nodes(t)
  BY <1>1
<1>4. \A x : x \in ToSet(s) <=> x \in Nodes(t) /\ Leaf(t, x)
  BY <1>1, <1>2, <1>3
<1>. QED
  BY <1>4 DEF s

LEMMA ScannedAll ==
  ASSUME NEW t, NEW lv, NEW lo, NEW nx, Good(t, lv, lo, nx, {}, 0)
  PROVE  ScannedPages(t) = DOMAIN t.page
<1>1. Typed(t) /\ Filed(t, lo) /\ Placed(t, {})
  BY DEF Good
<1>2. ToSet(Scan(t)) = {x \in Nodes(t) : Leaf(t, x)}
  BY ScannedNodes
<1>3. \A x \in Nodes(t) : \A pg : pg \in ToSet(t.node[x].kids) <=> \E i \in 1 .. Len(Kids(t, x)) : Kids(t, x)[i] = pg
  <2>1. ASSUME NEW x \in Nodes(t), NEW pg
        PROVE  pg \in ToSet(Kids(t, x)) <=> \E i \in 1 .. Len(Kids(t, x)) : Kids(t, x)[i] = pg
    <3>1. Kids(t, x) \in Seq(Nat \ {0})
      BY <1>1, NodeFields
    <3>. QED
      BY <3>1, InIt
  <2>. QED
    BY <2>1 DEF Kids
<1>4. \A pg : pg \in ScannedPages(t) <=> \E x \in Nodes(t) : Leaf(t, x) /\ \E i \in 1 .. Len(Kids(t, x)) : Kids(t, x)[i] = pg
  <2>1. \A pg : pg \in ScannedPages(t) <=> \E x \in ToSet(Scan(t)) : pg \in ToSet(t.node[x].kids)
    BY DEF ScannedPages
  <2>2. ASSUME NEW pg PROVE pg \in ScannedPages(t) <=> \E x \in Nodes(t) : Leaf(t, x) /\ pg \in ToSet(t.node[x].kids)
    BY <1>2, <2>1, Zenon
  <2>. QED
    BY <1>3, <2>2, Zenon
<1>5. ASSUME NEW pg, pg \in ScannedPages(t) PROVE pg \in DOMAIN t.page
  BY <1>1, <1>4, <1>5 DEF Filed
<1>6. ASSUME NEW pg \in DOMAIN t.page PROVE pg \in ScannedPages(t)
  BY <1>1, <1>4, <1>6 DEF Placed
<1>. QED
  BY <1>5, <1>6

(***************************************************************************)
(* What follows from it.                                                   *)
(***************************************************************************)
\* No page outgrows its place in the file, however often records are inserted
\* and enlarged and pages divided (insertRecord, storePage, chooseSplit).
THEOREM PagesAlwaysFit == Spec => []PagesFit
<1>1. IInv => PagesFit
  BY DEF IInv, Holds, Fits, PagesFit
<1>. QED
  BY <1>1, TreeInvariant, PTL

\* The nodes of the tree: they are reached from the root, so what holds of every
\* node holds of those reached.
LEMMA ReachableIs ==
  ASSUME IInv
  PROVE  Reachable = Nodes(tree)
<1>1. PICK lv, lo, nx : Good(tree, lv, lo, nx, {}, 0)
  BY DEF IInv, Holds, Stands
<1>. QED
  BY <1>1, RootReaches DEF Reachable

\* Every node but the root stays at least half full and none is over full
\* (balanceTreeAdd, balanceTreeDelete).
THEOREM NodesStayHalfFull == Spec => []Occupancy
<1>1. IInv => Occupancy
  <2>1. SUFFICES ASSUME IInv PROVE Occupancy
    OBVIOUS
  <2>2. Roomy(tree, 0)
    BY <2>1 DEF IInv, Holds, Stands
  <2>3. PICK lv, lo, nx : Good(tree, lv, lo, nx, {}, 0)
    BY <2>1 DEF IInv, Holds, Stands
  <2>4. \A a \in Nodes(tree) : a # 0
    BY <2>3, NodeFields DEF Good
  <2>5. \A a \in Nodes(tree) :
          /\ Len(Kids(tree, a)) <= M
          /\ a # tree.root => Len(Kids(tree, a)) >= HalfM
          /\ a = tree.root /\ ~Leaf(tree, a) => Len(Kids(tree, a)) >= 2
    BY <2>2, <2>4 DEF Roomy
  <2>. QED
    BY <2>1, <2>5, ReachableIs DEF Occupancy, Kids, Leaf
<1>. QED
  BY <1>1, TreeInvariant, PTL

\* Each child names the node that holds it as its parent, whatever borrows,
\* merges and splits moved it (adoptChildren, borrowNextThroughParent).
THEOREM ParentsAlwaysAgree == Spec => []ParentsAgree
<1>1. IInv => ParentsAgree
  <2>1. SUFFICES ASSUME IInv PROVE ParentsAgree
    OBVIOUS
  <2>2. PICK lv, lo, nx : Good(tree, lv, lo, nx, {}, 0)
    BY <2>1 DEF IInv, Holds, Stands
  <2>3. Typed(tree) /\ Parents(tree) /\ Children(tree, lv)
    BY <2>2 DEF Good
  <2>4. ASSUME NEW a \in Nodes(tree), ~Leaf(tree, a), NEW c \in ToSet(Kids(tree, a)) PROVE Up(tree, c) = a
    <3>1. Kids(tree, a) \in Seq(Nat \ {0})
      BY <2>3, NodeFields
    <3>2. PICK i \in 1 .. Len(Kids(tree, a)) : Kids(tree, a)[i] = c
      BY <2>4, <3>1, InIt
    <3>. QED
      BY <2>3, <2>4, <3>2 DEF Children
  <2>5. tree.node[tree.root].parent = 0
    BY <2>3 DEF Parents, Up
  <2>. QED
    BY <2>1, <2>4, <2>5, ReachableIs DEF ParentsAgree, Kids, Leaf, Up
<1>. QED
  BY <1>1, TreeInvariant, PTL

\* A call deletes the objects it takes out of the tree and no other: every node
\* is reached from the root, and every page is met by a scan (deleteObject).
THEOREM NothingIsEverLost == Spec => []NothingIsLost
<1>1. IInv => NothingIsLost
  <2>1. SUFFICES ASSUME IInv PROVE NothingIsLost
    OBVIOUS
  <2>2. PICK lv, lo, nx : Good(tree, lv, lo, nx, {}, 0)
    BY <2>1 DEF IInv, Holds, Stands
  <2>. QED
    BY <2>1, <2>2, ReachableIs, ScannedAll DEF NothingIsLost, Nodes
<1>. QED
  BY <1>1, TreeInvariant, PTL

\* The tree keeps its types: the arrays of its nodes are as long as they should
\* be, and links lead to nodes there are.
THEOREM TreeTypeCorrect == Spec => []TypeOK
<1>1. IInv => TypeOK
  <2>1. SUFFICES ASSUME IInv PROVE TypeOK
    OBVIOUS
  <2>2. PICK lv, lo, nx : Good(tree, lv, lo, nx, {}, 0)
    BY <2>1 DEF IInv, Holds, Stands
  <2>3. /\ Typed(tree) /\ Arrays(tree) /\ Parents(tree) /\ Children(tree, lv) /\ Filed(tree, lo)
        /\ Ordered(tree, lv, lo, nx) /\ Linked(tree, nx)
    BY <2>2 DEF Good
  <2>4. ASSUME NEW a \in Nodes(tree)
        PROVE  /\ Leaf(tree, a) \in BOOLEAN /\ Keys(tree, a) \in Seq(Key) /\ Top(tree, a) \in Key
               /\ Kids(tree, a) \in Seq(IF Leaf(tree, a) THEN DOMAIN tree.page ELSE Nodes(tree))
               /\ Len(Keys(tree, a)) = IF Leaf(tree, a) THEN Len(Kids(tree, a)) ELSE Len(Kids(tree, a)) - 1
               /\ {Up(tree, a), tree.node[a].prev, tree.node[a].next} \subseteq Nodes(tree) \union {0}
    <3>1. /\ Leaf(tree, a) \in BOOLEAN /\ Keys(tree, a) \in Seq(Key) /\ Top(tree, a) \in Key
          /\ Kids(tree, a) \in Seq(Nat \ {0})
      BY <2>3, NodeFields
    <3>2. Kids(tree, a) \in Seq(IF Leaf(tree, a) THEN DOMAIN tree.page ELSE Nodes(tree))
      <4>1. CASE Leaf(tree, a)
        <5>1. \A i \in 1 .. Len(Kids(tree, a)) : Kids(tree, a)[i] \in DOMAIN tree.page
          BY <2>3, <4>1 DEF Filed
        <5>2. Kids(tree, a) \in Seq(DOMAIN tree.page)
          BY <3>1, <5>1
        <5>. QED
          BY <4>1, <5>2
      <4>2. CASE ~Leaf(tree, a)
        <5>1. \A i \in 1 .. Len(Kids(tree, a)) : Kids(tree, a)[i] \in Nodes(tree)
          BY <2>3, <4>2 DEF Children
        <5>2. Kids(tree, a) \in Seq(Nodes(tree))
          BY <3>1, <5>1
        <5>. QED
          BY <4>2, <5>2
      <4>. QED
        BY <4>1, <4>2
    <3>3. Up(tree, a) \in Nodes(tree) \union {0}
      BY <2>3 DEF Parents
    <3>4. tree.node[a].next \in Nodes(tree) \union {0} /\ tree.node[a].prev \in Nodes(tree) \union {0}
      <4>1. CASE Leaf(tree, a)
        <5>1. tree.node[a].next = nx[a] /\ (tree.node[a].prev # 0 => tree.node[a].prev \in Nodes(tree))
          BY <2>3, <4>1 DEF Linked, Leaf
        <5>. QED
          BY <2>3, <5>1 DEF Ordered
      <4>2. CASE ~Leaf(tree, a)
        BY <2>3, <4>2 DEF Linked, Leaf
      <4>. QED
        BY <4>1, <4>2
    <3>5. Len(Keys(tree, a)) = IF Leaf(tree, a) THEN Len(Kids(tree, a)) ELSE Len(Kids(tree, a)) - 1
      BY <2>3 DEF Arrays
    <3>. QED
      BY <3>1, <3>2, <3>3, <3>4, <3>5
  <2>5. tree.root \in Nodes(tree)
    BY <2>3 DEF Typed
  <2>6. \A pg \in DOMAIN tree.page : DOMAIN tree.page[pg] \subseteq Key
                                     /\ \A k \in DOMAIN tree.page[pg] : tree.page[pg][k] \in Size
    BY <2>3 DEF Typed, PageType
  <2>. QED
    BY <2>4, <2>5, <2>6, Zenon DEF TypeOK, Nodes, Leaf, Kids, Keys, Top, Up
<1>. QED
  BY <1>1, TreeInvariant, PTL

\* A record in place i of the leaf at a is within its bounds.
Inside(t, lo, a, i, k) ==
  /\ k \in Nat /\ LoAt(t, lo, a, i) < k /\ k <= Keys(t, a)[i] /\ lo[a] < k /\ k <= Top(t, a)

LEMMA LowestAt ==
  ASSUME NEW t, NEW lv, NEW lo, NEW nx, NEW loose, Good(t, lv, lo, nx, loose, 0),
         NEW a \in Nodes(t), NEW i \in 1 .. Len(Kids(t, a)), Leaf(t, a)
  PROVE  lo[a] <= LoAt(t, lo, a, i)
<1>1. /\ Typed(t) /\ Arrays(t) /\ Children(t, lv) /\ Bounds(t, lo, 0) /\ Filed(t, lo)
  BY DEF Good
<1>2. /\ lo[a] \in Int /\ Len(Keys(t, a)) = Len(Kids(t, a)) /\ Len(Kids(t, a)) \in Nat
      /\ \A j \in 1 .. Len(Keys(t, a)) : Keys(t, a)[j] \in Nat
  BY <1>1, GhostTypes, NodeFields
<1>3. \A j \in 1 .. Len(Keys(t, a)) : lo[a] < Keys(t, a)[j]
  BY <1>1, KeysAscend
<1>4. CASE i = 1
  BY <1>2, <1>4 DEF LoAt
<1>5. CASE i # 1
  <2>1. i - 1 \in 1 .. Len(Keys(t, a))
    BY <1>2, <1>5
  <2>2. lo[a] < Keys(t, a)[i - 1] /\ Keys(t, a)[i - 1] \in Nat /\ LoAt(t, lo, a, i) = Keys(t, a)[i - 1]
    BY <1>2, <1>3, <1>5, <2>1 DEF LoAt
  <2>. QED
    BY <1>2, <2>2
<1>. QED
  BY <1>4, <1>5

LEMMA RecordInside ==
  ASSUME NEW t, NEW lv, NEW lo, NEW nx, NEW loose, Good(t, lv, lo, nx, loose, 0),
         NEW a \in Nodes(t), NEW i \in 1 .. Len(Kids(t, a)), NEW k, Leaf(t, a),
         k \in DOMAIN t.page[Kids(t, a)[i]]
  PROVE  Inside(t, lo, a, i, k)
<1>1. Typed(t) /\ Arrays(t) /\ Filed(t, lo)
  BY DEF Good
<1>2. /\ Kids(t, a)[i] \in DOMAIN t.page /\ Keys(t, a)[i] <= Top(t, a)
      /\ LoAt(t, lo, a, i) < k /\ k <= Keys(t, a)[i]
  BY <1>1 DEF Filed
<1>3. k \in Nat
  BY <1>1, <1>2, KeyAssumption DEF Typed, PageType
<1>4. lo[a] \in Int /\ Top(t, a) \in Nat /\ LoAt(t, lo, a, i) \in Int /\ lo[a] <= LoAt(t, lo, a, i)
  BY <1>1, GhostTypes, NodeFields, BoundTypes, LowestAt
<1>5. Keys(t, a)[i] \in Nat
  <2>1. i \in 1 .. Len(Keys(t, a))
    BY <1>1 DEF Arrays
  <2>. QED
    BY <1>1, <2>1, NodeFields
<1>6. lo[a] < k
  BY <1>2, <1>3, <1>4
<1>7. k <= Top(t, a)
  BY <1>2, <1>3, <1>4, <1>5
<1>. QED
  BY <1>2, <1>3, <1>6, <1>7 DEF Inside

\* The keys of a leaf ascend.
LEMMA LeafAscends ==
  ASSUME NEW t, NEW lv, NEW lo, NEW nx, NEW loose, Good(t, lv, lo, nx, loose, 0), NEW a \in Nodes(t), Leaf(t, a)
  PROVE  /\ \A i, j \in 1 .. Len(Kids(t, a)) : i < j => Keys(t, a)[i] <= LoAt(t, lo, a, j) /\ Keys(t, a)[i] < Keys(t, a)[j]
         /\ \A i \in 1 .. Len(Kids(t, a)) : Keys(t, a)[i] \in Nat /\ lo[a] < Keys(t, a)[i] /\ Keys(t, a)[i] <= Top(t, a)
<1>1. /\ Typed(t) /\ Arrays(t) /\ Children(t, lv) /\ Bounds(t, lo, 0) /\ Filed(t, lo)
  BY DEF Good
<1>2. /\ Len(Keys(t, a)) = Len(Kids(t, a)) /\ Len(Kids(t, a)) \in Nat
      /\ \A j \in 1 .. Len(Kids(t, a)) : Keys(t, a)[j] \in Nat
  BY <1>1, GhostTypes, NodeFields
<1>3. /\ \A i, j \in 1 .. Len(Kids(t, a)) : i < j => Keys(t, a)[i] < Keys(t, a)[j]
      /\ \A j \in 1 .. Len(Kids(t, a)) : lo[a] < Keys(t, a)[j] /\ Keys(t, a)[j] <= Top(t, a)
  BY <1>1, <1>2, KeysAscend
<1>4. ASSUME NEW i \in 1 .. Len(Kids(t, a)), NEW j \in 1 .. Len(Kids(t, a)), i < j
      PROVE  Keys(t, a)[i] <= LoAt(t, lo, a, j)
  <2>1. j - 1 \in 1 .. Len(Kids(t, a)) /\ j # 1 /\ LoAt(t, lo, a, j) = Keys(t, a)[j - 1]
    BY <1>2, <1>4 DEF LoAt
  <2>2. CASE i = j - 1
    BY <1>2, <2>1, <2>2
  <2>3. CASE i # j - 1
    <3>1. i < j - 1
      BY <1>2, <1>4, <2>3
    <3>2. Keys(t, a)[i] < Keys(t, a)[j - 1] /\ Keys(t, a)[i] \in Nat /\ Keys(t, a)[j - 1] \in Nat
      BY <1>2, <1>3, <2>1, <3>1
    <3>. QED
      BY <2>1, <3>2
  <2>. QED
    BY <2>2, <2>3
<1>. QED
  BY <1>2, <1>3, <1>4

\* The search for a key between the bounds of a page leads to that page.
FoundAt(t, k, a, i) ==
  FindLeaf(t, k) = a /\ FirstNotBelow(Keys(t, a), k) = i /\ FindPage(t, k) = Kids(t, a)[i]

LEMMA SearchWithin ==
  ASSUME NEW t, NEW lv, NEW lo, NEW nx, NEW a \in Nodes(t), NEW i \in 1 .. Len(Kids(t, a)), NEW k \in Nat,
         Good(t, lv, lo, nx, {}, 0), Leaf(t, a), LoAt(t, lo, a, i) < k, k <= Keys(t, a)[i]
  PROVE  FoundAt(t, k, a, i)
<1>1. Typed(t) /\ Arrays(t)
  BY DEF Good
<1>2. /\ Keys(t, a) \in Seq(Nat) /\ Len(Keys(t, a)) = Len(Kids(t, a)) /\ Len(Kids(t, a)) \in Nat
      /\ lo[a] \in Int /\ Top(t, a) \in Nat /\ LoAt(t, lo, a, i) \in Int
  BY <1>1, NodeFields, GhostTypes, BoundTypes
<1>3. Keys(t, a)[i] \in Nat /\ Keys(t, a)[i] <= Top(t, a) /\ lo[a] <= LoAt(t, lo, a, i)
  BY LeafAscends, LowestAt
<1>4. lo[a] < k /\ k <= Top(t, a)
  BY <1>2, <1>3
<1>5. FindLeaf(t, k) = a
  BY <1>4, SearchLands
<1> DEFINE j == FirstNotBelow(Keys(t, a), k)
<1>6. /\ j \in 1 .. (Len(Kids(t, a)) + 1) /\ (j <= Len(Kids(t, a)) => Keys(t, a)[j] >= k)
      /\ \A m \in 1 .. Len(Kids(t, a)) : m < j => Keys(t, a)[m] < k
  BY <1>2, FirstNotBelowIs DEF NotBelowAt
<1>. HIDE DEF j
<1>7. j = i
  <2>1. ~(i < j)
    BY <1>3, <1>6
  <2>2. ~(j < i)
    <3>1. SUFFICES ASSUME j < i PROVE FALSE
      OBVIOUS
    <3>2. j \in 1 .. Len(Kids(t, a))
      BY <1>2, <1>6, <3>1
    <3>3. Keys(t, a)[j] <= LoAt(t, lo, a, i) /\ Keys(t, a)[j] \in Nat /\ Keys(t, a)[j] >= k
      BY <1>2, <1>6, <3>1, <3>2, LeafAscends
    <3>. QED
      BY <1>2, <3>3
  <2>. QED
    BY <1>2, <1>6, <2>1, <2>2
<1>8. FindPage(t, k) = IF j > Len(Kids(t, a)) THEN 0 ELSE Kids(t, a)[j]
  BY <1>5, Zenon DEF FindPage, Kids, Keys, j
<1>9. FindPage(t, k) = Kids(t, a)[i]
  BY <1>2, <1>7, <1>8
<1>. QED
  BY <1>5, <1>7, <1>9 DEF FoundAt, j

\* The search for a key leads to the page that holds it.
LEMMA SearchFinds ==
  ASSUME NEW t, NEW lv, NEW lo, NEW nx, NEW pg \in DOMAIN t.page, NEW k \in DOMAIN t.page[pg],
         Good(t, lv, lo, nx, {}, 0)
  PROVE  FindPage(t, k) = pg /\ pg # 0
<1>1. Typed(t)
  BY DEF Good
<1>2. PICK a, i : PageIn(t, lo, pg, a, i)
  BY PageWhere
<1>3. a \in Nodes(t) /\ Leaf(t, a) /\ i \in 1 .. Len(Kids(t, a)) /\ Kids(t, a)[i] = pg
  BY <1>2 DEF PageIn
<1>4. k \in Nat /\ LoAt(t, lo, a, i) < k /\ k <= Keys(t, a)[i]
  BY <1>3, RecordInside DEF Inside
<1>5. FoundAt(t, k, a, i)
  BY <1>3, <1>4, SearchWithin
<1>. QED
  BY <1>1, <1>3, <1>5 DEF Typed, FoundAt

LEMMA RowsDomain ==
  ASSUME NEW t, NEW lv, NEW lo, NEW nx, Good(t, lv, lo, nx, {}, 0)
  PROVE  \A x : x \in DOMAIN Rows(t) <=> \E pg \in DOMAIN t.page : x \in DOMAIN t.page[pg]
<1>1. ScannedPages(t) = DOMAIN t.page
  BY ScannedAll
<1>2. DOMAIN Rows(t) = UNION {DOMAIN t.page[pg] : pg \in ScannedPages(t)}
  BY DEF Rows
<1>. QED
  BY <1>1, <1>2

\* A lookup and a scan agree (findPage, findPageInLeaf).
THEOREM LookupsAgreeWithScans == Spec => []SearchFindsRows
<1>1. IInv => SearchFindsRows
  <2>1. SUFFICES ASSUME IInv, NEW k \in Key
                 PROVE  k \in DOMAIN Rows(tree) <=>
                          FindPage(tree, k) # 0 /\ k \in DOMAIN tree.page[FindPage(tree, k)]
    BY DEF SearchFindsRows
  <2>2. Stands(tree, {})
    BY <2>1 DEF IInv, Holds
  <2>3. PICK lv, lo, nx : Good(tree, lv, lo, nx, {}, 0)
    BY <2>2 DEF Stands
  <2>4. \A x : x \in DOMAIN Rows(tree) <=> \E pg \in DOMAIN tree.page : x \in DOMAIN tree.page[pg]
    BY <2>3, RowsDomain
  <2>5. ASSUME NEW pg \in DOMAIN tree.page, k \in DOMAIN tree.page[pg]
        PROVE  FindPage(tree, k) = pg /\ pg # 0
    BY <2>3, <2>5, SearchFinds
  <2>6. FindPage(tree, k) # 0 => FindPage(tree, k) \in DOMAIN tree.page
    BY <2>1, <2>2, PageFound DEF Found
  <2>. QED
    BY <2>4, <2>5, <2>6
<1>. QED
  BY <1>1, TreeInvariant, PTL

\* What a search relies on: keys, separators and largest keys bound what is
\* below them, whatever moved it there.
THEOREM BoundsAlwaysHold == Spec => []BoundsHold
<1>1. IInv => BoundsHold
  <2>1. SUFFICES ASSUME IInv PROVE BoundsHold
    OBVIOUS
  <2>2. PICK lv, lo, nx : Good(tree, lv, lo, nx, {}, 0)
    BY <2>1 DEF IInv, Holds, Stands
  <2>3. /\ Typed(tree) /\ Arrays(tree) /\ Parents(tree) /\ Children(tree, lv) /\ Filed(tree, lo) /\ Bounds(tree, lo, 0)
    BY <2>2 DEF Good
  <2>4. ASSUME NEW a \in Nodes(tree)
        PROVE  \A i, j \in DOMAIN Keys(tree, a) : i < j => Keys(tree, a)[i] < Keys(tree, a)[j]
    <3>1. \A i \in 1 .. Len(Keys(tree, a)) : ~Leaf(tree, a) => Kids(tree, a)[i] # 0
      <4>1. SUFFICES ASSUME NEW i \in 1 .. Len(Keys(tree, a)), ~Leaf(tree, a) PROVE Kids(tree, a)[i] # 0
        OBVIOUS
      <4>2. /\ Kids(tree, a) \in Seq(Nat \ {0}) /\ Len(Kids(tree, a)) \in Nat
            /\ Len(Keys(tree, a)) = Len(Kids(tree, a)) - 1
        BY <2>3, <4>1, NodeFields DEF Arrays
      <4>. QED
        BY <4>2
    <3>2. DOMAIN Keys(tree, a) = 1 .. Len(Keys(tree, a))
      <4>1. Keys(tree, a) \in Seq(Nat)
        BY <2>3, NodeFields
      <4>. QED
        BY <4>1
    <3>. QED
      BY <2>3, <3>1, <3>2, KeysAscend
  <2>5. ASSUME NEW a \in Nodes(tree), NEW i \in 1 .. Len(Kids(tree, a)), NEW k \in KeysOf(tree.node[a], i)
        PROVE  /\ i \in DOMAIN Keys(tree, a) => k <= Keys(tree, a)[i]
               /\ i > 1 => k > Keys(tree, a)[i - 1]
               /\ k <= Top(tree, a)
    <3>1. /\ DOMAIN Keys(tree, a) = 1 .. Len(Keys(tree, a))
          /\ Len(Keys(tree, a)) = (IF Leaf(tree, a) THEN Len(Kids(tree, a)) ELSE Len(Kids(tree, a)) - 1)
          /\ Len(Kids(tree, a)) \in Nat
      <4>1. Keys(tree, a) \in Seq(Nat)
        BY <2>3, NodeFields
      <4>. QED
        BY <2>3, <4>1, NodeFields DEF Arrays
    <3>2. i > 1 => LoAt(tree, lo, a, i) = Keys(tree, a)[i - 1]
      BY DEF LoAt
    <3>3. CASE Leaf(tree, a)
      <4>1. k \in DOMAIN tree.page[Kids(tree, a)[i]]
        BY <2>5, <3>3 DEF KeysOf, Leaf, Kids
      <4>2. k \in Nat /\ LoAt(tree, lo, a, i) < k /\ k <= Keys(tree, a)[i] /\ k <= Top(tree, a)
        BY <2>2, <3>3, <4>1, RecordInside DEF Inside
      <4>3. LoAt(tree, lo, a, i) \in Int
        BY <2>2, BoundTypes
      <4>. QED
        BY <3>2, <4>2, <4>3
    <3>4. CASE ~Leaf(tree, a)
      <4> DEFINE c == Kids(tree, a)[i]
      <4>1. /\ c \in Nodes(tree) /\ LoAt(tree, lo, a, i) <= lo[c] /\ Top(tree, c) <= HiAt(tree, a, i)
            /\ Top(tree, c) <= Top(tree, a)
        BY <2>2, <3>4, ChildWithin DEF Within
      <4>2. k \in KeysBelow(c)
        BY <2>5, <3>4 DEF KeysOf, Leaf, Kids
      <4>. HIDE DEF c
      <4>3. PICK l \in Subtree(tree, c) : tree.node[l].leaf /\ \E pg \in ToSet(tree.node[l].kids) : k \in DOMAIN tree.page[pg]
        BY <4>2 DEF KeysBelow
      <4>4. l \in Nodes(tree) /\ lo[c] <= lo[l] /\ Top(tree, l) <= Top(tree, c)
        BY <2>2, <4>1, <4>3, SubtreeWithin DEF Within
      <4>5. Kids(tree, l) \in Seq(Nat \ {0})
        BY <2>3, <4>4, NodeFields
      <4>6. PICK j \in 1 .. Len(Kids(tree, l)) : k \in DOMAIN tree.page[Kids(tree, l)[j]]
        <5>1. PICK pg \in ToSet(Kids(tree, l)) : k \in DOMAIN tree.page[pg]
          BY <4>3 DEF Kids
        <5>2. PICK j \in 1 .. Len(Kids(tree, l)) : Kids(tree, l)[j] = pg
          BY <4>5, <5>1, InIt
        <5>. QED
          BY <5>1, <5>2
      <4>7. k \in Nat /\ lo[l] < k /\ k <= Top(tree, l)
        BY <2>2, <4>3, <4>4, <4>6, RecordInside DEF Inside, Leaf
      <4>8. /\ lo[l] \in Int /\ lo[c] \in Int /\ Top(tree, l) \in Nat /\ Top(tree, c) \in Nat /\ Top(tree, a) \in Nat
            /\ LoAt(tree, lo, a, i) \in Int /\ HiAt(tree, a, i) \in Nat
        BY <2>2, <2>3, <4>1, <4>4, GhostTypes, NodeFields, BoundTypes
      <4>9. LoAt(tree, lo, a, i) < k
        BY <4>1, <4>4, <4>7, <4>8
      <4>10. k <= HiAt(tree, a, i) /\ k <= Top(tree, a)
        BY <4>1, <4>4, <4>7, <4>8
      <4>11. i \in DOMAIN Keys(tree, a) => HiAt(tree, a, i) = Keys(tree, a)[i]
        BY <3>1 DEF HiAt
      <4>. QED
        BY <3>2, <4>7, <4>8, <4>9, <4>10, <4>11
    <3>. QED
      BY <3>3, <3>4
  <2>6. \A a \in Nodes(tree) : DOMAIN Kids(tree, a) = 1 .. Len(Kids(tree, a))
    <3>1. SUFFICES ASSUME NEW a \in Nodes(tree) PROVE DOMAIN Kids(tree, a) = 1 .. Len(Kids(tree, a))
      OBVIOUS
    <3>2. Kids(tree, a) \in Seq(Nat \ {0})
      BY <2>3, NodeFields
    <3>. QED
      BY <3>2
  <2>7. SUFFICES ASSUME NEW a \in Nodes(tree)
                 PROVE  /\ \A i, j \in DOMAIN tree.node[a].keys : i < j => tree.node[a].keys[i] < tree.node[a].keys[j]
                        /\ \A i \in DOMAIN tree.node[a].kids : \A k \in KeysOf(tree.node[a], i) :
                             /\ i \in DOMAIN tree.node[a].keys => k <= tree.node[a].keys[i]
                             /\ i > 1 => k > tree.node[a].keys[i - 1]
                             /\ k <= tree.node[a].max
    BY <2>1, ReachableIs, Zenon DEF BoundsHold
  <2>8. \A i, j \in DOMAIN tree.node[a].keys : i < j => tree.node[a].keys[i] < tree.node[a].keys[j]
    BY <2>4, Zenon DEF Keys
  <2>9. \A i \in DOMAIN tree.node[a].kids : \A k \in KeysOf(tree.node[a], i) :
          /\ i \in DOMAIN tree.node[a].keys => k <= tree.node[a].keys[i]
          /\ i > 1 => k > tree.node[a].keys[i - 1]
          /\ k <= tree.node[a].max
    BY <2>5, <2>6, Zenon DEF Keys, Kids, Top
  <2>. QED
    BY <2>8, <2>9
<1>. QED
  BY <1>1, TreeInvariant, PTL

\* A scan meets ascending keys, whatever was inserted, split and merged
\* (getNextLeaf; pages are divided and filed in key order).
THEOREM ScansAscend == Spec => []ScanIsOrdered
<1>1. IInv => ScanIsOrdered
  <2>1. SUFFICES ASSUME IInv PROVE ScanIsOrdered
    OBVIOUS
  <2>2. PICK lv, lo, nx : Good(tree, lv, lo, nx, {}, 0)
    BY <2>1 DEF IInv, Holds, Stands
  <2> DEFINE s == Scan(tree)
  <2>3. /\ s \in Seq(Nodes(tree)) /\ (\A i \in 1 .. Len(s) : Leaf(tree, s[i]))
        /\ \A i, j \in 1 .. Len(s) : i < j => Top(tree, s[i]) <= lo[s[j]]
    BY <2>2, ScanIs DEF ScanOf
  <2>. HIDE DEF s
  <2>4. Typed(tree)
    BY <2>2 DEF Good
  <2>5. DOMAIN s = 1 .. Len(s) /\ \A i \in 1 .. Len(s) : s[i] \in Nodes(tree)
    BY <2>3
  <2>6. \A a \in Nodes(tree) : DOMAIN Kids(tree, a) = 1 .. Len(Kids(tree, a)) /\ Len(Kids(tree, a)) \in Nat
    <3>1. SUFFICES ASSUME NEW a \in Nodes(tree) PROVE DOMAIN Kids(tree, a) = 1 .. Len(Kids(tree, a)) /\ Len(Kids(tree, a)) \in Nat
      OBVIOUS
    <3>2. Kids(tree, a) \in Seq(Nat \ {0})
      BY <2>4, NodeFields
    <3>. QED
      BY <3>2
  <2>7. ASSUME NEW i1 \in 1 .. Len(s), NEW i2 \in 1 .. Len(s), i1 < i2,
               NEW j1 \in 1 .. Len(Kids(tree, s[i1])), NEW j2 \in 1 .. Len(Kids(tree, s[i2])),
               NEW k1 \in DOMAIN tree.page[Kids(tree, s[i1])[j1]], NEW k2 \in DOMAIN tree.page[Kids(tree, s[i2])[j2]]
        PROVE  k1 < k2
    <3>1. k1 \in Nat /\ k1 <= Top(tree, s[i1]) /\ k2 \in Nat /\ lo[s[i2]] < k2
      BY <2>2, <2>3, <2>5, RecordInside DEF Inside
    <3>2. Top(tree, s[i1]) <= lo[s[i2]] /\ Top(tree, s[i1]) \in Nat /\ lo[s[i2]] \in Int
      BY <2>2, <2>3, <2>4, <2>5, <2>7, GhostTypes, NodeFields
    <3>. QED
      BY <3>1, <3>2
  <2>8. ASSUME NEW i \in 1 .. Len(s),
               NEW j1 \in 1 .. Len(Kids(tree, s[i])), NEW j2 \in 1 .. Len(Kids(tree, s[i])), j1 < j2,
               NEW k1 \in DOMAIN tree.page[Kids(tree, s[i])[j1]], NEW k2 \in DOMAIN tree.page[Kids(tree, s[i])[j2]]
        PROVE  k1 < k2
    <3>1. k1 \in Nat /\ k1 <= Keys(tree, s[i])[j1] /\ k2 \in Nat /\ LoAt(tree, lo, s[i], j2) < k2
      BY <2>2, <2>3, <2>5, RecordInside DEF Inside
    <3>2. /\ Keys(tree, s[i])[j1] <= LoAt(tree, lo, s[i], j2) /\ Keys(tree, s[i])[j1] \in Nat
          /\ LoAt(tree, lo, s[i], j2) \in Int
      BY <2>2, <2>3, <2>5, <2>8, LeafAscends, BoundTypes
    <3>. QED
      BY <3>1, <3>2
  <2> DEFINE KeysAt(i, j) == DOMAIN tree.page[Kids(tree, s[i])[j]]
  <2>9. ASSUME NEW i1 \in DOMAIN s, NEW i2 \in DOMAIN s,
               NEW j1 \in DOMAIN Kids(tree, s[i1]), NEW j2 \in DOMAIN Kids(tree, s[i2]),
               i1 < i2 \/ (i1 = i2 /\ j1 < j2), NEW k1 \in KeysAt(i1, j1), NEW k2 \in KeysAt(i2, j2)
        PROVE  k1 < k2
    <3>1. /\ i1 \in 1 .. Len(s) /\ i2 \in 1 .. Len(s)
          /\ j1 \in 1 .. Len(Kids(tree, s[i1])) /\ j2 \in 1 .. Len(Kids(tree, s[i2]))
      BY <2>5, <2>6
    <3>2. CASE i1 < i2
      BY <2>7, <3>1, <3>2
    <3>3. CASE i1 = i2 /\ j1 < j2
      BY <2>8, <3>1, <3>3
    <3>. QED
      BY <2>9, <3>2, <3>3
  <2>. HIDE DEF KeysAt
  <2>10. \A i, j : KeysAt(i, j) = DOMAIN tree.page[tree.node[s[i]].kids[j]]
    BY Zenon DEF KeysAt, Kids
  <2>. QED
    BY <2>9, <2>10, Zenon DEF ScanIsOrdered, s, Kids
<1>. QED
  BY <1>1, TreeInvariant, PTL

\* In a scan the keys of the leaves ascend, and in no other way.
LEMMA ScanBefore ==
  ASSUME NEW t, NEW lv, NEW lo, NEW nx, NEW loose, NEW s,
         Good(t, lv, lo, nx, loose, 0), ScanOf(t, lo, nx, s)
  PROVE  \A i, j \in 1 .. Len(s) : i # j => (Last(Keys(t, s[i])) < Head(Keys(t, s[j])) <=> i < j)
<1>1. /\ s \in Seq(Nodes(t)) /\ (\A i \in 1 .. Len(s) : Leaf(t, s[i]))
      /\ \A i, j \in 1 .. Len(s) : i < j => Top(t, s[i]) <= lo[s[j]]
  BY DEF ScanOf
<1>2. Typed(t) /\ Arrays(t)
  BY DEF Good
<1> DEFINE first(a) == Head(Keys(t, a))
           last(a) == Last(Keys(t, a))
<1>3. ASSUME NEW a \in Nodes(t), Leaf(t, a)
      PROVE  /\ first(a) \in Nat /\ last(a) \in Nat /\ lo[a] \in Int /\ Top(t, a) \in Nat
             /\ first(a) <= last(a) /\ lo[a] < first(a) /\ last(a) <= Top(t, a)
  <2> DEFINE l == Len(Kids(t, a))
  <2>1. Len(Keys(t, a)) = l /\ l \in Nat /\ l >= 1 /\ Keys(t, a) \in Seq(Nat)
    BY <1>2, <1>3, NodeFields DEF Arrays
  <2>. HIDE DEF l
  <2>2. 1 \in 1 .. l /\ l \in 1 .. l
    BY <2>1
  <2>3. first(a) = Keys(t, a)[1] /\ last(a) = Keys(t, a)[l]
    BY <2>1 DEF Last
  <2>. HIDE DEF first, last
  <2>4. /\ Keys(t, a)[1] \in Nat /\ lo[a] < Keys(t, a)[1] /\ Keys(t, a)[l] \in Nat /\ Keys(t, a)[l] <= Top(t, a)
    BY <1>3, <2>2, LeafAscends DEF l
  <2>5. 1 < l => Keys(t, a)[1] < Keys(t, a)[l]
    BY <1>3, <2>2, LeafAscends DEF l
  <2>6. first(a) <= last(a)
    <3>1. CASE l = 1
      BY <2>3, <2>4, <3>1
    <3>2. CASE l # 1
      <4>1. 1 < l
        BY <2>1, <3>2
      <4>. QED
        BY <2>3, <2>4, <2>5, <4>1
    <3>. QED
      BY <3>1, <3>2
  <2>7. lo[a] \in Int /\ Top(t, a) \in Nat
    BY <1>2, GhostTypes, NodeFields
  <2>. QED
    BY <2>3, <2>4, <2>6, <2>7
<1>. HIDE DEF first, last
<1>4. \A i \in 1 .. Len(s) : s[i] \in Nodes(t) /\ Leaf(t, s[i])
  BY <1>1
<1>5. ASSUME NEW i \in 1 .. Len(s), NEW j \in 1 .. Len(s), i < j PROVE last(s[i]) < first(s[j])
  <2>1. Top(t, s[i]) <= lo[s[j]]
    BY <1>1, <1>5
  <2>2. last(s[i]) \in Nat /\ last(s[i]) <= Top(t, s[i]) /\ Top(t, s[i]) \in Nat
    BY <1>3, <1>4
  <2>3. first(s[j]) \in Nat /\ lo[s[j]] < first(s[j]) /\ lo[s[j]] \in Int
    BY <1>3, <1>4
  <2>. QED
    BY <2>1, <2>2, <2>3
<1>6. ASSUME NEW i \in 1 .. Len(s), NEW j \in 1 .. Len(s), i # j, last(s[i]) < first(s[j]) PROVE i < j
  <2>1. SUFFICES ASSUME j < i PROVE FALSE
    BY <1>6
  <2>2. last(s[j]) < first(s[i])
    BY <1>5, <2>1
  <2>3. first(s[j]) <= last(s[j]) /\ first(s[j]) \in Nat /\ last(s[j]) \in Nat
    BY <1>3, <1>4
  <2>4. first(s[i]) <= last(s[i]) /\ first(s[i]) \in Nat /\ last(s[i]) \in Nat
    BY <1>3, <1>4
  <2>. QED
    BY <1>6, <2>2, <2>3, <2>4
<1>. QED
  BY <1>5, <1>6 DEF first, last

\* The leaves link bidirectionally in key order, and a scan meets them all
\* (splitNode, mergeNode).
THEOREM LeavesStayLinked == Spec => []LeavesAreLinked
<1>1. IInv => LeavesAreLinked
  <2>1. SUFFICES ASSUME IInv PROVE LeavesAreLinked
    OBVIOUS
  <2>2. PICK lv, lo, nx : Good(tree, lv, lo, nx, {}, 0)
    BY <2>1 DEF IInv, Holds, Stands
  <2> DEFINE s == Scan(tree)
             L == {a \in Nodes(tree) : Leaf(tree, a)}
             prev(a) == tree.node[a].prev
             next(a) == tree.node[a].next
  <2>3. ScanOf(tree, lo, nx, s)
    BY <2>2, ScanIs
  <2>4. ToSet(s) = L
    BY <2>2, ScannedNodes
  <2>. HIDE DEF s
  <2>5. /\ s \in Seq(Nodes(tree)) /\ (\A i \in 1 .. Len(s) : Leaf(tree, s[i]))
        /\ \A i \in 1 .. Len(s) : nx[s[i]] = IF i = Len(s) THEN 0 ELSE s[i + 1]
        /\ \A x \in Nodes(tree) : Leaf(tree, x) => \E i \in 1 .. Len(s) : s[i] = x
    BY <2>3 DEF ScanOf
  <2>6. /\ Typed(tree) /\ Levels(tree, lv) /\ Ordered(tree, lv, lo, nx) /\ Linked(tree, nx)
    BY <2>2 DEF Good
  <2>7. \A i \in 1 .. Len(s) : s[i] \in L /\ s[i] \in Nodes(tree) /\ s[i] # 0
    BY <2>5, <2>6 DEF Typed
  <2>8. \A a \in L : /\ next(a) = nx[a]
                     /\ nx[a] # 0 => prev(nx[a]) = a
                     /\ prev(a) # 0 => prev(a) \in Nodes(tree) /\ nx[prev(a)] = a
    BY <2>6 DEF Linked, Leaf
  <2>9. ASSUME NEW a \in L, prev(a) # 0 PROVE prev(a) \in L /\ next(prev(a)) = a
    <3>1. prev(a) \in Nodes(tree) /\ nx[prev(a)] = a /\ a # 0
      BY <2>6, <2>8, <2>9, NodeFields
    <3>2. lv[prev(a)] = lv[a]
      BY <2>6, <3>1 DEF Ordered
    <3>3. prev(a) \in L
      BY <2>6, <3>1, <3>2 DEF Levels
    <3>. QED
      BY <2>8, <3>1, <3>3
  <2>10. ASSUME NEW a \in L, next(a) # 0 PROVE next(a) \in L /\ prev(next(a)) = a
    <3>1. next(a) = nx[a] /\ prev(nx[a]) = a
      BY <2>8, <2>10
    <3>2. nx[a] \in Nodes(tree) /\ lv[nx[a]] = lv[a]
      BY <2>6, <2>10, <3>1 DEF Ordered
    <3>3. nx[a] \in L
      BY <2>6, <3>2 DEF Levels
    <3>. QED
      BY <3>1, <3>3
  <2>. HIDE DEF prev, next
  <2>11. \A i, j \in 1 .. Len(s) : i # j => (Before(s[i], s[j]) <=> i < j)
    BY <2>2, <2>3, ScanBefore DEF Before, Keys
  <2>12. ASSUME NEW a \in L, NEW b \in L \ {a}
         PROVE  IF Before(a, b) THEN b = next(a) \/ (next(a) # 0 /\ Before(next(a), b))
                ELSE b = prev(a) \/ (prev(a) # 0 /\ Before(b, prev(a)))
    <3>1. PICK i \in 1 .. Len(s), j \in 1 .. Len(s) : s[i] = a /\ s[j] = b
      BY <2>5
    <3>2. i # j /\ Len(s) \in Nat
      BY <2>5, <2>12, <3>1
    <3>3. CASE i < j
      <4>1. Before(a, b)
        BY <2>11, <3>1, <3>2, <3>3
      <4>2. i + 1 \in 1 .. Len(s) /\ i # Len(s)
        BY <3>2, <3>3
      <4>3. next(a) = s[i + 1] /\ s[i + 1] # 0
        BY <2>5, <2>7, <2>8, <3>1, <4>2
      <4>4. CASE j = i + 1
        BY <3>1, <4>1, <4>3, <4>4
      <4>5. CASE j # i + 1
        <5>1. i + 1 < j
          BY <3>3, <4>5
        <5>2. Before(s[i + 1], s[j])
          BY <2>11, <4>2, <4>5, <5>1
        <5>. QED
          BY <3>1, <4>1, <4>3, <5>2
      <4>. QED
        BY <4>4, <4>5
    <3>4. CASE ~(i < j)
      <4>1. ~Before(a, b)
        BY <2>11, <3>1, <3>2, <3>4
      <4>2. i - 1 \in 1 .. Len(s) /\ i - 1 # Len(s) /\ (i - 1) + 1 = i
        BY <3>2, <3>4
      <4>3. nx[s[i - 1]] = a /\ a # 0
        BY <2>5, <2>7, <3>1, <4>2
      <4>4. prev(a) = s[i - 1] /\ s[i - 1] # 0
        BY <2>7, <2>8, <4>2, <4>3
      <4>5. CASE j = i - 1
        BY <3>1, <4>1, <4>4, <4>5
      <4>6. CASE j # i - 1
        <5>1. j < i - 1
          BY <3>2, <3>4, <4>6
        <5>2. Before(s[j], s[i - 1])
          BY <2>11, <4>2, <4>6, <5>1
        <5>. QED
          BY <3>1, <4>1, <4>4, <5>2
      <4>. QED
        BY <4>5, <4>6
    <3>. QED
      BY <3>3, <3>4
  <2>13. Leaves = L
    BY <2>1, ReachableIs DEF Leaves, Reachable, Leaf
  <2>. HIDE DEF L
  <2>14. /\ ToSet(Scan(tree)) = Leaves
         /\ \A a \in Leaves :
              /\ prev(a) # 0 => prev(a) \in Leaves /\ next(prev(a)) = a
              /\ next(a) # 0 => next(a) \in Leaves /\ prev(next(a)) = a
              /\ \A b \in Leaves \ {a} :
                   IF Before(a, b) THEN b = next(a) \/ (next(a) # 0 /\ Before(next(a), b))
                   ELSE b = prev(a) \/ (prev(a) # 0 /\ Before(b, prev(a)))
    <3>1. ToSet(Scan(tree)) = Leaves
      BY <2>4, <2>13 DEF s
    <3>. QED
      BY <2>9, <2>10, <2>12, <2>13, <3>1
  <2>. QED
    BY <2>14, Zenon DEF LeavesAreLinked, prev, next
<1>. QED
  BY <1>1, TreeInvariant, PTL

\* What an attempt to insert answers.
Answers(t, k, z, pg, p, q, r) ==
  /\ r.reply = IF z > Capacity THEN "too large"
               ELSE IF k \in DOMAIN p THEN "key exists"
               ELSE IF Used(q) <= Capacity \/ (\A j \in DOMAIN p : j < k) \/ Divisions(q) # {}
               THEN "inserted" ELSE "again"
  /\ r.reply = "again" => r.tree = SplitPage(t, pg, Below(p, k), From(p, k))

LEMMA TryInsertAnswers ==
  ASSUME NEW t, NEW k, NEW z, NEW a, NEW i, NEW pg, NEW p, NEW q, Trying(t, k, z, a, i, pg, p, q)
  PROVE  Answers(t, k, z, pg, p, q, TryInsert(t, k, z))
<1> DEFINE past == i > Len(Kids(t, a))
           filed == MarkNode(t, a, PastNode(t.node[a], k))
           atEnd == \A j \in DOMAIN p : j < k
           cut == ChooseSplit(q, k)
           v1 == IF past THEN PropagateMaxKeyUp(MarkPage(filed, pg, q), a, k) ELSE MarkPage(t, pg, q)
           v2 == SplitPage(t, pg, p, [j \in {k} |-> z])
           v3 == SplitPage(t, pg, Below(q, cut), From(q, cut))
           v4 == SplitPage(t, pg, Below(p, k), From(p, k))
           r == TryInsert(t, k, z)
<1>1. r = IF z > Capacity THEN Result(t, "too large")
          ELSE IF k \in DOMAIN p THEN Result(t, "key exists")
          ELSE IF Used(q) <= Capacity THEN Result(v1, "inserted")
          ELSE IF atEnd THEN Result(v2, "inserted")
          ELSE IF Divisions(q) # {} THEN Result(v3, "inserted")
          ELSE Result(v4, "again")
  BY Zenon DEF TryInsert, Trying, PastNode, Kids, Keys
<1>2. \A s, x : Result(s, x).tree = s /\ Result(s, x).reply = x
  BY DEF Result
<1>. HIDE DEF atEnd, v1, v2, v3, v4, r
<1>3. r.reply = IF z > Capacity THEN "too large"
                ELSE IF k \in DOMAIN p THEN "key exists"
                ELSE IF Used(q) <= Capacity \/ atEnd \/ Divisions(q) # {} THEN "inserted" ELSE "again"
  BY <1>1, <1>2
<1>4. r.reply = "again" => r.tree = v4
  <2>1. r.reply = "again" => /\ ~(z > Capacity) /\ k \notin DOMAIN p /\ ~(Used(q) <= Capacity)
                             /\ ~atEnd /\ ~(Divisions(q) # {})
    BY <1>3
  <2>2. r.reply = "again" => r = Result(v4, "again")
    BY <1>1, <2>1, Zenon
  <2>. QED
    BY <1>2, <2>2, Zenon
<1>. QED
  BY <1>3, <1>4 DEF Answers, atEnd, v4, r

\* The page at r has records on both sides of k.
Straddles(t, r, k) ==
  /\ r \in DOMAIN t.page
  /\ \E x \in DOMAIN t.page[r] : x < k
  /\ \E x \in DOMAIN t.page[r] : k < x

\* Key k is in no page, and within none.
Absent(t, k) == \A r \in DOMAIN t.page : k \notin DOMAIN t.page[r] /\ ~Straddles(t, r, k)

\* No other page than the one found for a key can hold it.
LEMMA StraddledIsFound ==
  ASSUME NEW t, NEW lv, NEW lo, NEW nx, NEW r, NEW k \in Nat, Good(t, lv, lo, nx, {}, 0),
         Straddles(t, r, k) \/ (r \in DOMAIN t.page /\ k \in DOMAIN t.page[r])
  PROVE  \E a \in Nodes(t) : \E i \in 1 .. Len(Kids(t, a)) : FoundAt(t, k, a, i) /\ Kids(t, a)[i] = r
<1>1. Typed(t) /\ r \in DOMAIN t.page
  BY DEF Good, Straddles
<1>2. PICK a, i : PageIn(t, lo, r, a, i)
  BY <1>1, PageWhere
<1>3. a \in Nodes(t) /\ Leaf(t, a) /\ i \in 1 .. Len(Kids(t, a)) /\ Kids(t, a)[i] = r
  BY <1>2 DEF PageIn
<1>4. LoAt(t, lo, a, i) \in Int /\ Keys(t, a)[i] \in Nat
  BY <1>3, BoundTypes, LeafAscends
<1>5. \A x \in DOMAIN t.page[r] : x \in Nat /\ LoAt(t, lo, a, i) < x /\ x <= Keys(t, a)[i]
  BY <1>3, RecordInside DEF Inside
<1>6. LoAt(t, lo, a, i) < k /\ k <= Keys(t, a)[i]
  <2>1. CASE Straddles(t, r, k)
    <3>1. PICK x \in DOMAIN t.page[r] : x < k
      BY <2>1 DEF Straddles
    <3>2. PICK y \in DOMAIN t.page[r] : k < y
      BY <2>1 DEF Straddles
    <3>. QED
      BY <1>4, <1>5, <3>1, <3>2
  <2>2. CASE k \in DOMAIN t.page[r]
    BY <1>5, <2>2
  <2>. QED
    BY <2>1, <2>2
<1>7. FoundAt(t, k, a, i)
  BY <1>3, <1>6, SearchWithin
<1>. QED
  BY <1>3, <1>7

Held(t, k) == \E pg \in DOMAIN t.page : k \in DOMAIN t.page[pg]

\* What an attempt comes to: only a page that had records on both sides of the
\* key is divided at it, and then no page has.
Outcome(t, k, z, r) ==
  IF z > Capacity THEN r.reply = "too large"
  ELSE IF Held(t, k) THEN r.reply = "key exists"
  ELSE r.reply = "inserted" \/ (r.reply = "again" /\ ~Absent(t, k) /\ Absent(r.tree, k))

LEMMA TryInsertOutcome ==
  ASSUME NEW t, Holds(t), NEW k \in Key, NEW z \in Size
  PROVE  Outcome(t, k, z, TryInsert(t, k, z))
<1> DEFINE a == FindLeaf(t, k)
           i == FirstNotBelow(Keys(t, a), k)
           pg == IF i > Len(Kids(t, a)) THEN Last(Kids(t, a)) ELSE Kids(t, a)[i]
           p == t.page[pg]
           q == With(p, k, z)
           r == TryInsert(t, k, z)
           b == FreeAddress(DOMAIN t.page)
           m == IF i > Len(Kids(t, a)) THEN Len(Kids(t, a)) ELSE i
<1>1. Stands(t, {}) /\ Fits(t)
  BY DEF Holds
<1>2. PICK lv, lo, nx : Lands(t, lv, lo, nx, k, a, i)
  BY <1>1, Landing
<1>3. z \in Nat /\ k \in Nat /\ (z > Capacity \/ z <= Capacity)
  BY SizeAssumption, KeyAssumption, OrderAssumption
<1>4. Answers(t, k, z, pg, p, q, r)
  <2>1. Trying(t, k, z, a, i, pg, p, q)
    BY DEF Trying
  <2>. HIDE DEF a, i, pg, p, q
  <2>. QED
    BY <2>1, TryInsertAnswers
<1>5. Spot(t, lv, lo, nx, k, a, m, i > Len(Kids(t, a)))
  BY <1>2, SpotIs
<1>6. \A x, c, j : FoundAt(t, k, c, j) /\ j \in 1 .. Len(Kids(t, c)) /\ Kids(t, c)[j] = x => x = pg
  <2>1. SUFFICES ASSUME NEW x, NEW c, NEW j, FoundAt(t, k, c, j), j \in 1 .. Len(Kids(t, c)), Kids(t, c)[j] = x
                 PROVE  x = pg
    OBVIOUS
  <2>2. c = a /\ j = i
    BY <2>1 DEF FoundAt
  <2>3. Len(Kids(t, a)) \in Nat
    BY <1>5, GhostTypes, NodeFields DEF Spot, Good
  <2>. HIDE DEF a, i
  <2>. QED
    BY <2>1, <2>2, <2>3
<1>. HIDE DEF a, i, r
<1>7. pg = Kids(t, a)[m] /\ Good(t, lv, lo, nx, {}, 0) /\ pg \in DOMAIN t.page
  <2>1. /\ Good(t, lv, lo, nx, {}, 0) /\ a \in Nodes(t) /\ Leaf(t, a) /\ m \in 1 .. Len(Kids(t, a))
    BY <1>5 DEF Spot
  <2>2. Last(Kids(t, a)) = Kids(t, a)[Len(Kids(t, a))]
    BY DEF Last
  <2>3. pg = Kids(t, a)[m]
    BY <2>2
  <2>. HIDE DEF m, pg
  <2>4. pg \in DOMAIN t.page
    BY <2>1, <2>3 DEF Good, Filed
  <2>. QED
    BY <2>1, <2>3, <2>4
<1>. HIDE DEF m, pg
<1>8. \A x : Straddles(t, x, k) \/ (x \in DOMAIN t.page /\ k \in DOMAIN t.page[x]) => x = pg
  BY <1>3, <1>6, <1>7, StraddledIsFound
<1>9. PageType(p) /\ Used(p) <= Capacity /\ Formed(t) /\ b \notin DOMAIN t.page /\ pg # b
  <2>1. Typed(t)
    BY <1>7 DEF Good
  <2>2. PageType(p) /\ Formed(t) /\ IsFiniteSet(DOMAIN t.page) /\ DOMAIN t.page \subseteq Nat
    BY <1>7, <2>1, TypedParts
  <2>3. b \notin DOMAIN t.page
    BY <2>2, FreeAddressIs
  <2>. QED
    BY <1>1, <1>7, <2>2, <2>3 DEF Fits
<1>10. k \in DOMAIN p <=> Held(t, k)
  BY <1>7, <1>8 DEF Held
<1>. HIDE DEF p, q, b
<1>11. CASE z > Capacity
  BY <1>4, <1>11 DEF Answers, Outcome, r
<1>12. CASE ~(z > Capacity) /\ Held(t, k)
  BY <1>4, <1>10, <1>12 DEF Answers, Outcome, r
<1>13. CASE ~(z > Capacity) /\ ~Held(t, k)
  <2>1. r.reply = "inserted" \/ r.reply = "again"
    BY <1>4, <1>10, <1>13 DEF Answers
  <2>2. ASSUME r.reply = "again" PROVE ~Absent(t, k) /\ Absent(r.tree, k)
    <3>1. /\ ~(Used(q) <= Capacity) /\ ~(\A j \in DOMAIN p : j < k) /\ Divisions(q) = {}
          /\ r.tree = SplitPage(t, pg, Below(p, k), From(p, k))
      BY <1>4, <1>10, <1>13, <2>2 DEF Answers
    <3>2. Enlarged(p, q, k, z)
      <4>1. PageType(q) /\ DOMAIN q = DOMAIN p \union {k} /\ q[k] = z /\ \A x \in DOMAIN p : q[x] = p[x]
        BY <1>9, <1>10, <1>13, PageMore, ZenonT(30) DEF q
      <4>. QED
        BY <1>3, <1>9, <1>10, <1>13, <4>1 DEF Enlarged
    <3>3. \E x \in DOMAIN p : x < k
      BY <1>9, <3>1, <3>2, NoDivision
    <3>4. \A x \in DOMAIN p : x \in Nat /\ x # k
      BY <1>9, <1>10, <1>13, KeyAssumption DEF PageType
    <3>5. \E x \in DOMAIN p : k < x
      BY <1>3, <3>1, <3>4
    <3>6. Straddles(t, pg, k)
      BY <1>7, <3>3, <3>5 DEF Straddles, p
    <3>7. /\ PageType(Below(p, k)) /\ DOMAIN Below(p, k) = {x \in DOMAIN p : x < k}
          /\ PageType(From(p, k)) /\ DOMAIN From(p, k) = {x \in DOMAIN p : x >= k}
      BY <1>9, PartsOfPage, ZenonT(30)
    <3>8. /\ DOMAIN Below(p, k) # {} /\ DOMAIN From(p, k) # {}
          /\ DOMAIN Below(p, k) \subseteq DOMAIN p /\ DOMAIN From(p, k) \subseteq DOMAIN p
          /\ \A x \in DOMAIN Below(p, k), y \in DOMAIN From(p, k) : x < y
      BY <1>3, <3>3, <3>4, <3>5, <3>7
    <3> DEFINE v == SplitPage(t, pg, Below(p, k), From(p, k))
               w == TwoPages(t, pg, Below(p, k), b, From(p, k))
    <3>9. v.page = w.page
      BY <1>1, <1>7, <3>7, <3>8, SplitWithin DEF p, b
    <3>10. /\ DOMAIN w.page = DOMAIN t.page \union {pg, b} /\ w.page[pg] = Below(p, k) /\ w.page[b] = From(p, k)
           /\ \A x \in DOMAIN t.page : x # pg /\ x # b => w.page[x] = t.page[x]
      BY <1>9, TwoPagesAre
    <3>. HIDE DEF v, w
    <3>11. ASSUME NEW x \in DOMAIN v.page
           PROVE  k \notin DOMAIN v.page[x] /\ ~Straddles(v, x, k)
      <4>1. CASE x = pg
        <5>1. DOMAIN v.page[x] = {y \in DOMAIN p : y < k}
          BY <3>7, <3>9, <3>10, <4>1
        <5>. QED
          BY <1>3, <3>4, <5>1 DEF Straddles
      <4>2. CASE x = b
        <5>1. DOMAIN v.page[x] = {y \in DOMAIN p : y >= k}
          BY <3>7, <3>9, <3>10, <4>2
        <5>. QED
          BY <1>3, <3>4, <5>1 DEF Straddles
      <4>3. CASE x # pg /\ x # b
        <5>1. x \in DOMAIN t.page /\ v.page[x] = t.page[x]
          BY <3>9, <3>10, <3>11, <4>3
        <5>2. k \notin DOMAIN t.page[x] /\ ~Straddles(t, x, k)
          BY <1>8, <4>3, <5>1
        <5>. QED
          BY <5>1, <5>2 DEF Straddles
      <4>. QED
        BY <4>1, <4>2, <4>3
    <3>12. Absent(v, k)
      BY <3>11 DEF Absent
    <3>. QED
      BY <1>7, <3>1, <3>6, <3>12 DEF Absent, v
  <2>. QED
    BY <1>13, <2>1, <2>2 DEF Outcome, r
<1>. QED
  BY <1>11, <1>12, <1>13 DEF r

\* The second attempt is the last one.
LEMMA InsertAnswers ==
  ASSUME NEW t, Holds(t), NEW k \in Key, NEW z \in Size
  PROVE  InsertRecord(t, k, z).reply =
           IF z > Capacity THEN "too large" ELSE IF Held(t, k) THEN "key exists" ELSE "inserted"
<1> DEFINE after == CHOOSE g : Trials(g, 3, Result(t, "again"), k, z)
<1>1. \E g : Trials(g, 3, Result(t, "again"), k, z)
  BY TrialsRun
<1>2. Trials(after, 3, Result(t, "again"), k, z)
  BY <1>1, Zenon
<1>3. InsertRecord(t, k, z) = IF after[3].reply = "again" THEN Result(after[3].tree, "failed") ELSE after[3]
  BY Zenon DEF Trials, InsertRecord, Rounds
<1>. HIDE DEF after
<1>4. after = [i \in 0 .. 3 |-> IF i = 0 THEN Result(t, "again") ELSE (IF after[i - 1].reply = "again" THEN TryInsert(after[i - 1].tree, k, z) ELSE after[i - 1])]
  BY <1>2, Zenon DEF Trials
<1>5. ASSUME NEW i \in 0 .. 3
      PROVE  after[i] = IF i = 0 THEN Result(t, "again") ELSE (IF after[i - 1].reply = "again" THEN TryInsert(after[i - 1].tree, k, z) ELSE after[i - 1])
  BY <1>4, Zenon
<1> DEFINE r1 == TryInsert(t, k, z)
           r2 == TryInsert(r1.tree, k, z)
<1>6. after[0] = Result(t, "again") /\ Result(t, "again").tree = t /\ Result(t, "again").reply = "again"
  BY <1>5 DEF Result
<1>7. after[1] = r1
  <2>1. 1 \in 0 .. 3 /\ 1 - 1 = 0 /\ 1 # 0
    OBVIOUS
  <2>2. after[1] = (IF after[0].reply = "again" THEN TryInsert(after[0].tree, k, z) ELSE after[0])
    BY <1>5, <2>1
  <2>. QED
    BY <1>6, <2>2
<1>. HIDE DEF r1, r2
<1>8. after[2] = IF r1.reply = "again" THEN r2 ELSE r1
  <2>1. 2 \in 0 .. 3 /\ 2 - 1 = 1 /\ 2 # 0
    OBVIOUS
  <2>2. after[2] = (IF after[1].reply = "again" THEN TryInsert(after[1].tree, k, z) ELSE after[1])
    BY <1>5, <2>1
  <2>. QED
    BY <1>7, <2>2 DEF r2
<1>9. after[2].reply # "again" => after[3] = after[2]
  <2>1. 3 \in 0 .. 3 /\ 3 - 1 = 2 /\ 3 # 0
    OBVIOUS
  <2>2. after[3] = (IF after[2].reply = "again" THEN TryInsert(after[2].tree, k, z) ELSE after[2])
    BY <1>5, <2>1
  <2>. QED
    BY <2>2
<1>10. Outcome(t, k, z, r1) /\ Holds(r1.tree)
  BY TryInsertOutcome, TryInsertHolds DEF r1
<1>11. Outcome(r1.tree, k, z, r2)
  BY <1>10, TryInsertOutcome DEF r2
<1>12. r1.reply = "again" => r2.reply = "inserted"
  <2>1. r1.reply = "again" => ~(z > Capacity) /\ Absent(r1.tree, k)
    BY <1>10 DEF Outcome
  <2>2. Absent(r1.tree, k) => ~Held(r1.tree, k)
    BY DEF Absent, Held
  <2>. QED
    BY <1>11, <2>1, <2>2 DEF Outcome
<1>13. after[2].reply # "again"
  BY <1>8, <1>12
<1>14. InsertRecord(t, k, z).reply = after[2].reply
  BY <1>3, <1>9, <1>13
<1>15. CASE r1.reply = "again"
  BY <1>8, <1>10, <1>12, <1>14, <1>15 DEF Outcome
<1>16. CASE r1.reply # "again"
  BY <1>8, <1>10, <1>14, <1>16 DEF Outcome
<1>. QED
  BY <1>15, <1>16

\* The results of insertRecord, updateRecord and deleteRecord are true, and a
\* record that fits a page finds a place within three attempts.
THEOREM ResultsStayTrue == Spec => []ResultsAreTrue
<1>1. IInv /\ SearchFindsRows => ResultsAreTrue
  <2>1. SUFFICES ASSUME IInv, SearchFindsRows, NEW k \in Key
                 PROVE  /\ \A z \in Size :
                             /\ InsertRecord(tree, k, z).reply =
                                  IF z > Capacity THEN "too large"
                                  ELSE IF k \in DOMAIN Rows(tree) THEN "key exists" ELSE "inserted"
                             /\ UpdateRecord(tree, k, z).reply = "updated" <=>
                                  k \in DOMAIN Rows(tree) /\ z <= Capacity
                        /\ k \in DOMAIN Rows(tree) => DeleteRecord(tree, k).reply = "deleted"
    BY DEF ResultsAreTrue
  <2>2. Holds(tree)
    BY <2>1 DEF IInv
  <2>3. PICK lv, lo, nx : Good(tree, lv, lo, nx, {}, 0)
    BY <2>2 DEF Holds, Stands
  <2>4. k \in DOMAIN Rows(tree) <=> Held(tree, k)
    BY <2>3, RowsDomain DEF Held
  <2> DEFINE pg == FindPage(tree, k)
  <2>5. k \in DOMAIN Rows(tree) <=> pg # 0 /\ k \in DOMAIN tree.page[pg]
    BY <2>1 DEF SearchFindsRows
  <2>6. \A x, y : Result(x, y).reply = y
    BY DEF Result
  <2>7. ASSUME NEW z \in Size
        PROVE  /\ InsertRecord(tree, k, z).reply =
                    IF z > Capacity THEN "too large"
                    ELSE IF k \in DOMAIN Rows(tree) THEN "key exists" ELSE "inserted"
               /\ UpdateRecord(tree, k, z).reply = "updated" <=> k \in DOMAIN Rows(tree) /\ z <= Capacity
    <3>1. InsertRecord(tree, k, z).reply =
            IF z > Capacity THEN "too large" ELSE IF k \in DOMAIN Rows(tree) THEN "key exists" ELSE "inserted"
      BY <2>2, <2>4, InsertAnswers
    <3> DEFINE v == StorePage(tree, [tree.page[pg] EXCEPT ![k] = z], pg)
    <3>2. UpdateRecord(tree, k, z) =
            IF pg = 0 \/ k \notin DOMAIN tree.page[pg] \/ z > Capacity THEN Result(tree, "refused")
            ELSE Result(v, "updated")
      BY Zenon DEF UpdateRecord
    <3>3. z > Capacity <=> ~(z <= Capacity)
      BY SizeAssumption, OrderAssumption
    <3>. HIDE DEF v, pg
    <3>4. UpdateRecord(tree, k, z).reply = "updated" <=> k \in DOMAIN Rows(tree) /\ z <= Capacity
      BY <2>5, <2>6, <3>2, <3>3
    <3>. QED
      BY <3>1, <3>4
  <2>8. k \in DOMAIN Rows(tree) => DeleteRecord(tree, k).reply = "deleted"
    <3> DEFINE a == FindLeaf(tree, k)
               p == Restrict(tree.page[pg], DOMAIN tree.page[pg] \ {k})
               only == IsRoot(tree.node[a]) /\ Len(tree.node[a].kids) = 1
               v == DeletePage(tree, a, pg)
               w == MarkPage(tree, pg, p)
    <3>1. DeleteRecord(tree, k) =
            IF pg = 0 THEN Result(tree, "deleted")
            ELSE IF k \notin DOMAIN tree.page[pg] THEN Result(tree, "refused")
            ELSE IF p = <<>> /\ ~only THEN Result(v, "deleted")
            ELSE Result(w, "deleted")
      BY Zenon DEF DeleteRecord
    <3>. HIDE DEF pg, p, only, v, w
    <3>. QED
      BY <2>5, <2>6, <3>1
  <2>. QED
    BY <2>7, <2>8
<1>. QED
  BY <1>1, TreeInvariant, LookupsAgreeWithScans, PTL
=============================================================================
