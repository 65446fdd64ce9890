--------------------------- MODULE BPlusTreeShape ---------------------------
(***************************************************************************)
(* The shape of the B+ tree of src/src/storage_engine/bplus.c: what a      *)
(* change of one node, of two siblings or of a page leaves of the          *)
(* conditions that BPlusTreeInv.tla puts together. A node is divided in    *)
(* two, two nodes become one, the root is replaced, a key is raised along  *)
(* the way to the root: each is shown to keep the shape, whatever the      *)
(* operation that does it. And the way the search for a key takes through  *)
(* it.                                                                     *)
(***************************************************************************)
EXTENDS BPlusTreeInv, Loops, FiniteSetTheorems, TLAPS

(***************************************************************************)
(* Sequences, item by item.                                                *)
(***************************************************************************)
LEMMA SubSeqItems ==
  ASSUME NEW S, NEW s \in Seq(S), NEW i \in Nat \ {0}, NEW j \in Nat, i <= j + 1, j <= Len(s)
  PROVE  /\ SubSeq(s, i, j) \in Seq(S) /\ Len(SubSeq(s, i, j)) = j - i + 1
         /\ \A m \in 1 .. (j - i + 1) : SubSeq(s, i, j)[m] = s[i + m - 1]
OBVIOUS

LEMMA ConcatItems ==
  ASSUME NEW S, NEW s \in Seq(S), NEW r \in Seq(S)
  PROVE  /\ s \o r \in Seq(S) /\ Len(s \o r) = Len(s) + Len(r)
         /\ \A m \in 1 .. (Len(s) + Len(r)) :
              (s \o r)[m] = IF m <= Len(s) THEN s[m] ELSE r[m - Len(s)]
OBVIOUS

LEMMA InsertAtItems ==
  ASSUME NEW S, NEW s \in Seq(S), NEW e \in S, NEW i \in 1 .. (Len(s) + 1)
  PROVE  /\ InsertAt(s, i, e) \in Seq(S) /\ Len(InsertAt(s, i, e)) = Len(s) + 1
         /\ \A m \in 1 .. (Len(s) + 1) :
              InsertAt(s, i, e)[m] = IF m < i THEN s[m] ELSE IF m = i THEN e ELSE s[m - 1]
<1> DEFINE l == SubSeq(s, 1, i - 1)
           r == SubSeq(s, i, Len(s))
           le == l \o <<e>>
<1>1. /\ l \in Seq(S) /\ Len(l) = i - 1 /\ \A m \in 1 .. (i - 1) : l[m] = s[m]
  BY SubSeqItems
<1>2. /\ r \in Seq(S) /\ Len(r) = Len(s) - i + 1
      /\ \A m \in 1 .. (Len(s) - i + 1) : r[m] = s[i + m - 1]
  BY SubSeqItems
<1>3. <<e>> \in Seq(S) /\ Len(<<e>>) = 1 /\ <<e>>[1] = e
  OBVIOUS
<1>. HIDE DEF l, r
<1>4. /\ le \in Seq(S) /\ Len(le) = i
      /\ \A m \in 1 .. i : le[m] = IF m < i THEN s[m] ELSE e
  <2>1. /\ le \in Seq(S) /\ Len(le) = Len(l) + Len(<<e>>)
        /\ \A m \in 1 .. (Len(l) + Len(<<e>>)) : le[m] = IF m <= Len(l) THEN l[m] ELSE <<e>>[m - Len(l)]
    BY <1>1, <1>3, ConcatItems
  <2>. HIDE DEF le
  <2>2. ASSUME NEW m \in 1 .. i PROVE le[m] = IF m < i THEN s[m] ELSE e
    BY <2>1, <1>1, <1>3
  <2>. QED
    BY <2>1, <2>2, <1>1, <1>3
<1>. HIDE DEF le
<1>5. /\ le \o r \in Seq(S) /\ Len(le \o r) = Len(le) + Len(r)
      /\ \A m \in 1 .. (Len(le) + Len(r)) : (le \o r)[m] = IF m <= Len(le) THEN le[m] ELSE r[m - Len(le)]
  BY <1>4, <1>2, ConcatItems
<1>6. InsertAt(s, i, e) = le \o r
  BY DEF InsertAt, le, l, r
<1>7. ASSUME NEW m \in 1 .. (Len(s) + 1)
      PROVE  (le \o r)[m] = IF m < i THEN s[m] ELSE IF m = i THEN e ELSE s[m - 1]
  <2>1. CASE m <= i
    BY <2>1, <1>4, <1>5, <1>2
  <2>2. CASE m > i
    <3>1. (le \o r)[m] = r[m - i] /\ m - i \in 1 .. (Len(s) - i + 1)
      BY <2>2, <1>4, <1>5, <1>2
    <3>2. r[m - i] = s[i + (m - i) - 1] /\ i + (m - i) - 1 = m - 1
      BY <1>2, <3>1
    <3>. QED
      BY <3>1, <3>2, <2>2
  <2>3. m <= i \/ m > i
    OBVIOUS
  <2>. QED
    BY <2>1, <2>2, <2>3
<1>. QED
  BY <1>5, <1>6, <1>7, <1>4, <1>2

LEMMA RemoveAtItems ==
  ASSUME NEW S, NEW s \in Seq(S), NEW i \in 1 .. Len(s)
  PROVE  /\ RemoveAt(s, i) \in Seq(S) /\ Len(RemoveAt(s, i)) = Len(s) - 1
         /\ \A m \in 1 .. (Len(s) - 1) : RemoveAt(s, i)[m] = IF m < i THEN s[m] ELSE s[m + 1]
<1> DEFINE l == SubSeq(s, 1, i - 1)
           r == SubSeq(s, i + 1, Len(s))
<1>1. /\ l \in Seq(S) /\ Len(l) = i - 1 /\ \A m \in 1 .. (i - 1) : l[m] = s[m]
  BY SubSeqItems
<1>2. /\ r \in Seq(S) /\ Len(r) = Len(s) - i
      /\ \A m \in 1 .. (Len(s) - i) : r[m] = s[i + m]
  BY SubSeqItems
<1>. HIDE DEF l, r
<1>5. /\ l \o r \in Seq(S) /\ Len(l \o r) = Len(l) + Len(r)
      /\ \A m \in 1 .. (Len(l) + Len(r)) : (l \o r)[m] = IF m <= Len(l) THEN l[m] ELSE r[m - Len(l)]
  BY <1>1, <1>2, ConcatItems
<1>6. RemoveAt(s, i) = l \o r
  BY DEF RemoveAt, l, r
<1>7. ASSUME NEW m \in 1 .. (Len(s) - 1)
      PROVE  (l \o r)[m] = IF m < i THEN s[m] ELSE s[m + 1]
  <2>1. CASE m < i
    BY <2>1, <1>1, <1>5, <1>2
  <2>2. CASE m >= i
    <3>1. (l \o r)[m] = r[m - (i - 1)] /\ m - (i - 1) \in 1 .. (Len(s) - i)
      BY <2>2, <1>1, <1>5, <1>2
    <3>2. r[m - (i - 1)] = s[i + (m - (i - 1))] /\ i + (m - (i - 1)) = m + 1
      BY <1>2, <3>1
    <3>. QED
      BY <3>1, <3>2, <2>2
  <2>3. m < i \/ m >= i
    OBVIOUS
  <2>. QED
    BY <2>1, <2>2, <2>3
<1>. QED
  BY <1>5, <1>6, <1>7, <1>1, <1>2

LEMMA AppendItems ==
  ASSUME NEW S, NEW s \in Seq(S), NEW e \in S
  PROVE  /\ Append(s, e) \in Seq(S) /\ Len(Append(s, e)) = Len(s) + 1
         /\ \A m \in 1 .. (Len(s) + 1) : Append(s, e)[m] = IF m <= Len(s) THEN s[m] ELSE e
OBVIOUS

LEMMA ConsItems ==
  ASSUME NEW S, NEW s \in Seq(S), NEW e \in S
  PROVE  /\ <<e>> \o s \in Seq(S) /\ Len(<<e>> \o s) = Len(s) + 1
         /\ \A m \in 1 .. (Len(s) + 1) : (<<e>> \o s)[m] = IF m = 1 THEN e ELSE s[m - 1]
OBVIOUS

LEMMA TailItems ==
  ASSUME NEW S, NEW s \in Seq(S), Len(s) >= 1
  PROVE  /\ Tail(s) \in Seq(S) /\ Len(Tail(s)) = Len(s) - 1 /\ Head(s) = s[1] /\ s[1] \in S
         /\ \A m \in 1 .. (Len(s) - 1) : Tail(s)[m] = s[m + 1]
<1>1. s # <<>>
  OBVIOUS
<1>. QED
  BY <1>1

LEMMA FrontItems ==
  ASSUME NEW S, NEW s \in Seq(S), Len(s) >= 1
  PROVE  /\ Front(s) \in Seq(S) /\ Len(Front(s)) = Len(s) - 1 /\ Last(s) = s[Len(s)]
         /\ s[Len(s)] \in S
         /\ \A m \in 1 .. (Len(s) - 1) : Front(s)[m] = s[m]
<1>1. Front(s) = SubSeq(s, 1, Len(s) - 1) /\ Last(s) = s[Len(s)]
  BY DEF Front, Last
<1>2. PICK j \in Nat : j = Len(s) - 1
  OBVIOUS
<1>3. /\ SubSeq(s, 1, j) \in Seq(S) /\ Len(SubSeq(s, 1, j)) = j
      /\ \A m \in 1 .. j : SubSeq(s, 1, j)[m] = s[m]
  <2>1. 1 \in Nat \ {0} /\ 1 <= j + 1 /\ j <= Len(s)
    BY <1>2
  <2>2. /\ SubSeq(s, 1, j) \in Seq(S) /\ Len(SubSeq(s, 1, j)) = j - 1 + 1
        /\ \A m \in 1 .. (j - 1 + 1) : SubSeq(s, 1, j)[m] = s[1 + m - 1]
    BY <2>1, SubSeqItems
  <2>3. j - 1 + 1 = j /\ \A m \in 1 .. j : 1 + m - 1 = m
    OBVIOUS
  <2>. QED
    BY <2>2, <2>3
<1>4. s[Len(s)] \in S
  OBVIOUS
<1>. QED
  BY <1>1, <1>2, <1>3, <1>4

LEMMA ChangedItems ==
  ASSUME NEW S, NEW s \in Seq(S), NEW i \in 1 .. Len(s), NEW e \in S
  PROVE  /\ [s EXCEPT ![i] = e] \in Seq(S) /\ Len([s EXCEPT ![i] = e]) = Len(s)
         /\ \A m \in 1 .. Len(s) : [s EXCEPT ![i] = e][m] = IF m = i THEN e ELSE s[m]
OBVIOUS

(***************************************************************************)
(* The operators on trees and nodes.                                       *)
(***************************************************************************)
\* A function is what it gives.
IsMap(f) == f = [x \in DOMAIN f |-> f[x]]

LEMMA Marked ==
  ASSUME NEW t, Formed(t), NEW a, NEW n
  PROVE  LET v == MarkNode(t, a, n) IN
         /\ Formed(v) /\ v.root = t.root /\ v.page = t.page
         /\ IsMap(v.node) /\ DOMAIN v.node = DOMAIN t.node \union {a}
         /\ v.node[a] = n /\ \A x \in DOMAIN t.node : x # a => v.node[x] = t.node[x]
<1> DEFINE f == [x \in DOMAIN t.node \union {a} |-> IF x = a THEN n ELSE t.node[x]]
           v == MarkNode(t, a, n)
<1>1. v = [root |-> t.root, page |-> t.page, node |-> f]
  BY DEF MarkNode, With, Formed
<1>2. /\ IsMap(f) /\ DOMAIN f = DOMAIN t.node \union {a}
      /\ f[a] = n /\ \A x \in DOMAIN t.node : x # a => f[x] = t.node[x]
  BY DEF IsMap
<1>. HIDE DEF f, v
<1>3. v.root = t.root /\ v.page = t.page /\ v.node = f /\ v = [root |-> v.root, node |-> v.node, page |-> v.page]
  BY <1>1
<1>. QED
  BY <1>2, <1>3, Zenon DEF v, Formed

LEMMA PageMarked ==
  ASSUME NEW t, Formed(t), NEW a, NEW p
  PROVE  LET v == MarkPage(t, a, p) IN
         /\ Formed(v) /\ v.root = t.root /\ v.node = t.node
         /\ IsMap(v.page) /\ DOMAIN v.page = DOMAIN t.page \union {a}
         /\ v.page[a] = p /\ \A x \in DOMAIN t.page : x # a => v.page[x] = t.page[x]
<1> DEFINE f == [x \in DOMAIN t.page \union {a} |-> IF x = a THEN p ELSE t.page[x]]
           v == MarkPage(t, a, p)
<1>1. v = [root |-> t.root, page |-> f, node |-> t.node]
  BY DEF MarkPage, With, Formed
<1>2. /\ IsMap(f) /\ DOMAIN f = DOMAIN t.page \union {a}
      /\ f[a] = p /\ \A x \in DOMAIN t.page : x # a => f[x] = t.page[x]
  BY DEF IsMap
<1>. HIDE DEF f, v
<1>3. v.root = t.root /\ v.page = f /\ v.node = t.node /\ v = [root |-> v.root, node |-> v.node, page |-> v.page]
  BY <1>1
<1>. QED
  BY <1>2, <1>3, Zenon DEF v, Formed

LEMMA Deleted ==
  ASSUME NEW t, Formed(t), NEW a
  PROVE  LET v == DeleteNode(t, a) IN
         /\ Formed(v) /\ v.root = t.root /\ v.page = t.page
         /\ IsMap(v.node) /\ DOMAIN v.node = DOMAIN t.node \ {a}
         /\ \A x \in DOMAIN t.node : x # a => v.node[x] = t.node[x]
<1> DEFINE f == [x \in DOMAIN t.node \ {a} |-> t.node[x]]
           v == DeleteNode(t, a)
<1>1. v = [root |-> t.root, page |-> t.page, node |-> f]
  BY DEF DeleteNode, Restrict, Formed
<1>2. IsMap(f) /\ DOMAIN f = DOMAIN t.node \ {a} /\ \A x \in DOMAIN t.node : x # a => f[x] = t.node[x]
  BY DEF IsMap
<1>. HIDE DEF f, v
<1>3. v.root = t.root /\ v.page = t.page /\ v.node = f /\ v = [root |-> v.root, node |-> v.node, page |-> v.page]
  BY <1>1
<1>. QED
  BY <1>2, <1>3, Zenon DEF v, Formed

LEMMA PageDeleted ==
  ASSUME NEW t, Formed(t), NEW a
  PROVE  LET v == DeletePageObject(t, a) IN
         /\ Formed(v) /\ v.root = t.root /\ v.node = t.node
         /\ IsMap(v.page) /\ DOMAIN v.page = DOMAIN t.page \ {a}
         /\ \A x \in DOMAIN t.page : x # a => v.page[x] = t.page[x]
<1> DEFINE f == [x \in DOMAIN t.page \ {a} |-> t.page[x]]
           v == DeletePageObject(t, a)
<1>1. v = [root |-> t.root, page |-> f, node |-> t.node]
  BY DEF DeletePageObject, Restrict, Formed
<1>2. IsMap(f) /\ DOMAIN f = DOMAIN t.page \ {a} /\ \A x \in DOMAIN t.page : x # a => f[x] = t.page[x]
  BY DEF IsMap
<1>. HIDE DEF f, v
<1>3. v.root = t.root /\ v.page = f /\ v.node = t.node /\ v = [root |-> v.root, node |-> v.node, page |-> v.page]
  BY <1>1
<1>. QED
  BY <1>2, <1>3, Zenon DEF v, Formed

LEMMA Adopted ==
  ASSUME NEW t, Formed(t), NEW A, NEW a
  PROVE  LET v == Adopt(t, A, a) IN
         /\ Formed(v) /\ v.root = t.root /\ v.page = t.page
         /\ IsMap(v.node) /\ DOMAIN v.node = DOMAIN t.node
         /\ \A x \in DOMAIN t.node :
              v.node[x] = IF x \in A THEN [t.node[x] EXCEPT !.parent = a] ELSE t.node[x]
<1> DEFINE f == [b \in DOMAIN t.node |-> IF b \in A THEN [t.node[b] EXCEPT !.parent = a] ELSE t.node[b]]
           v == Adopt(t, A, a)
<1>1. v = [root |-> t.root, page |-> t.page, node |-> f]
  BY DEF Adopt, Formed
<1>2. IsMap(f) /\ DOMAIN f = DOMAIN t.node
      /\ \A x \in DOMAIN t.node : f[x] = IF x \in A THEN [t.node[x] EXCEPT !.parent = a] ELSE t.node[x]
  BY DEF IsMap
<1>. HIDE DEF f, v
<1>3. v.root = t.root /\ v.page = t.page /\ v.node = f /\ v = [root |-> v.root, node |-> v.node, page |-> v.page]
  BY <1>1
<1>. QED
  BY <1>2, <1>3, Zenon DEF v, Formed

\* Trees with the same parts are the same.
LEMMA SameTree ==
  ASSUME NEW v, NEW w, Formed(v), Formed(w), v.root = w.root, v.page = w.page,
         IsMap(v.node), IsMap(w.node), DOMAIN v.node = DOMAIN w.node,
         \A x \in DOMAIN v.node : v.node[x] = w.node[x]
  PROVE  v = w
<1>1. v.node = w.node
  BY DEF IsMap
<1>. QED
  BY <1>1, Zenon DEF Formed

LEMMA PositionIs ==
  ASSUME NEW S, NEW s \in Seq(S), NEW i \in 1 .. Len(s),
         \A j, m \in 1 .. Len(s) : s[j] = s[m] => j = m
  PROVE  Position(s, s[i]) = i
<1>1. s[i] \in ToSet(s)
  BY DEF ToSet
<1>2. \A j \in DOMAIN s : s[j] = s[i] => j = i
  OBVIOUS
<1>. QED
  BY <1>1, <1>2 DEF Position

LEMMA MinIs ==
  ASSUME NEW S \in SUBSET Nat, S # {}
  PROVE  Min(S) \in S /\ \A x \in S : Min(S) <= x
BY LeastNumber DEF Min

LEMMA MaxIs ==
  ASSUME NEW S \in SUBSET Nat, S # {}, IsFiniteSet(S)
  PROVE  Max(S) \in S /\ \A x \in S : x <= Max(S)
<1> DEFINE U == {n \in Nat : \E m \in S : \A x \in S : x <= m + n}
<1>1. PICK n \in Nat : \A x \in S : x <= n
  <2> DEFINE Bounded(T) == \E n \in Nat : \A x \in T : x <= n
             C == {c \in Nat : \A T \in SUBSET S : IsFiniteSet(T) /\ Cardinality(T) = c => Bounded(T)}
  <2>1. 0 \in C
    <3>1. ASSUME NEW T \in SUBSET S, IsFiniteSet(T), Cardinality(T) = 0 PROVE Bounded(T)
      BY <3>1, FS_EmptySet
    <3>. QED
      BY <3>1
  <2>2. ASSUME NEW c \in Nat \ {0}, c - 1 \in C PROVE c \in C
    <3>1. ASSUME NEW T \in SUBSET S, IsFiniteSet(T), Cardinality(T) = c PROVE Bounded(T)
      <4>1. PICK x \in T : TRUE
        BY <3>1, FS_EmptySet
      <4>2. IsFiniteSet(T \ {x}) /\ Cardinality(T \ {x}) = c - 1
        BY <3>1, <4>1, FS_RemoveElement
      <4>3. PICK n \in Nat : \A y \in T \ {x} : y <= n
        BY <2>2, <4>2
      <4>4. x \in Nat /\ n + x \in Nat /\ \A y \in T : y <= n + x
        BY <4>1, <4>3
      <4>. QED
        BY <4>4
    <3>. QED
      BY <3>1
  <2>. HIDE DEF C
  <2>3. Nat \subseteq C
    BY <2>1, <2>2, Counting
  <2>4. Cardinality(S) \in C
    BY <2>3, FS_CardinalityType
  <2>. QED
    BY <2>4 DEF C
<1>2. PICK l \in U : \A m \in U : l <= m
  <2>1. PICK x \in S : TRUE
    OBVIOUS
  <2>2. \A y \in S : y <= x + n
    BY <1>1, <2>1
  <2>3. U # {}
    BY <2>1, <2>2
  <2>. HIDE DEF U
  <2>. QED
    BY <2>3, LeastNumber, U \subseteq Nat DEF U
<1>3. PICK m \in S : \A x \in S : x <= m + l
  BY <1>2
<1>4. CASE l = 0
  <2>1. \A x \in S : m >= x
    BY <1>3, <1>4
  <2>2. \A y \in S : (\A x \in S : y >= x) => \A x \in S : x <= y
    OBVIOUS
  <2>. QED
    BY <2>1, <2>2 DEF Max
<1>5. CASE l # 0
  <2>1. \A x \in S : x <= m + (l - 1)
    <3>1. CASE \E x \in S : x = m + l
      <4>1. PICK x \in S : x = m + l
        BY <3>1
      <4>2. \A y \in S : y <= x + 0
        BY <1>3, <4>1
      <4>3. 0 \in U
        BY <4>2
      <4>. QED
        BY <1>2, <1>5, <4>3
    <3>2. CASE ~\E x \in S : x = m + l
      BY <1>3, <3>2
    <3>. QED
      BY <3>1, <3>2
  <2>2. l \in Nat /\ l - 1 \in Nat
    BY <1>5
  <2>3. l - 1 \in U
    BY <2>1, <2>2
  <2>. HIDE DEF U
  <2>4. l <= l - 1
    BY <1>2, <2>3
  <2>. QED
    BY <2>2, <2>4
<1>. QED
  BY <1>4, <1>5

\* The key at i is the first of s that is above k, or i is one past the last.
AboveAt(s, k, i) ==
  /\ i \in 1 .. (Len(s) + 1) /\ (i <= Len(s) => s[i] > k)
  /\ \A j \in 1 .. Len(s) : j < i => s[j] <= k

LEMMA FirstAboveIs ==
  ASSUME NEW s \in Seq(Nat), NEW k \in Nat
  PROVE  AboveAt(s, k, FirstAbove(s, k))
<1> DEFINE i == FirstAbove(s, k)
           S == {j \in DOMAIN s : s[j] > k} \union {Len(s) + 1}
<1>1. S \in SUBSET Nat /\ S # {}
  OBVIOUS
<1>2. Min(S) \in S /\ \A x \in S : Min(S) <= x
  <2>. HIDE DEF S
  <2>. QED
    BY <1>1, MinIs
<1>3. i = Min(S)
  BY DEF FirstAbove
<1>. HIDE DEF i
<1>4. i \in S /\ \A x \in S : i <= x
  <2>. HIDE DEF S
  <2>. QED
    BY <1>2, <1>3
<1>5. i \in 1 .. (Len(s) + 1) /\ (i <= Len(s) => s[i] > k)
  BY <1>4
<1>6. ASSUME NEW j \in 1 .. Len(s), j < i PROVE s[j] <= k
  <2>1. j \notin S
    BY <1>4, <1>5, <1>6
  <2>. QED
    BY <2>1
<1>7. AboveAt(s, k, i)
  BY <1>5, <1>6 DEF AboveAt
<1>. QED
  BY <1>7 DEF i

\* The key at i is the first of s that is not below k, or i is one past the last.
NotBelowAt(s, k, i) ==
  /\ i \in 1 .. (Len(s) + 1) /\ (i <= Len(s) => s[i] >= k)
  /\ \A j \in 1 .. Len(s) : j < i => s[j] < k

LEMMA FirstNotBelowIs ==
  ASSUME NEW s \in Seq(Nat), NEW k \in Nat
  PROVE  NotBelowAt(s, k, FirstNotBelow(s, k))
<1> DEFINE i == FirstNotBelow(s, k)
           S == {j \in DOMAIN s : s[j] >= k} \union {Len(s) + 1}
<1>1. S \in SUBSET Nat /\ S # {}
  OBVIOUS
<1>2. Min(S) \in S /\ \A x \in S : Min(S) <= x
  <2>. HIDE DEF S
  <2>. QED
    BY <1>1, MinIs
<1>3. i = Min(S)
  BY DEF FirstNotBelow
<1>. HIDE DEF i
<1>4. i \in S /\ \A x \in S : i <= x
  <2>. HIDE DEF S
  <2>. QED
    BY <1>2, <1>3
<1>5. i \in 1 .. (Len(s) + 1) /\ (i <= Len(s) => s[i] >= k)
  BY <1>4
<1>6. ASSUME NEW j \in 1 .. Len(s), j < i PROVE s[j] < k
  <2>1. j \notin S
    BY <1>4, <1>5, <1>6
  <2>. QED
    BY <2>1
<1>7. NotBelowAt(s, k, i)
  BY <1>5, <1>6 DEF NotBelowAt
<1>. QED
  BY <1>7 DEF i

LEMMA FreeAddressIs ==
  ASSUME NEW S \in SUBSET Nat, IsFiniteSet(S)
  PROVE  FreeAddress(S) \in Nat \ {0} /\ FreeAddress(S) \notin S
<1>1. PICK n \in Nat : n = Cardinality(S)
  BY FS_CardinalityType
<1>2. PICK b \in 1 .. (n + 1) : b \notin S
  <2>1. SUFFICES ASSUME 1 .. (n + 1) \subseteq S PROVE FALSE
    OBVIOUS
  <2>2. IsFiniteSet(1 .. (n + 1)) /\ Cardinality(1 .. (n + 1)) = n + 1
    BY FS_Interval
  <2>3. Cardinality(1 .. (n + 1)) <= n
    BY <2>1, <1>1, FS_Subset
  <2>. QED
    BY <2>2, <2>3
<1> DEFINE F == {a \in 1 .. (n + 1) : a \notin S}
<1>3. PICK a \in F : \A y \in F : a <= y
  BY <1>2, LeastNumber, F \in SUBSET Nat, F # {}
<1>4. a \notin S /\ 1 .. (a - 1) \subseteq S
  BY <1>3
<1>. QED
  BY <1>1, <1>3, <1>4 DEF FreeAddress

\* What is above its predecessor is above all before it.
LEMMA Ascending ==
  ASSUME NEW s \in Seq(Nat), \A i \in 1 .. (Len(s) - 1) : s[i] < s[i + 1]
  PROVE  \A i, j \in 1 .. Len(s) : i < j => s[i] < s[j]
<1>1. SUFFICES ASSUME NEW i \in 1 .. Len(s) PROVE \A j \in 1 .. Len(s) : i < j => s[i] < s[j]
  OBVIOUS
<1> DEFINE n == Len(s) - i - 1
           T == {d \in 0 .. n : s[i] < s[i + 1 + d]}
<1>2. CASE i = Len(s)
  BY <1>2
<1>3. CASE i < Len(s)
  <2>1. n \in Nat
    BY <1>3
  <2>2. 0 \in T
    BY <1>3
  <2>3. ASSUME NEW d \in 1 .. n, d - 1 \in T PROVE d \in T
    <3>1. i + 1 + (d - 1) = i + d /\ i + d \in 1 .. (Len(s) - 1) /\ i + d + 1 = i + 1 + d
      OBVIOUS
    <3>2. s[i] < s[i + d]
      BY <2>3, <3>1
    <3>3. s[i + d] < s[i + d + 1]
      BY <3>1
    <3>4. s[i] \in Nat /\ s[i + d] \in Nat /\ s[i + d + 1] \in Nat
      BY <3>1
    <3>5. s[i] < s[i + 1 + d]
      BY <3>1, <3>2, <3>3, <3>4
    <3>. QED
      BY <3>5
  <2>. HIDE DEF T
  <2>4. 0 .. n \subseteq T
    BY <2>1, <2>2, <2>3, CountingUpTo
  <2>5. ASSUME NEW j \in 1 .. Len(s), i < j PROVE s[i] < s[j]
    <3>1. j - i - 1 \in 0 .. n /\ i + 1 + (j - i - 1) = j
      BY <2>5
    <3>. QED
      BY <3>1, <2>4 DEF T
  <2>. QED
    BY <2>5
<1>. QED
  BY <1>2, <1>3

\* The search goes down from the root.
Descent(f, m, t, k) == f = [i \in 0 .. m |-> IF i = 0 THEN t.root ELSE ChildFor(t, f[i - 1], k)]

LEMMA DescentRuns ==
  ASSUME NEW n \in Nat, NEW t, NEW k
  PROVE  \E f : Descent(f, n, t, k)
<1> DEFINE T == {m \in 0 .. n : \E f : Descent(f, m, t, k)}
<1>1. 0 \in T
  <2>1. Descent([i \in 0 .. 0 |-> t.root], 0, t, k)
    BY DEF Descent
  <2>. QED
    BY <2>1
<1>2. ASSUME NEW m \in 1 .. n, m - 1 \in T PROVE m \in T
  <2>1. PICK f : Descent(f, m - 1, t, k)
    BY <1>2
  <2> DEFINE g == [i \in 0 .. m |-> IF i = m THEN ChildFor(t, f[m - 1], k) ELSE f[i]]
  <2>2. ASSUME NEW i \in 0 .. m PROVE g[i] = IF i = 0 THEN t.root ELSE ChildFor(t, g[i - 1], k)
    <3>1. CASE i = m
      <4>1. i - 1 \in 0 .. m /\ i - 1 # m /\ i # 0
        BY <3>1
      <4>2. g[i - 1] = f[m - 1]
        BY <3>1, <4>1
      <4>. QED
        BY <3>1, <4>1, <4>2
    <3>2. CASE i # m /\ i # 0
      <4>1. i \in 0 .. (m - 1) /\ i - 1 \in 0 .. m /\ i - 1 # m
        BY <3>2
      <4>2. g[i - 1] = f[i - 1] /\ g[i] = f[i]
        BY <3>2, <4>1
      <4>3. f[i] = ChildFor(t, f[i - 1], k)
        BY <2>1, <3>2, <4>1 DEF Descent
      <4>. QED
        BY <3>2, <4>2, <4>3
    <3>3. CASE i = 0
      BY <2>1, <3>3 DEF Descent
    <3>. QED
      BY <3>1, <3>2, <3>3
  <2>3. Descent(g, m, t, k)
    BY <2>2, Zenon DEF Descent
  <2>. HIDE DEF g
  <2>. QED
    BY <2>3
<1>. HIDE DEF T
<1>3. 0 .. n \subseteq T
  BY <1>1, <1>2, CountingUpTo
<1>4. n \in T
  BY <1>3
<1>. QED
  BY <1>4 DEF T

LEMMA FindLeafRuns ==
  ASSUME NEW t, NEW k, NEW n \in Nat, n = Cardinality(DOMAIN t.node)
  PROVE  \E f : /\ FindLeaf(t, k) = f[n]
                /\ f = [i \in 0 .. n |-> f[i]] /\ f[0] = t.root
                /\ \A i \in 1 .. n : f[i] = ChildFor(t, f[i - 1], k)
<1> DEFINE after == CHOOSE g : Descent(g, Cardinality(DOMAIN t.node), t, k)
<1>1. \E g : Descent(g, Cardinality(DOMAIN t.node), t, k)
  BY DescentRuns
<1>2. Descent(after, Cardinality(DOMAIN t.node), t, k)
  BY <1>1, Zenon
<1>3. FindLeaf(t, k) = after[n]
  BY Zenon DEF Descent, FindLeaf, Rounds
<1>. HIDE DEF after
<1>4. after = [i \in 0 .. n |-> after[i]] /\ after[0] = t.root
      /\ \A i \in 1 .. n : after[i] = ChildFor(t, after[i - 1], k)
  <2>1. after = [i \in 0 .. n |-> IF i = 0 THEN t.root ELSE ChildFor(t, after[i - 1], k)]
    BY <1>2, Zenon DEF Descent
  <2>2. ASSUME NEW i \in 0 .. n PROVE after[i] = IF i = 0 THEN t.root ELSE ChildFor(t, after[i - 1], k)
    BY <2>1, Zenon
  <2>3. 0 \in 0 .. n /\ \A i \in 1 .. n : i \in 0 .. n /\ i # 0
    OBVIOUS
  <2>4. after = [i \in 0 .. n |-> after[i]]
    BY <2>1, <2>2, Zenon
  <2>. QED
    BY <2>2, <2>3, <2>4, Zenon
<1>. QED
  BY <1>3, <1>4, Zenon

\* So does the way to the first leaf.
Leftmost(f, m, t) == f = [i \in 0 .. m |-> IF i = 0 THEN t.root ELSE (IF t.node[f[i - 1]].leaf THEN f[i - 1] ELSE Head(t.node[f[i - 1]].kids))]

LEMMA LeftmostRuns ==
  ASSUME NEW n \in Nat, NEW t
  PROVE  \E f : Leftmost(f, n, t)
<1> DEFINE T == {m \in 0 .. n : \E f : Leftmost(f, m, t)}
<1>1. 0 \in T
  <2>1. Leftmost([i \in 0 .. 0 |-> t.root], 0, t)
    BY DEF Leftmost
  <2>. QED
    BY <2>1
<1>2. ASSUME NEW m \in 1 .. n, m - 1 \in T PROVE m \in T
  <2>1. PICK f : Leftmost(f, m - 1, t)
    BY <1>2
  <2> DEFINE g == [i \in 0 .. m |-> IF i = m THEN (IF t.node[f[m - 1]].leaf THEN f[m - 1] ELSE Head(t.node[f[m - 1]].kids)) ELSE f[i]]
  <2>2. ASSUME NEW i \in 0 .. m PROVE g[i] = IF i = 0 THEN t.root ELSE (IF t.node[g[i - 1]].leaf THEN g[i - 1] ELSE Head(t.node[g[i - 1]].kids))
    <3>1. CASE i = m
      <4>1. i - 1 \in 0 .. m /\ i - 1 # m /\ i # 0
        BY <3>1
      <4>2. g[i - 1] = f[m - 1]
        BY <3>1, <4>1
      <4>. QED
        BY <3>1, <4>1, <4>2
    <3>2. CASE i # m /\ i # 0
      <4>1. i \in 0 .. (m - 1) /\ i - 1 \in 0 .. m /\ i - 1 # m
        BY <3>2
      <4>2. g[i - 1] = f[i - 1] /\ g[i] = f[i]
        BY <3>2, <4>1
      <4>3. f[i] = (IF t.node[f[i - 1]].leaf THEN f[i - 1] ELSE Head(t.node[f[i - 1]].kids))
        BY <2>1, <3>2, <4>1 DEF Leftmost
      <4>. QED
        BY <3>2, <4>2, <4>3
    <3>3. CASE i = 0
      <4>1. f[0] = t.root
        BY <2>1 DEF Leftmost
      <4>2. g[0] = f[0]
        BY <1>2
      <4>. QED
        BY <3>3, <4>1, <4>2
    <3>. QED
      BY <3>1, <3>2, <3>3
  <2>3. Leftmost(g, m, t)
    BY <2>2, Zenon DEF Leftmost
  <2>. HIDE DEF g
  <2>. QED
    BY <2>3
<1>. HIDE DEF T
<1>3. 0 .. n \subseteq T
  BY <1>1, <1>2, CountingUpTo
<1>4. n \in T
  BY <1>3
<1>. QED
  BY <1>4 DEF T

LEMMA LeftmostLeafRuns ==
  ASSUME NEW t, NEW n \in Nat, n = Cardinality(DOMAIN t.node)
  PROVE  \E f : /\ LeftmostLeaf(t) = f[n]
                /\ f = [i \in 0 .. n |-> f[i]] /\ f[0] = t.root
                /\ \A i \in 1 .. n : f[i] = (IF t.node[f[i - 1]].leaf THEN f[i - 1] ELSE Head(t.node[f[i - 1]].kids))
<1> DEFINE after == CHOOSE g : Leftmost(g, Cardinality(DOMAIN t.node), t)
<1>1. \E g : Leftmost(g, Cardinality(DOMAIN t.node), t)
  BY LeftmostRuns
<1>2. Leftmost(after, Cardinality(DOMAIN t.node), t)
  BY <1>1, Zenon
<1>3. LeftmostLeaf(t) = after[n]
  BY Zenon DEF Leftmost, LeftmostLeaf, Rounds
<1>. HIDE DEF after
<1>4. after = [i \in 0 .. n |-> after[i]] /\ after[0] = t.root
      /\ \A i \in 1 .. n : after[i] = (IF t.node[after[i - 1]].leaf THEN after[i - 1] ELSE Head(t.node[after[i - 1]].kids))
  <2>1. after = [i \in 0 .. n |-> IF i = 0 THEN t.root ELSE (IF t.node[after[i - 1]].leaf THEN after[i - 1] ELSE Head(t.node[after[i - 1]].kids))]
    BY <1>2, Zenon DEF Leftmost
  <2>2. ASSUME NEW i \in 0 .. n PROVE after[i] = IF i = 0 THEN t.root ELSE (IF t.node[after[i - 1]].leaf THEN after[i - 1] ELSE Head(t.node[after[i - 1]].kids))
    BY <2>1, Zenon
  <2>3. 0 \in 0 .. n /\ \A i \in 1 .. n : i \in 0 .. n /\ i # 0
    OBVIOUS
  <2>4. after = [i \in 0 .. n |-> after[i]]
    BY <2>1, <2>2, Zenon
  <2>. QED
    BY <2>2, <2>3, <2>4, Zenon
<1>. QED
  BY <1>3, <1>4, Zenon

\* The climb with a new largest key.
Raise(f, m, s, k) == f = [i \in 0 .. m |-> IF i = 0 THEN s ELSE RaiseParent(f[i - 1], k)]

LEMMA RaiseRuns ==
  ASSUME NEW n \in Nat, NEW s, NEW k
  PROVE  \E f : Raise(f, n, s, k)
<1> DEFINE T == {m \in 0 .. n : \E f : Raise(f, m, s, k)}
<1>1. 0 \in T
  <2>1. Raise([i \in 0 .. 0 |-> s], 0, s, k)
    BY DEF Raise
  <2>. QED
    BY <2>1
<1>2. ASSUME NEW m \in 1 .. n, m - 1 \in T PROVE m \in T
  <2>1. PICK f : Raise(f, m - 1, s, k)
    BY <1>2
  <2> DEFINE g == [i \in 0 .. m |-> IF i = m THEN RaiseParent(f[m - 1], k) ELSE f[i]]
  <2>2. ASSUME NEW i \in 0 .. m PROVE g[i] = IF i = 0 THEN s ELSE RaiseParent(g[i - 1], k)
    <3>1. CASE i = m
      <4>1. i - 1 \in 0 .. m /\ i - 1 # m /\ i # 0
        BY <3>1
      <4>2. g[i - 1] = f[m - 1]
        BY <3>1, <4>1
      <4>. QED
        BY <3>1, <4>1, <4>2
    <3>2. CASE i # m /\ i # 0
      <4>1. i \in 0 .. (m - 1) /\ i - 1 \in 0 .. m /\ i - 1 # m
        BY <3>2
      <4>2. g[i - 1] = f[i - 1] /\ g[i] = f[i]
        BY <3>2, <4>1
      <4>3. f[i] = RaiseParent(f[i - 1], k)
        BY <2>1, <3>2, <4>1 DEF Raise
      <4>. QED
        BY <3>2, <4>2, <4>3
    <3>3. CASE i = 0
      BY <2>1, <3>3 DEF Raise
    <3>. QED
      BY <3>1, <3>2, <3>3
  <2>3. Raise(g, m, s, k)
    BY <2>2, Zenon DEF Raise
  <2>. HIDE DEF g
  <2>. QED
    BY <2>3
<1>. HIDE DEF T
<1>3. 0 .. n \subseteq T
  BY <1>1, <1>2, CountingUpTo
<1>4. n \in T
  BY <1>3
<1>. QED
  BY <1>4 DEF T

LEMMA PropagateRuns ==
  ASSUME NEW t, NEW a, NEW k, NEW n \in Nat, n = Cardinality(DOMAIN t.node)
  PROVE  \E f : /\ PropagateMaxKeyUp(t, a, k) = f[n].tree
                /\ f = [i \in 0 .. n |-> f[i]] /\ f[0] = [tree |-> t, at |-> a]
                /\ \A i \in 1 .. n : f[i] = RaiseParent(f[i - 1], k)
<1> DEFINE after == CHOOSE g : Raise(g, Cardinality(DOMAIN t.node), [tree |-> t, at |-> a], k)
<1>1. \E g : Raise(g, Cardinality(DOMAIN t.node), [tree |-> t, at |-> a], k)
  BY RaiseRuns
<1>2. Raise(after, Cardinality(DOMAIN t.node), [tree |-> t, at |-> a], k)
  BY <1>1, Zenon
<1>3. PropagateMaxKeyUp(t, a, k) = after[n].tree
  BY Zenon DEF Raise, PropagateMaxKeyUp, Rounds
<1>. HIDE DEF after
<1>4. after = [i \in 0 .. n |-> after[i]] /\ after[0] = [tree |-> t, at |-> a]
      /\ \A i \in 1 .. n : after[i] = RaiseParent(after[i - 1], k)
  <2>1. after = [i \in 0 .. n |-> IF i = 0 THEN [tree |-> t, at |-> a] ELSE RaiseParent(after[i - 1], k)]
    BY <1>2, Zenon DEF Raise
  <2>2. ASSUME NEW i \in 0 .. n PROVE after[i] = IF i = 0 THEN [tree |-> t, at |-> a] ELSE RaiseParent(after[i - 1], k)
    BY <2>1, Zenon
  <2>3. 0 \in 0 .. n /\ \A i \in 1 .. n : i \in 0 .. n /\ i # 0
    OBVIOUS
  <2>4. after = [i \in 0 .. n |-> after[i]]
    BY <2>1, <2>2, Zenon
  <2>. QED
    BY <2>2, <2>3, <2>4, Zenon
<1>. QED
  BY <1>3, <1>4, Zenon

\* The climb to the root.
Ascent(f, m, t, a) == f = [i \in 0 .. m |-> IF i = 0 THEN a ELSE (IF f[i - 1] = 0 THEN 0 ELSE t.node[f[i - 1]].parent)]

LEMMA AscentRuns ==
  ASSUME NEW n \in Nat, NEW t, NEW a
  PROVE  \E f : Ascent(f, n, t, a)
<1> DEFINE T == {m \in 0 .. n : \E f : Ascent(f, m, t, a)}
<1>1. 0 \in T
  <2>1. Ascent([i \in 0 .. 0 |-> a], 0, t, a)
    BY DEF Ascent
  <2>. QED
    BY <2>1
<1>2. ASSUME NEW m \in 1 .. n, m - 1 \in T PROVE m \in T
  <2>1. PICK f : Ascent(f, m - 1, t, a)
    BY <1>2
  <2> DEFINE g == [i \in 0 .. m |-> IF i = m THEN (IF f[m - 1] = 0 THEN 0 ELSE t.node[f[m - 1]].parent) ELSE f[i]]
  <2>2. ASSUME NEW i \in 0 .. m PROVE g[i] = IF i = 0 THEN a ELSE (IF g[i - 1] = 0 THEN 0 ELSE t.node[g[i - 1]].parent)
    <3>1. CASE i = m
      <4>1. i - 1 \in 0 .. m /\ i - 1 # m /\ i # 0
        BY <3>1
      <4>2. g[i - 1] = f[m - 1]
        BY <3>1, <4>1
      <4>. QED
        BY <3>1, <4>1, <4>2
    <3>2. CASE i # m /\ i # 0
      <4>1. i \in 0 .. (m - 1) /\ i - 1 \in 0 .. m /\ i - 1 # m
        BY <3>2
      <4>2. g[i - 1] = f[i - 1] /\ g[i] = f[i]
        BY <3>2, <4>1
      <4>3. f[i] = (IF f[i - 1] = 0 THEN 0 ELSE t.node[f[i - 1]].parent)
        BY <2>1, <3>2, <4>1 DEF Ascent
      <4>. QED
        BY <3>2, <4>2, <4>3
    <3>3. CASE i = 0
      BY <2>1, <3>3 DEF Ascent
    <3>. QED
      BY <3>1, <3>2, <3>3
  <2>3. Ascent(g, m, t, a)
    BY <2>2, Zenon DEF Ascent
  <2>. HIDE DEF g
  <2>. QED
    BY <2>3
<1>. HIDE DEF T
<1>3. 0 .. n \subseteq T
  BY <1>1, <1>2, CountingUpTo
<1>4. n \in T
  BY <1>3
<1>. QED
  BY <1>4 DEF T

LEMMA AncestorsRun ==
  ASSUME NEW t, NEW a, NEW n \in Nat, n = Cardinality(DOMAIN t.node)
  PROVE  \E f : /\ Ancestors(t, a) = f
                /\ f = [i \in 0 .. n |-> f[i]] /\ f[0] = a
                /\ \A i \in 1 .. n : f[i] = (IF f[i - 1] = 0 THEN 0 ELSE t.node[f[i - 1]].parent)
<1> DEFINE after == CHOOSE g : Ascent(g, Cardinality(DOMAIN t.node), t, a)
<1>1. \E g : Ascent(g, Cardinality(DOMAIN t.node), t, a)
  BY AscentRuns
<1>2. Ascent(after, Cardinality(DOMAIN t.node), t, a)
  BY <1>1, Zenon
<1>3. Ancestors(t, a) = after
  BY Zenon DEF Ascent, Ancestors
<1>. HIDE DEF after
<1>4. after = [i \in 0 .. n |-> after[i]] /\ after[0] = a
      /\ \A i \in 1 .. n : after[i] = (IF after[i - 1] = 0 THEN 0 ELSE t.node[after[i - 1]].parent)
  <2>1. after = [i \in 0 .. n |-> IF i = 0 THEN a ELSE (IF after[i - 1] = 0 THEN 0 ELSE t.node[after[i - 1]].parent)]
    BY <1>2, Zenon DEF Ascent
  <2>2. ASSUME NEW i \in 0 .. n PROVE after[i] = IF i = 0 THEN a ELSE (IF after[i - 1] = 0 THEN 0 ELSE t.node[after[i - 1]].parent)
    BY <2>1, Zenon
  <2>3. 0 \in 0 .. n /\ \A i \in 1 .. n : i \in 0 .. n /\ i # 0
    OBVIOUS
  <2>4. after = [i \in 0 .. n |-> after[i]]
    BY <2>1, <2>2, Zenon
  <2>. QED
    BY <2>2, <2>3, <2>4, Zenon
<1>. QED
  BY <1>3, <1>4, Zenon

\* The way along the leaves.
Links(f, m, t, a) == f = [i \in 0 .. m |-> IF i = 0 THEN a ELSE NextOf(t)[f[i - 1]]]

LEMMA LinksRuns ==
  ASSUME NEW n \in Nat, NEW t, NEW a
  PROVE  \E f : Links(f, n, t, a)
<1> DEFINE T == {m \in 0 .. n : \E f : Links(f, m, t, a)}
<1>1. 0 \in T
  <2>1. Links([i \in 0 .. 0 |-> a], 0, t, a)
    BY DEF Links
  <2>. QED
    BY <2>1
<1>2. ASSUME NEW m \in 1 .. n, m - 1 \in T PROVE m \in T
  <2>1. PICK f : Links(f, m - 1, t, a)
    BY <1>2
  <2> DEFINE g == [i \in 0 .. m |-> IF i = m THEN NextOf(t)[f[m - 1]] ELSE f[i]]
  <2>2. ASSUME NEW i \in 0 .. m PROVE g[i] = IF i = 0 THEN a ELSE NextOf(t)[g[i - 1]]
    <3>1. CASE i = m
      <4>1. i - 1 \in 0 .. m /\ i - 1 # m /\ i # 0
        BY <3>1
      <4>2. g[i - 1] = f[m - 1]
        BY <3>1, <4>1
      <4>. QED
        BY <3>1, <4>1, <4>2
    <3>2. CASE i # m /\ i # 0
      <4>1. i \in 0 .. (m - 1) /\ i - 1 \in 0 .. m /\ i - 1 # m
        BY <3>2
      <4>2. g[i - 1] = f[i - 1] /\ g[i] = f[i]
        BY <3>2, <4>1
      <4>3. f[i] = NextOf(t)[f[i - 1]]
        BY <2>1, <3>2, <4>1 DEF Links
      <4>. QED
        BY <3>2, <4>2, <4>3
    <3>3. CASE i = 0
      BY <2>1, <3>3 DEF Links
    <3>. QED
      BY <3>1, <3>2, <3>3
  <2>3. Links(g, m, t, a)
    BY <2>2, Zenon DEF Links
  <2>. HIDE DEF g
  <2>. QED
    BY <2>3
<1>. HIDE DEF T
<1>3. 0 .. n \subseteq T
  BY <1>1, <1>2, CountingUpTo
<1>4. n \in T
  BY <1>3
<1>. QED
  BY <1>4 DEF T

ChainBy(t, a, n, f) ==
  /\ Chain(t, a) = [i \in 1 .. Cardinality({j \in DOMAIN f : f[j] # 0}) |-> f[i - 1]]
  /\ f = [i \in 0 .. n |-> f[i]] /\ f[0] = a
  /\ \A i \in 1 .. n : f[i] = NextOf(t)[f[i - 1]]

LEMMA ChainRuns ==
  ASSUME NEW t, NEW a, NEW n \in Nat, n = Cardinality(DOMAIN t.node)
  PROVE  \E f : ChainBy(t, a, n, f)
<1> DEFINE after == CHOOSE g : Links(g, Cardinality(DOMAIN t.node), t, a)
<1>1. \E g : Links(g, Cardinality(DOMAIN t.node), t, a)
  BY LinksRuns
<1>2. Links(after, Cardinality(DOMAIN t.node), t, a)
  BY <1>1, Zenon
<1>3. Chain(t, a) = [i \in 1 .. Cardinality({j \in DOMAIN after : after[j] # 0}) |-> after[i - 1]]
  BY Zenon DEF Links, Chain
<1>. HIDE DEF after
<1>4. after = [i \in 0 .. n |-> after[i]] /\ after[0] = a
      /\ \A i \in 1 .. n : after[i] = NextOf(t)[after[i - 1]]
  <2>1. after = [i \in 0 .. n |-> IF i = 0 THEN a ELSE NextOf(t)[after[i - 1]]]
    BY <1>2, Zenon DEF Links
  <2>2. ASSUME NEW i \in 0 .. n PROVE after[i] = IF i = 0 THEN a ELSE NextOf(t)[after[i - 1]]
    BY <2>1, Zenon
  <2>3. 0 \in 0 .. n /\ \A i \in 1 .. n : i \in 0 .. n /\ i # 0
    OBVIOUS
  <2>4. after = [i \in 0 .. n |-> after[i]]
    BY <2>1, <2>2, Zenon
  <2>. QED
    BY <2>2, <2>3, <2>4, Zenon
<1>. QED
  BY <1>3, <1>4, Zenon DEF ChainBy

\* The nodes below one, level by level.
Spread(f, m, t, a) == f = [i \in 0 .. m |-> IF i = 0 THEN {a} ELSE (f[i - 1] \union UNION {ToSet(t.node[b].kids) : b \in {c \in f[i - 1] : ~t.node[c].leaf}})]

LEMMA SpreadRuns ==
  ASSUME NEW n \in Nat, NEW t, NEW a
  PROVE  \E f : Spread(f, n, t, a)
<1> DEFINE T == {m \in 0 .. n : \E f : Spread(f, m, t, a)}
<1>1. 0 \in T
  <2>1. Spread([i \in 0 .. 0 |-> {a}], 0, t, a)
    BY DEF Spread
  <2>. QED
    BY <2>1
<1>2. ASSUME NEW m \in 1 .. n, m - 1 \in T PROVE m \in T
  <2>1. PICK f : Spread(f, m - 1, t, a)
    BY <1>2
  <2> DEFINE g == [i \in 0 .. m |-> IF i = m THEN (f[m - 1] \union UNION {ToSet(t.node[b].kids) : b \in {c \in f[m - 1] : ~t.node[c].leaf}}) ELSE f[i]]
  <2>2. ASSUME NEW i \in 0 .. m PROVE g[i] = IF i = 0 THEN {a} ELSE (g[i - 1] \union UNION {ToSet(t.node[b].kids) : b \in {c \in g[i - 1] : ~t.node[c].leaf}})
    <3>1. CASE i = m
      <4>1. i - 1 \in 0 .. m /\ i - 1 # m /\ i # 0
        BY <3>1
      <4>2. g[i - 1] = f[m - 1]
        BY <3>1, <4>1
      <4>. QED
        BY <3>1, <4>1, <4>2
    <3>2. CASE i # m /\ i # 0
      <4>1. i \in 0 .. (m - 1) /\ i - 1 \in 0 .. m /\ i - 1 # m
        BY <3>2
      <4>2. g[i - 1] = f[i - 1] /\ g[i] = f[i]
        BY <3>2, <4>1
      <4>3. f[i] = (f[i - 1] \union UNION {ToSet(t.node[b].kids) : b \in {c \in f[i - 1] : ~t.node[c].leaf}})
        BY <2>1, <3>2, <4>1 DEF Spread
      <4>. QED
        BY <3>2, <4>2, <4>3
    <3>3. CASE i = 0
      BY <2>1, <3>3 DEF Spread
    <3>. QED
      BY <3>1, <3>2, <3>3
  <2>3. Spread(g, m, t, a)
    BY <2>2, Zenon DEF Spread
  <2>. HIDE DEF g
  <2>. QED
    BY <2>3
<1>. HIDE DEF T
<1>3. 0 .. n \subseteq T
  BY <1>1, <1>2, CountingUpTo
<1>4. n \in T
  BY <1>3
<1>. QED
  BY <1>4 DEF T

LEMMA SubtreeRuns ==
  ASSUME NEW t, NEW a, NEW n \in Nat, n = Cardinality(DOMAIN t.node)
  PROVE  \E f : Spread(f, n, t, a) /\ Subtree(t, a) = f[n]
<1> DEFINE after == CHOOSE g : Spread(g, Cardinality(DOMAIN t.node), t, a)
<1>1. \E g : Spread(g, Cardinality(DOMAIN t.node), t, a)
  BY SpreadRuns
<1>2. Spread(after, Cardinality(DOMAIN t.node), t, a)
  BY <1>1, Zenon
<1>3. Subtree(t, a) = after[n]
  BY Zenon DEF Spread, Subtree, Rounds
<1>. HIDE DEF after
<1>. QED
  BY <1>2, <1>3, Zenon

\* A node is met in a round because it was met before, or is a child of one.
SpreadTo(t, f, i, x) ==
  x \in f[i] <=> x \in f[i - 1] \/ \E b \in f[i - 1] : ~t.node[b].leaf /\ x \in ToSet(t.node[b].kids)

LEMMA SpreadBy ==
  ASSUME NEW t, NEW a, NEW n \in Nat, NEW f, Spread(f, n, t, a)
  PROVE  f[0] = {a} /\ \A i \in 1 .. n : \A x : SpreadTo(t, f, i, x)
<1>1. f = [i \in 0 .. n |-> IF i = 0 THEN {a} ELSE (f[i - 1] \union UNION {ToSet(t.node[b].kids) : b \in {c \in f[i - 1] : ~t.node[c].leaf}})]
  BY Zenon DEF Spread
<1>2. \A i \in 0 .. n : f[i] = IF i = 0 THEN {a} ELSE (f[i - 1] \union UNION {ToSet(t.node[b].kids) : b \in {c \in f[i - 1] : ~t.node[c].leaf}})
  BY <1>1, Zenon
<1>3. 0 \in 0 .. n /\ \A i \in 1 .. n : i \in 0 .. n /\ i # 0
  OBVIOUS
<1>4. f[0] = {a}
  BY <1>2, <1>3, Zenon
<1>5. ASSUME NEW i \in 1 .. n, NEW x PROVE SpreadTo(t, f, i, x)
  <2>1. f[i] = (f[i - 1] \union UNION {ToSet(t.node[b].kids) : b \in {c \in f[i - 1] : ~t.node[c].leaf}})
    BY <1>2, <1>3, Zenon
  <2>. QED
    BY <2>1 DEF SpreadTo
<1>. QED
  BY <1>4, <1>5

\* The climb after a deletion.
Rebalancing(f, m, s) == f = [i \in 0 .. m |-> IF i = 0 THEN s ELSE (IF f[i - 1].more THEN RebalanceLevel(f[i - 1]) ELSE f[i - 1])]

LEMMA RebalancingRuns ==
  ASSUME NEW n \in Nat, NEW s
  PROVE  \E f : Rebalancing(f, n, s)
<1> DEFINE T == {m \in 0 .. n : \E f : Rebalancing(f, m, s)}
<1>1. 0 \in T
  <2>1. Rebalancing([i \in 0 .. 0 |-> s], 0, s)
    BY DEF Rebalancing
  <2>. QED
    BY <2>1
<1>2. ASSUME NEW m \in 1 .. n, m - 1 \in T PROVE m \in T
  <2>1. PICK f : Rebalancing(f, m - 1, s)
    BY <1>2
  <2> DEFINE g == [i \in 0 .. m |-> IF i = m THEN (IF f[m - 1].more THEN RebalanceLevel(f[m - 1]) ELSE f[m - 1]) ELSE f[i]]
  <2>2. ASSUME NEW i \in 0 .. m PROVE g[i] = IF i = 0 THEN s ELSE (IF g[i - 1].more THEN RebalanceLevel(g[i - 1]) ELSE g[i - 1])
    <3>1. CASE i = m
      <4>1. i - 1 \in 0 .. m /\ i - 1 # m /\ i # 0
        BY <3>1
      <4>2. g[i - 1] = f[m - 1]
        BY <3>1, <4>1
      <4>. QED
        BY <3>1, <4>1, <4>2
    <3>2. CASE i # m /\ i # 0
      <4>1. i \in 0 .. (m - 1) /\ i - 1 \in 0 .. m /\ i - 1 # m
        BY <3>2
      <4>2. g[i - 1] = f[i - 1] /\ g[i] = f[i]
        BY <3>2, <4>1
      <4>3. f[i] = (IF f[i - 1].more THEN RebalanceLevel(f[i - 1]) ELSE f[i - 1])
        BY <2>1, <3>2, <4>1 DEF Rebalancing
      <4>. QED
        BY <3>2, <4>2, <4>3
    <3>3. CASE i = 0
      BY <2>1, <3>3 DEF Rebalancing
    <3>. QED
      BY <3>1, <3>2, <3>3
  <2>3. Rebalancing(g, m, s)
    BY <2>2, Zenon DEF Rebalancing
  <2>. HIDE DEF g
  <2>. QED
    BY <2>3
<1>. HIDE DEF T
<1>3. 0 .. n \subseteq T
  BY <1>1, <1>2, CountingUpTo
<1>4. n \in T
  BY <1>3
<1>. QED
  BY <1>4 DEF T

LEMMA RebalanceRuns ==
  ASSUME NEW t, NEW d, NEW a, NEW n \in Nat, n = Cardinality(DOMAIN t.node)
  PROVE  \E f : /\ BalanceTreeDelete(t, d, a).tree = f[n].tree
                /\ f = [i \in 0 .. n |-> f[i]] /\ f[0] = [tree |-> t, node |-> d, at |-> a, more |-> TRUE]
                /\ \A i \in 1 .. n : f[i] = (IF f[i - 1].more THEN RebalanceLevel(f[i - 1]) ELSE f[i - 1])
<1> DEFINE after == CHOOSE g : Rebalancing(g, Cardinality(DOMAIN t.node), [tree |-> t, node |-> d, at |-> a, more |-> TRUE])
<1>1. \E g : Rebalancing(g, Cardinality(DOMAIN t.node), [tree |-> t, node |-> d, at |-> a, more |-> TRUE])
  BY RebalancingRuns
<1>2. Rebalancing(after, Cardinality(DOMAIN t.node), [tree |-> t, node |-> d, at |-> a, more |-> TRUE])
  BY <1>1, Zenon
<1>3. BalanceTreeDelete(t, d, a).tree = after[n].tree
  BY Zenon DEF Rebalancing, BalanceTreeDelete, Rounds
<1>. HIDE DEF after
<1>4. after = [i \in 0 .. n |-> after[i]] /\ after[0] = [tree |-> t, node |-> d, at |-> a, more |-> TRUE]
      /\ \A i \in 1 .. n : after[i] = (IF after[i - 1].more THEN RebalanceLevel(after[i - 1]) ELSE after[i - 1])
  <2>1. after = [i \in 0 .. n |-> IF i = 0 THEN [tree |-> t, node |-> d, at |-> a, more |-> TRUE] ELSE (IF after[i - 1].more THEN RebalanceLevel(after[i - 1]) ELSE after[i - 1])]
    BY <1>2, Zenon DEF Rebalancing
  <2>2. ASSUME NEW i \in 0 .. n PROVE after[i] = IF i = 0 THEN [tree |-> t, node |-> d, at |-> a, more |-> TRUE] ELSE (IF after[i - 1].more THEN RebalanceLevel(after[i - 1]) ELSE after[i - 1])
    BY <2>1, Zenon
  <2>3. 0 \in 0 .. n /\ \A i \in 1 .. n : i \in 0 .. n /\ i # 0
    OBVIOUS
  <2>4. after = [i \in 0 .. n |-> after[i]]
    BY <2>1, <2>2, Zenon
  <2>. QED
    BY <2>2, <2>3, <2>4, Zenon
<1>. QED
  BY <1>3, <1>4, Zenon

\* Adding up a page's records.
Sum(f, m, p) == f = [i \in 0 .. m |-> IF i = 0 THEN 0 ELSE (f[i - 1] + (IF i - 1 \in DOMAIN p THEN p[i - 1] ELSE 0))]

LEMMA SumRuns ==
  ASSUME NEW n \in Nat, NEW p
  PROVE  \E f : Sum(f, n, p)
<1> DEFINE T == {m \in 0 .. n : \E f : Sum(f, m, p)}
<1>1. 0 \in T
  <2>1. Sum([i \in 0 .. 0 |-> 0], 0, p)
    BY DEF Sum
  <2>. QED
    BY <2>1
<1>2. ASSUME NEW m \in 1 .. n, m - 1 \in T PROVE m \in T
  <2>1. PICK f : Sum(f, m - 1, p)
    BY <1>2
  <2> DEFINE g == [i \in 0 .. m |-> IF i = m THEN (f[m - 1] + (IF m - 1 \in DOMAIN p THEN p[m - 1] ELSE 0)) ELSE f[i]]
  <2>2. ASSUME NEW i \in 0 .. m PROVE g[i] = IF i = 0 THEN 0 ELSE (g[i - 1] + (IF i - 1 \in DOMAIN p THEN p[i - 1] ELSE 0))
    <3>1. CASE i = m
      <4>1. i - 1 \in 0 .. m /\ i - 1 # m /\ i # 0
        BY <3>1
      <4>2. g[i - 1] = f[m - 1]
        BY <3>1, <4>1
      <4>. QED
        BY <3>1, <4>1, <4>2
    <3>2. CASE i # m /\ i # 0
      <4>1. i \in 0 .. (m - 1) /\ i - 1 \in 0 .. m /\ i - 1 # m
        BY <3>2
      <4>2. g[i - 1] = f[i - 1] /\ g[i] = f[i]
        BY <3>2, <4>1
      <4>3. f[i] = (f[i - 1] + (IF i - 1 \in DOMAIN p THEN p[i - 1] ELSE 0))
        BY <2>1, <3>2, <4>1 DEF Sum
      <4>. QED
        BY <3>2, <4>2, <4>3
    <3>3. CASE i = 0
      BY <2>1, <3>3 DEF Sum
    <3>. QED
      BY <3>1, <3>2, <3>3
  <2>3. Sum(g, m, p)
    BY <2>2, Zenon DEF Sum
  <2>. HIDE DEF g
  <2>. QED
    BY <2>3
<1>. HIDE DEF T
<1>3. 0 .. n \subseteq T
  BY <1>1, <1>2, CountingUpTo
<1>4. n \in T
  BY <1>3
<1>. QED
  BY <1>4 DEF T

LEMMA UsedRuns ==
  ASSUME NEW p, NEW n \in Nat
  PROVE  \E f : Sum(f, n, p) /\ UsedBelow(p, n) = f[n]
<1> DEFINE after == CHOOSE g : Sum(g, n, p)
<1>1. \E g : Sum(g, n, p)
  BY SumRuns
<1>2. Sum(after, n, p)
  BY <1>1, Zenon
<1>3. UsedBelow(p, n) = after[n]
  BY Zenon DEF Sum, UsedBelow
<1>. QED
  BY <1>2, <1>3, Zenon

\* The divisions of a page made larger.
Storing(f, m, s) == f = [i \in 0 .. m |-> IF i = 0 THEN s ELSE StoreRest(f[i - 1])]

LEMMA StoringRuns ==
  ASSUME NEW n \in Nat, NEW s
  PROVE  \E f : Storing(f, n, s)
<1> DEFINE T == {m \in 0 .. n : \E f : Storing(f, m, s)}
<1>1. 0 \in T
  <2>1. Storing([i \in 0 .. 0 |-> s], 0, s)
    BY DEF Storing
  <2>. QED
    BY <2>1
<1>2. ASSUME NEW m \in 1 .. n, m - 1 \in T PROVE m \in T
  <2>1. PICK f : Storing(f, m - 1, s)
    BY <1>2
  <2> DEFINE g == [i \in 0 .. m |-> IF i = m THEN StoreRest(f[m - 1]) ELSE f[i]]
  <2>2. ASSUME NEW i \in 0 .. m PROVE g[i] = IF i = 0 THEN s ELSE StoreRest(g[i - 1])
    <3>1. CASE i = m
      <4>1. i - 1 \in 0 .. m /\ i - 1 # m /\ i # 0
        BY <3>1
      <4>2. g[i - 1] = f[m - 1]
        BY <3>1, <4>1
      <4>. QED
        BY <3>1, <4>1, <4>2
    <3>2. CASE i # m /\ i # 0
      <4>1. i \in 0 .. (m - 1) /\ i - 1 \in 0 .. m /\ i - 1 # m
        BY <3>2
      <4>2. g[i - 1] = f[i - 1] /\ g[i] = f[i]
        BY <3>2, <4>1
      <4>3. f[i] = StoreRest(f[i - 1])
        BY <2>1, <3>2, <4>1 DEF Storing
      <4>. QED
        BY <3>2, <4>2, <4>3
    <3>3. CASE i = 0
      BY <2>1, <3>3 DEF Storing
    <3>. QED
      BY <3>1, <3>2, <3>3
  <2>3. Storing(g, m, s)
    BY <2>2, Zenon DEF Storing
  <2>. HIDE DEF g
  <2>. QED
    BY <2>3
<1>. HIDE DEF T
<1>3. 0 .. n \subseteq T
  BY <1>1, <1>2, CountingUpTo
<1>4. n \in T
  BY <1>3
<1>. QED
  BY <1>4 DEF T

LEMMA StoreRuns ==
  ASSUME NEW t, NEW p, NEW pg, NEW n \in Nat, n = Cardinality(DOMAIN p)
  PROVE  \E f : /\ StorePage(t, p, pg) = MarkPage(f[n].tree, f[n].at, f[n].page)
                /\ f = [i \in 0 .. n |-> f[i]] /\ f[0] = [tree |-> t, page |-> p, at |-> pg]
                /\ \A i \in 1 .. n : f[i] = StoreRest(f[i - 1])
<1> DEFINE after == CHOOSE g : Storing(g, Cardinality(DOMAIN p), [tree |-> t, page |-> p, at |-> pg])
<1>1. \E g : Storing(g, Cardinality(DOMAIN p), [tree |-> t, page |-> p, at |-> pg])
  BY StoringRuns
<1>2. Storing(after, Cardinality(DOMAIN p), [tree |-> t, page |-> p, at |-> pg])
  BY <1>1, Zenon
<1>3. StorePage(t, p, pg) = MarkPage(after[n].tree, after[n].at, after[n].page)
  BY Zenon DEF Storing, StorePage, Rounds
<1>. HIDE DEF after
<1>4. after = [i \in 0 .. n |-> after[i]] /\ after[0] = [tree |-> t, page |-> p, at |-> pg]
      /\ \A i \in 1 .. n : after[i] = StoreRest(after[i - 1])
  <2>1. after = [i \in 0 .. n |-> IF i = 0 THEN [tree |-> t, page |-> p, at |-> pg] ELSE StoreRest(after[i - 1])]
    BY <1>2, Zenon DEF Storing
  <2>2. ASSUME NEW i \in 0 .. n PROVE after[i] = IF i = 0 THEN [tree |-> t, page |-> p, at |-> pg] ELSE StoreRest(after[i - 1])
    BY <2>1, Zenon
  <2>3. 0 \in 0 .. n /\ \A i \in 1 .. n : i \in 0 .. n /\ i # 0
    OBVIOUS
  <2>4. after = [i \in 0 .. n |-> after[i]]
    BY <2>1, <2>2, Zenon
  <2>. QED
    BY <2>2, <2>3, <2>4, Zenon
<1>. QED
  BY <1>3, <1>4, Zenon

\* The splits of a full node's full ancestors and of the node.
Splitting(f, m, s, up, top) == f = [i \in 0 .. m |-> IF i = 0 THEN s ELSE SplitNode(f[i - 1].tree, up[top + 1 - i])]

LEMMA SplittingRuns ==
  ASSUME NEW n \in Nat, NEW s, NEW up, NEW top
  PROVE  \E f : Splitting(f, n, s, up, top)
<1> DEFINE T == {m \in 0 .. n : \E f : Splitting(f, m, s, up, top)}
<1>1. 0 \in T
  <2>1. Splitting([i \in 0 .. 0 |-> s], 0, s, up, top)
    BY DEF Splitting
  <2>. QED
    BY <2>1
<1>2. ASSUME NEW m \in 1 .. n, m - 1 \in T PROVE m \in T
  <2>1. PICK f : Splitting(f, m - 1, s, up, top)
    BY <1>2
  <2> DEFINE g == [i \in 0 .. m |-> IF i = m THEN SplitNode(f[m - 1].tree, up[top + 1 - m]) ELSE f[i]]
  <2>2. ASSUME NEW i \in 0 .. m PROVE g[i] = IF i = 0 THEN s ELSE SplitNode(g[i - 1].tree, up[top + 1 - i])
    <3>1. CASE i = m
      <4>1. i - 1 \in 0 .. m /\ i - 1 # m /\ i # 0
        BY <3>1
      <4>2. g[i - 1] = f[m - 1]
        BY <3>1, <4>1
      <4>. QED
        BY <3>1, <4>1, <4>2
    <3>2. CASE i # m /\ i # 0
      <4>1. i \in 0 .. (m - 1) /\ i - 1 \in 0 .. m /\ i - 1 # m
        BY <3>2
      <4>2. g[i - 1] = f[i - 1] /\ g[i] = f[i]
        BY <3>2, <4>1
      <4>3. f[i] = SplitNode(f[i - 1].tree, up[top + 1 - i])
        BY <2>1, <3>2, <4>1 DEF Splitting
      <4>. QED
        BY <3>2, <4>2, <4>3
    <3>3. CASE i = 0
      BY <2>1, <3>3 DEF Splitting
    <3>. QED
      BY <3>1, <3>2, <3>3
  <2>3. Splitting(g, m, s, up, top)
    BY <2>2, Zenon DEF Splitting
  <2>. HIDE DEF g
  <2>. QED
    BY <2>3
<1>. HIDE DEF T
<1>3. 0 .. n \subseteq T
  BY <1>1, <1>2, CountingUpTo
<1>4. n \in T
  BY <1>3
<1>. QED
  BY <1>4 DEF T

\* The lowest ancestor with room above it, and the tree with a root above it
\* if that is the root.
RoomTop(t, a) ==
  Min({i \in DOMAIN Ancestors(t, a) :
         /\ Ancestors(t, a)[i] # 0
         /\ \/ IsRoot(t.node[Ancestors(t, a)[i]])
            \/ ~IsFull(t.node[t.node[Ancestors(t, a)[i]].parent])})

RoomMade(t, a) ==
  IF IsRoot(t.node[Ancestors(t, a)[RoomTop(t, a)]])
  THEN NewRoot(t, t.node[Ancestors(t, a)[RoomTop(t, a)]], Ancestors(t, a)[RoomTop(t, a)])
  ELSE t

LEMMA SplitRuns ==
  ASSUME NEW t, NEW a, NEW top \in Nat, top = RoomTop(t, a)
  PROVE  \E f : /\ BalanceTreeAdd(t, a) = f[top + 1]
                /\ f[0] = [tree |-> RoomMade(t, a), new |-> 0]
                /\ \A i \in 1 .. (top + 1) : f[i] = SplitNode(f[i - 1].tree, Ancestors(t, a)[top + 1 - i])
<1> DEFINE s == [tree |-> RoomMade(t, a), new |-> 0]
           up == Ancestors(t, a)
           after == CHOOSE g : Splitting(g, RoomTop(t, a) + 1, s, up, RoomTop(t, a))
<1>1. \E g : Splitting(g, top + 1, s, up, top)
  BY SplittingRuns
<1>2. Splitting(after, top + 1, s, up, top)
  BY <1>1, Zenon
<1>3. BalanceTreeAdd(t, a) = after[RoomTop(t, a) + 1]
  BY Zenon DEF Splitting, BalanceTreeAdd, RoomTop, RoomMade
<1>. HIDE DEF after, s, up
<1>4. after = [i \in 0 .. (top + 1) |-> IF i = 0 THEN s ELSE SplitNode(after[i - 1].tree, up[top + 1 - i])]
  BY <1>2, Zenon DEF Splitting
<1>5. \A i \in 0 .. (top + 1) : after[i] = IF i = 0 THEN s ELSE SplitNode(after[i - 1].tree, up[top + 1 - i])
  BY <1>4, Zenon
<1>6. 0 \in 0 .. (top + 1) /\ \A i \in 1 .. (top + 1) : i \in 0 .. (top + 1) /\ i # 0
  OBVIOUS
<1>7. /\ BalanceTreeAdd(t, a) = after[top + 1] /\ after[0] = s
      /\ \A i \in 1 .. (top + 1) : after[i] = SplitNode(after[i - 1].tree, up[top + 1 - i])
  BY <1>3, <1>5, <1>6, Zenon
<1>. QED
  BY <1>7 DEF s, up

USE KeyAssumption
USE OrderAssumption

(***************************************************************************)
(* What a tree as the invariant has it is like.                            *)
(***************************************************************************)
LEMMA NaturalKeys ==
  ASSUME NEW s \in Seq(Key)
  PROVE  s \in Seq(Nat)
<1>1. Len(s) \in Nat /\ s \in [1 .. Len(s) -> Key]
  OBVIOUS
<1>2. s \in [1 .. Len(s) -> Nat]
  BY <1>1
<1>. QED
  BY <1>1, <1>2

LEMMA NodeFields ==
  ASSUME NEW t, Typed(t), NEW a \in Nodes(t)
  PROVE  /\ t.node[a] = [leaf |-> Leaf(t, a), kids |-> Kids(t, a), keys |-> Keys(t, a),
                         max |-> Top(t, a), parent |-> Up(t, a), prev |-> t.node[a].prev,
                         next |-> t.node[a].next]
         /\ Leaf(t, a) \in BOOLEAN /\ Kids(t, a) \in Seq(Nat \ {0})
         /\ Keys(t, a) \in Seq(Key) /\ Keys(t, a) \in Seq(Nat) /\ Top(t, a) \in Key
         /\ Top(t, a) \in Nat /\ Up(t, a) \in Nat
         /\ t.node[a].prev \in Nat /\ t.node[a].next \in Nat
         /\ Len(Kids(t, a)) \in Nat /\ Len(Keys(t, a)) \in Nat
         /\ \A i \in 1 .. Len(Keys(t, a)) : Keys(t, a)[i] \in Key /\ Keys(t, a)[i] \in Nat
         /\ \A i \in 1 .. Len(Kids(t, a)) : Kids(t, a)[i] \in Nat \ {0}
         /\ a \in Nat \ {0}
<1> DEFINE r == t.node[a]
<1>1. r \in NodeType /\ a \in Nat \ {0}
  BY DEF Typed
<1>2. r = [leaf |-> r.leaf, kids |-> r.kids, keys |-> r.keys, max |-> r.max,
           parent |-> r.parent, prev |-> r.prev, next |-> r.next]
  BY <1>1 DEF NodeType
<1>3. /\ r.leaf \in BOOLEAN /\ r.kids \in Seq(Nat \ {0}) /\ r.keys \in Seq(Key)
      /\ r.max \in Key /\ r.parent \in Nat /\ r.prev \in Nat /\ r.next \in Nat
  BY <1>1 DEF NodeType
<1>4. r.keys \in Seq(Nat)
  BY <1>3, NaturalKeys
<1>5. /\ Len(r.kids) \in Nat /\ Len(r.keys) \in Nat /\ r.max \in Nat
      /\ \A i \in 1 .. Len(r.keys) : r.keys[i] \in Key /\ r.keys[i] \in Nat
      /\ \A i \in 1 .. Len(r.kids) : r.kids[i] \in Nat \ {0}
  <2>1. Len(r.kids) \in Nat /\ \A i \in 1 .. Len(r.kids) : r.kids[i] \in Nat \ {0}
    BY <1>3
  <2>2. Len(r.keys) \in Nat /\ \A i \in 1 .. Len(r.keys) : r.keys[i] \in Key
    BY <1>3
  <2>3. r.max \in Nat /\ \A i \in 1 .. Len(r.keys) : r.keys[i] \in Nat
    BY <1>3, <2>2
  <2>. QED
    BY <2>1, <2>2, <2>3
<1>. QED
  BY <1>1, <1>2, <1>3, <1>4, <1>5, Zenon DEF Leaf, Kids, Keys, Top, Up

\* The keys of a node ascend and are within its bounds.
LEMMA KeysAscend ==
  ASSUME NEW t, NEW lv, NEW lo, NEW over, Typed(t), Arrays(t), Children(t, lv),
         Bounds(t, lo, over), Filed(t, lo), NEW a \in Nodes(t),
         ~Leaf(t, a) => \A i \in 1 .. Len(Keys(t, a)) : Kids(t, a)[i] # over
  PROVE  /\ \A i, j \in 1 .. Len(Keys(t, a)) : i < j => Keys(t, a)[i] < Keys(t, a)[j]
         /\ \A i \in 1 .. Len(Keys(t, a)) : lo[a] < Keys(t, a)[i] /\ Keys(t, a)[i] <= Top(t, a)
<1> DEFINE K == Keys(t, a)
           n == Len(K)
<1>1. /\ K \in Seq(Nat) /\ n \in Nat /\ Top(t, a) \in Nat /\ lo[a] \in Int
      /\ \A i \in 1 .. n : K[i] \in Nat
  BY NodeFields DEF Bounds
<1>2. ASSUME NEW i \in 1 .. n PROVE LoAt(t, lo, a, i) < K[i] /\ K[i] <= Top(t, a) /\ LoAt(t, lo, a, i) \in Int
  <2>1. CASE Leaf(t, a)
    <3>1. i \in 1 .. Len(Kids(t, a))
      BY <2>1 DEF Arrays
    <3>2. LoAt(t, lo, a, i) \in Int
      BY <1>1 DEF LoAt
    <3>. QED
      BY <2>1, <3>1, <3>2 DEF Filed
  <2>2. CASE ~Leaf(t, a)
    <3>1. i \in 1 .. Len(Kids(t, a))
      BY <2>2, NodeFields DEF Arrays
    <3>2. PICK c \in Nodes(t) : c = Kids(t, a)[i]
      BY <2>2, <3>1 DEF Children
    <3>3. c # over /\ Top(t, c) \in Nat /\ lo[c] \in Int /\ lo[c] < Top(t, c)
      BY <2>2, <3>2, NodeFields DEF Bounds
    <3>4. LoAt(t, lo, a, i) <= lo[c] /\ Top(t, c) <= HiAt(t, a, i) /\ HiAt(t, a, i) <= Top(t, a)
      BY <2>2, <3>1, <3>2, <3>3 DEF Bounds
    <3>5. HiAt(t, a, i) = K[i]
      BY DEF HiAt
    <3>6. LoAt(t, lo, a, i) \in Int
      BY <1>1 DEF LoAt
    <3>. QED
      BY <1>1, <3>3, <3>4, <3>5, <3>6
  <2>. QED
    BY <2>1, <2>2
<1>3. \A i \in 1 .. (n - 1) : K[i] < K[i + 1]
  <2>1. ASSUME NEW i \in 1 .. (n - 1) PROVE K[i] < K[i + 1]
    <3>1. i + 1 \in 1 .. n /\ i + 1 # 1 /\ i + 1 - 1 = i
      BY <1>1
    <3>2. LoAt(t, lo, a, i + 1) = K[i]
      BY <3>1 DEF LoAt
    <3>. QED
      BY <3>1, <3>2, <1>2
  <2>. QED
    BY <2>1
<1>4. \A i, j \in 1 .. n : i < j => K[i] < K[j]
  <2>. HIDE DEF K
  <2>. QED
    BY <1>1, <1>3, Ascending
<1>5. ASSUME NEW i \in 1 .. n PROVE lo[a] < K[i]
  <2>1. 1 \in 1 .. n /\ lo[a] < K[1] /\ K[1] \in Nat /\ K[i] \in Nat
    BY <1>1, <1>2 DEF LoAt
  <2>2. i = 1 \/ K[1] < K[i]
    BY <1>4, <2>1
  <2>. QED
    BY <1>1, <2>1, <2>2
<1>. QED
  BY <1>2, <1>4, <1>5

\* No node is higher than the root, and there are more nodes than levels.
LEMMA Height ==
  ASSUME NEW t, NEW lv, Typed(t), Arrays(t), Parents(t), Levels(t, lv), Children(t, lv)
  PROVE  /\ Cardinality(Nodes(t)) \in Nat /\ lv[t.root] \in Nat
         /\ lv[t.root] < Cardinality(Nodes(t))
         /\ \A a \in Nodes(t) : lv[a] <= lv[t.root]
<1> DEFINE N == Nodes(t)
           h == lv[t.root]
<1>1. Cardinality(N) \in Nat /\ IsFiniteSet(N) /\ t.root \in N
  BY FS_CardinalityType DEF Typed
<1>2. \A a \in N : lv[a] \in Nat
  BY DEF Levels
<1>3. ASSUME NEW a \in N, a # t.root PROVE Up(t, a) \in N /\ lv[Up(t, a)] = lv[a] + 1
  <2>1. Up(t, a) \in N /\ ~Leaf(t, Up(t, a))
    BY <1>3 DEF Parents
  <2>2. PICK i \in 1 .. Len(Kids(t, Up(t, a))) : Kids(t, Up(t, a))[i] = a
    BY <1>3 DEF Parents
  <2>. QED
    BY <2>1, <2>2 DEF Children
<1>4. \A a \in N : lv[a] <= h
  <2> DEFINE L == {lv[a] : a \in N}
             f == [a \in N |-> lv[a]]
  <2>1. f \in Surjection(N, L)
    BY DEF Surjection
  <2>2. IsFiniteSet(L)
    <3>. HIDE DEF f, L
    <3>. QED
      BY <2>1, <1>1, FS_Surjection
  <2>3. L \in SUBSET Nat /\ L # {}
    BY <1>1, <1>2
  <2>4. PICK m \in L : \A x \in L : x <= m
    <3>. HIDE DEF L
    <3>. QED
      BY <2>2, <2>3, MaxIs
  <2>5. PICK a \in N : lv[a] = m
    OBVIOUS
  <2>6. CASE a = t.root
    BY <2>4, <2>5, <2>6
  <2>7. CASE a # t.root
    <3>1. Up(t, a) \in N /\ lv[Up(t, a)] = m + 1
      BY <2>5, <2>7, <1>3
    <3>2. m + 1 <= m
      BY <2>4, <3>1
    <3>. QED
      BY <3>2, <2>3
  <2>. QED
    BY <2>6, <2>7
<1>5. \A d \in 0 .. h : \E x \in N : lv[x] = h - d
  <2> DEFINE T == {d \in 0 .. h : \E x \in N : lv[x] = h - d}
  <2>1. 0 \in T /\ h \in Nat
    BY <1>1, <1>2
  <2>2. ASSUME NEW d \in 1 .. h, d - 1 \in T PROVE d \in T
    <3>1. PICK x \in N : lv[x] = h - (d - 1)
      BY <2>2
    <3>2. lv[x] # 0 /\ ~Leaf(t, x)
      BY <2>1, <3>1 DEF Levels
    <3>3. 1 \in 1 .. Len(Kids(t, x))
      BY NodeFields DEF Arrays
    <3>4. Kids(t, x)[1] \in N /\ lv[x] = lv[Kids(t, x)[1]] + 1
      BY <3>2, <3>3 DEF Children
    <3>5. lv[Kids(t, x)[1]] = h - d
      BY <3>4, <3>1, <1>2, <2>1
    <3>. QED
      BY <3>4, <3>5
  <2>. HIDE DEF T
  <2>3. 0 .. h \subseteq T
    BY <2>1, <2>2, CountingUpTo
  <2>. QED
    BY <2>3 DEF T
<1>6. h < Cardinality(N)
  <2>1. SUFFICES ASSUME Cardinality(N) < h + 1 PROVE FALSE
    BY <1>1, <1>2
  <2> DEFINE f == [d \in 0 .. h |-> CHOOSE x \in N : lv[x] = h - d]
  <2>2. \A d \in 0 .. h : f[d] \in N /\ lv[f[d]] = h - d
    BY <1>5
  <2>3. f \in [0 .. h -> N]
    BY <2>2
  <2>4. IsFiniteSet(0 .. h) /\ Cardinality(0 .. h) = h + 1
    <3>1. 0 \in Int /\ h \in Int /\ ~(0 > h) /\ h - 0 + 1 = h + 1
      BY <1>1, <1>2
    <3>. HIDE DEF h
    <3>. QED
      BY <3>1, FS_Interval
  <2>. HIDE DEF f
  <2>5. PICK x \in 0 .. h, y \in 0 .. h : x # y /\ f[x] = f[y]
    BY <1>1, <2>1, <2>3, <2>4, FS_PigeonHole
  <2>. QED
    BY <2>2, <2>5, <1>1, <1>2
<1>. QED
  BY <1>1, <1>2, <1>4, <1>6

HIDE KeyAssumption
HIDE OrderAssumption

LEMMA AlikeKeeps ==
  ASSUME NEW t, NEW v, NEW lv, NEW nx, NEW loose, NEW but, Alike(t, v), Typed(t)
  PROVE  /\ Arrays(t) => Arrays(v)
         /\ Parents(t) => Parents(v)
         /\ Levels(t, lv) => Levels(v, lv)
         /\ Children(t, lv) => Children(v, lv)
         /\ Following(t, nx) /\ (\A a \in Nodes(t) : nx[a] # 0 => nx[a] \in Nodes(t)) => Following(v, nx)
         /\ Linked(t, nx) /\ (\A a \in Nodes(t) : nx[a] # 0 => nx[a] \in Nodes(t)) => Linked(v, nx)
         /\ Placed(t, loose) => Placed(v, loose)
         /\ Roomy(t, but) => Roomy(v, but)
<1>0. t.root \in Nodes(t)
  BY DEF Typed
<1>1. Arrays(t) => Arrays(v)
  BY DEF Alike, Arrays
<1>2. Parents(t) => Parents(v)
  BY <1>0 DEF Alike, Parents
<1>3. Levels(t, lv) => Levels(v, lv)
  BY DEF Alike, Levels
<1>4. Children(t, lv) => Children(v, lv)
  BY DEF Alike, Children
<1>5. ASSUME Following(t, nx), \A a \in Nodes(t) : nx[a] # 0 => nx[a] \in Nodes(t)
      PROVE  Following(v, nx)
  BY <1>5 DEF Alike, Following
<1>6. ASSUME Linked(t, nx), \A a \in Nodes(t) : nx[a] # 0 => nx[a] \in Nodes(t)
      PROVE  Linked(v, nx)
  BY <1>6 DEF Alike, Linked, Leaf
<1>7. Placed(t, loose) => Placed(v, loose)
  BY DEF Alike, Placed
<1>8. Roomy(t, but) => Roomy(v, but)
  BY DEF Alike, Roomy
<1>. QED
  BY <1>1, <1>2, <1>3, <1>4, <1>5, <1>6, <1>7, <1>8

\* What a node's parent is to it.
LEMMA ParentOf ==
  ASSUME NEW t, NEW lv, Typed(t), Arrays(t), Parents(t), Children(t, lv), Levels(t, lv),
         NEW a \in Nodes(t), a # t.root
  PROVE  /\ Up(t, a) \in Nodes(t) /\ ~Leaf(t, Up(t, a)) /\ lv[Up(t, a)] = lv[a] + 1
         /\ Position(Kids(t, Up(t, a)), a) \in 1 .. Len(Kids(t, Up(t, a)))
         /\ Kids(t, Up(t, a))[Position(Kids(t, Up(t, a)), a)] = a
<1>1. Up(t, a) \in Nodes(t) /\ ~Leaf(t, Up(t, a))
  BY DEF Parents
<1>2. PICK i \in 1 .. Len(Kids(t, Up(t, a))) : Kids(t, Up(t, a))[i] = a
  BY DEF Parents
<1>3. Position(Kids(t, Up(t, a)), a) = i
  <2>1. Kids(t, Up(t, a)) \in Seq(Nat \ {0})
    BY <1>1, NodeFields
  <2>2. \A j, m \in 1 .. Len(Kids(t, Up(t, a))) :
          Kids(t, Up(t, a))[j] = Kids(t, Up(t, a))[m] => j = m
    BY <1>1 DEF Arrays
  <2>. QED
    BY <1>2, <2>1, <2>2, PositionIs
<1>. QED
  BY <1>1, <1>2, <1>3 DEF Children

\* The root is nobody's child.
LEMMA RootIsNoChild ==
  ASSUME NEW t, NEW lv, Typed(t), Parents(t), Children(t, lv), NEW a \in Nodes(t), ~Leaf(t, a),
         NEW i \in 1 .. Len(Kids(t, a))
  PROVE  Kids(t, a)[i] # t.root
<1>1. Up(t, Kids(t, a)[i]) = a
  BY DEF Children
<1>2. a # 0 /\ Up(t, t.root) = 0
  BY NodeFields DEF Parents
<1>. QED
  BY <1>1, <1>2

\* A node stored where one was.
LEMMA Stored ==
  ASSUME NEW t, Typed(t), NEW a \in Nodes(t), NEW n \in NodeType
  PROVE  LET v == MarkNode(t, a, n) IN
         /\ Typed(v) /\ Nodes(v) = Nodes(t) /\ v.root = t.root /\ v.page = t.page
         /\ v.node[a] = n /\ \A x \in Nodes(t) : x # a => v.node[x] = t.node[x]
<1> DEFINE v == MarkNode(t, a, n)
<1>1. Formed(t) /\ a \in DOMAIN t.node
  BY DEF Typed, Nodes
<1>2. /\ Formed(v) /\ v.root = t.root /\ v.page = t.page
      /\ IsMap(v.node) /\ DOMAIN v.node = DOMAIN t.node \union {a}
      /\ v.node[a] = n /\ \A x \in DOMAIN t.node : x # a => v.node[x] = t.node[x]
  BY <1>1, Marked
<1>. HIDE DEF v
<1>3. Nodes(v) = Nodes(t)
  BY <1>1, <1>2 DEF Nodes
<1>4. v.node \in [Nodes(t) -> NodeType]
  <2>1. \A x \in Nodes(t) : v.node[x] \in NodeType
    BY <1>2 DEF Typed, Nodes
  <2>2. v.node = [x \in Nodes(t) |-> v.node[x]]
    BY <1>2, <1>3, Zenon DEF IsMap, Nodes
  <2>. QED
    BY <2>1, <2>2
<1>5. Typed(v)
  <2>1. v.node \in [Nodes(v) -> NodeType]
    BY <1>3, <1>4, Zenon
  <2>2. v.page = [pg \in DOMAIN v.page |-> v.page[pg]] /\ v.root \in Nodes(v)
    BY <1>2, <1>3, Zenon DEF Typed
  <2>3. IsFiniteSet(Nodes(v)) /\ Nodes(v) \subseteq Nat \ {0}
    BY <1>2, <1>3, Zenon DEF Typed
  <2>4. /\ IsFiniteSet(DOMAIN v.page) /\ DOMAIN v.page \subseteq Nat \ {0}
        /\ \A pg \in DOMAIN v.page : PageType(v.page[pg])
    BY <1>2, Zenon DEF Typed
  <2>. QED
    BY <1>2, <2>1, <2>2, <2>3, <2>4, Zenon DEF Typed
<1>. QED
  BY <1>2, <1>3, <1>5, Zenon DEF v, Nodes

\* A node with other keys or another largest key.
LEMMA Rekeyed ==
  ASSUME NEW n \in NodeType, NEW i \in 1 .. Len(n.keys), NEW k \in Key
  PROVE  /\ [n EXCEPT !.keys[i] = k] \in NodeType
         /\ [n EXCEPT !.keys[i] = k].leaf = n.leaf /\ [n EXCEPT !.keys[i] = k].kids = n.kids
         /\ [n EXCEPT !.keys[i] = k].max = n.max /\ [n EXCEPT !.keys[i] = k].parent = n.parent
         /\ [n EXCEPT !.keys[i] = k].prev = n.prev /\ [n EXCEPT !.keys[i] = k].next = n.next
         /\ Len([n EXCEPT !.keys[i] = k].keys) = Len(n.keys)
         /\ \A j \in 1 .. Len(n.keys) : [n EXCEPT !.keys[i] = k].keys[j] = IF j = i THEN k ELSE n.keys[j]
<1> DEFINE s == [n.keys EXCEPT ![i] = k]
           m == [n EXCEPT !.keys[i] = k]
<1>1. n.keys \in Seq(Key)
  BY DEF NodeType
<1>2. s \in Seq(Key) /\ Len(s) = Len(n.keys) /\ \A j \in 1 .. Len(n.keys) : s[j] = IF j = i THEN k ELSE n.keys[j]
  BY <1>1, ChangedItems
<1>3. m = [leaf |-> n.leaf, kids |-> n.kids, keys |-> s, max |-> n.max, parent |-> n.parent,
           prev |-> n.prev, next |-> n.next]
  <2>1. m = [n EXCEPT !.keys = s]
    OBVIOUS
  <2>. HIDE DEF s, m
  <2>. QED
    BY <2>1 DEF NodeType
<1>. HIDE DEF s, m
<1>4. m \in NodeType
  BY <1>2, <1>3 DEF NodeType
<1>5. /\ m.leaf = n.leaf /\ m.kids = n.kids /\ m.max = n.max /\ m.parent = n.parent
      /\ m.prev = n.prev /\ m.next = n.next /\ m.keys = s
  BY <1>3
<1>. QED
  BY <1>2, <1>4, <1>5 DEF m

LEMMA Remaxed ==
  ASSUME NEW n \in NodeType, NEW k \in Key
  PROVE  /\ [n EXCEPT !.max = k] \in NodeType
         /\ [n EXCEPT !.max = k].leaf = n.leaf /\ [n EXCEPT !.max = k].kids = n.kids
         /\ [n EXCEPT !.max = k].max = k /\ [n EXCEPT !.max = k].parent = n.parent
         /\ [n EXCEPT !.max = k].prev = n.prev /\ [n EXCEPT !.max = k].next = n.next
         /\ [n EXCEPT !.max = k].keys = n.keys
BY DEF NodeType

\* What the invariant says of the values at a node.
LEMMA GhostTypes ==
  ASSUME NEW t, NEW lv, NEW lo, NEW nx, NEW loose, NEW over, Good(t, lv, lo, nx, loose, over),
         NEW a \in Nodes(t)
  PROVE  /\ lv[a] \in Nat /\ lo[a] \in Int /\ lo[a] >= -1 /\ lo[a] < Top(t, a)
         /\ nx[a] # 0 => nx[a] \in Nodes(t)
         /\ \A i \in 1 .. Len(Kids(t, a)) : ~Leaf(t, a) => Kids(t, a)[i] \in Nodes(t) /\ Up(t, Kids(t, a)[i]) = a
         /\ Len(Kids(t, a)) >= 1
         /\ Len(Keys(t, a)) = IF Leaf(t, a) THEN Len(Kids(t, a)) ELSE Len(Kids(t, a)) - 1
<1>1. lv[a] \in Nat /\ lo[a] \in Int /\ lo[a] >= -1 /\ lo[a] < Top(t, a)
  BY DEF Good, Levels, Bounds
<1>2. nx[a] # 0 => nx[a] \in Nodes(t)
  BY DEF Good, Ordered
<1>3. \A i \in 1 .. Len(Kids(t, a)) : ~Leaf(t, a) => Kids(t, a)[i] \in Nodes(t) /\ Up(t, Kids(t, a)[i]) = a
  BY DEF Good, Children
<1>4. Len(Kids(t, a)) >= 1 /\ Len(Keys(t, a)) = IF Leaf(t, a) THEN Len(Kids(t, a)) ELSE Len(Kids(t, a)) - 1
  BY DEF Good, Arrays
<1>. QED
  BY <1>1, <1>2, <1>3, <1>4

LEMMA BoundTypes ==
  ASSUME NEW t, NEW lv, NEW lo, NEW nx, NEW loose, NEW over, Good(t, lv, lo, nx, loose, over),
         NEW a \in Nodes(t), NEW i \in 1 .. Len(Kids(t, a))
  PROVE  LoAt(t, lo, a, i) \in Int /\ HiAt(t, a, i) \in Nat
<1>1. /\ Len(Keys(t, a)) = IF Leaf(t, a) THEN Len(Kids(t, a)) ELSE Len(Kids(t, a)) - 1
      /\ lo[a] \in Int
  BY GhostTypes
<1>2. /\ Len(Kids(t, a)) \in Nat /\ Top(t, a) \in Nat
      /\ \A j \in 1 .. Len(Keys(t, a)) : Keys(t, a)[j] \in Nat
  BY NodeFields DEF Good
<1>3. LoAt(t, lo, a, i) \in Int
  <2>1. CASE i = 1
    BY <2>1, <1>1 DEF LoAt
  <2>2. CASE i # 1
    <3>1. i - 1 \in 1 .. Len(Keys(t, a))
      BY <2>2, <1>1, <1>2
    <3>. QED
      BY <3>1, <2>2, <1>2 DEF LoAt
  <2>. QED
    BY <2>1, <2>2
<1>4. HiAt(t, a, i) \in Nat
  <2>1. CASE i <= Len(Keys(t, a))
    <3>1. i \in 1 .. Len(Keys(t, a))
      BY <2>1, <1>1, <1>2
    <3>. QED
      BY <3>1, <2>1, <1>2 DEF HiAt
  <2>2. CASE ~(i <= Len(Keys(t, a)))
    BY <2>2, <1>2 DEF HiAt
  <2>. QED
    BY <2>1, <2>2
<1>. QED
  BY <1>3, <1>4

\* The node at "over" may have outgrown its parent's bounds; if none has, any may.
LEMMA OverAny ==
  ASSUME NEW t, NEW lv, NEW lo, NEW nx, NEW loose, Good(t, lv, lo, nx, loose, 0), NEW a
  PROVE  Good(t, lv, lo, nx, loose, a)
<1>1. ASSUME NEW x \in Nodes(t), ~Leaf(t, x), NEW i \in 1 .. Len(Kids(t, x)) PROVE Kids(t, x)[i] # 0
  BY <1>1, NodeFields DEF Good
<1>2. Bounds(t, lo, a)
  BY <1>1 DEF Good, Bounds
<1>. QED
  BY <1>2 DEF Good

\* The largest key of the root concerns nobody else.
LEMMA OverRoot ==
  ASSUME NEW t, NEW lv, NEW lo, NEW nx, NEW loose, Good(t, lv, lo, nx, loose, t.root)
  PROVE  Good(t, lv, lo, nx, loose, 0)
<1>1. ASSUME NEW x \in Nodes(t), ~Leaf(t, x), NEW i \in 1 .. Len(Kids(t, x)) PROVE Kids(t, x)[i] # t.root
  BY <1>1, RootIsNoChild DEF Good
<1>2. Bounds(t, lo, 0)
  BY <1>1 DEF Good, Bounds
<1>. QED
  BY <1>2 DEF Good

\* The parts of the invariant that keys and bounds are not in.
LEMMA SameButKeeps ==
  ASSUME NEW t, NEW v, NEW lv, NEW lo, NEW nx, NEW loose, NEW over, NEW p,
         Good(t, lv, lo, nx, loose, over), SameBut(t, v, p)
  PROVE  /\ Typed(v) /\ Arrays(v) /\ Parents(v) /\ Levels(v, lv) /\ Children(v, lv)
         /\ Following(v, nx) /\ Linked(v, nx) /\ Placed(v, loose)
<1>1. \A a \in Nodes(t) : nx[a] # 0 => nx[a] \in Nodes(t)
  BY DEF Good, Ordered
<1>2. Typed(v) /\ Alike(t, v) /\ Typed(t)
  BY DEF SameBut, Good
<1>3. /\ Arrays(t) /\ Parents(t) /\ Levels(t, lv) /\ Children(t, lv)
      /\ Following(t, nx) /\ Linked(t, nx) /\ Placed(t, loose)
  BY DEF Good
<1>. QED
  BY <1>1, <1>2, <1>3, AlikeKeeps

\* The parent's separator for the node at a becomes its largest key.
LEMMA RaisedSeparator ==
  ASSUME NEW t, NEW v, NEW lv, NEW lo, NEW nx, NEW loose, NEW a \in Nodes(t), NEW p \in Nodes(t),
         Good(t, lv, lo, nx, loose, a), ~Leaf(t, p), NEW i, ChildAt(t, p, i, a),
         i < Len(Kids(t, p)), SameBut(t, v, p), KeyAt(t, v, p, i, Top(t, a))
  PROVE  Good(v, lv, lo, nx, loose, 0)
<1> DEFINE n == Len(Kids(t, p))
           d == Kids(t, p)[i + 1]
<1>1. /\ Typed(v) /\ Arrays(v) /\ Parents(v) /\ Levels(v, lv) /\ Children(v, lv)
      /\ Following(v, nx) /\ Linked(v, nx) /\ Placed(v, loose)
  BY SameButKeeps
<1>2. /\ i \in 1 .. n /\ n \in Nat /\ i + 1 \in 1 .. n /\ Kids(t, p)[i] = a
      /\ Len(Keys(t, p)) = n - 1 /\ Len(Keys(v, p)) = n - 1
  BY NodeFields, GhostTypes DEF ChildAt, Good, SameBut, Alike
<1>3. /\ Nodes(v) = Nodes(t) /\ v.root = t.root /\ v.page = t.page
      /\ \A x \in Nodes(t) : Top(v, x) = Top(t, x) /\ Kids(v, x) = Kids(t, x) /\ Leaf(v, x) = Leaf(t, x)
      /\ \A x \in Nodes(t) : x # p => Keys(v, x) = Keys(t, x)
  BY DEF SameBut, Alike, KeyAt, Top, Kids, Leaf, Keys
<1>4. \A j \in 1 .. (n - 1) : Keys(v, p)[j] = IF j = i THEN Top(t, a) ELSE Keys(t, p)[j]
  BY <1>2 DEF KeyAt
<1>5. \A x \in Nodes(t) : x # p => \A j : LoAt(v, lo, x, j) = LoAt(t, lo, x, j) /\ HiAt(v, x, j) = HiAt(t, x, j)
  BY <1>3 DEF LoAt, HiAt
<1>6. d \in Nodes(t) /\ d # a /\ nx[a] = d /\ Top(t, a) <= lo[d] /\ lo[d] < Top(t, d)
  <2>1. d \in Nodes(t) /\ d # a
    BY <1>2, GhostTypes DEF Good, Arrays
  <2>2. nx[a] = d
    BY <1>2 DEF Good, Following
  <2>3. Top(t, a) <= lo[d]
    BY <2>1, <2>2, NodeFields DEF Good, Ordered
  <2>. QED
    BY <2>1, <2>2, <2>3, GhostTypes
<1>7. Bounds(v, lo, 0)
  <2>1. ASSUME NEW x \in Nodes(t) PROVE lo[x] \in Int /\ lo[x] >= -1 /\ lo[x] < Top(v, x)
    BY <1>3, GhostTypes
  <2>2. ASSUME NEW x \in Nodes(t), x # p, ~Leaf(t, x), NEW j \in 1 .. Len(Kids(t, x)), NEW c, c = Kids(t, x)[j]
        PROVE  /\ lo[x] <= LoAt(v, lo, x, j) /\ LoAt(v, lo, x, j) <= lo[c]
               /\ Top(v, c) <= HiAt(v, x, j)
               /\ HiAt(v, x, j) <= Top(v, x)
               /\ j = 1 => lo[c] = lo[x]
    <3>1. c \in Nodes(t) /\ Up(t, c) = x /\ Up(t, a) = p
      BY <2>2, <1>2, GhostTypes
    <3>2. c # a
      BY <3>1, <2>2
    <3>3. /\ lo[x] <= LoAt(t, lo, x, j) /\ LoAt(t, lo, x, j) <= lo[c]
          /\ Top(t, c) <= HiAt(t, x, j)
          /\ HiAt(t, x, j) <= Top(t, x)
          /\ j = 1 => lo[c] = lo[x]
      BY <2>2, <3>2 DEF Good, Bounds
    <3>. QED
      BY <3>1, <3>3, <1>3, <1>5, <2>2
  <2>3. ASSUME NEW j \in 1 .. n, NEW c, c = Kids(t, p)[j]
        PROVE  /\ lo[p] <= LoAt(v, lo, p, j) /\ LoAt(v, lo, p, j) <= lo[c]
               /\ Top(v, c) <= HiAt(v, p, j)
               /\ HiAt(v, p, j) <= Top(v, p)
               /\ j = 1 => lo[c] = lo[p]
    <3>1. /\ lo[p] <= LoAt(t, lo, p, j) /\ LoAt(t, lo, p, j) <= lo[c]
          /\ c # a => Top(t, c) <= HiAt(t, p, j)
          /\ HiAt(t, p, j) <= Top(t, p)
          /\ j = 1 => lo[c] = lo[p]
      BY <2>3 DEF Good, Bounds
    <3>2. c \in Nodes(t) /\ Top(v, c) = Top(t, c) /\ Top(v, p) = Top(t, p)
      BY <2>3, <1>3, GhostTypes
    <3>3. j # i => c # a
      BY <2>3, <1>2 DEF Good, Arrays
    <3>4. /\ lo[p] \in Int /\ lo[c] \in Int /\ Top(t, a) \in Nat /\ Top(t, c) \in Nat /\ Top(t, p) \in Nat
          /\ lo[a] \in Int /\ lo[a] < Top(t, a)
      BY <3>2, GhostTypes, NodeFields DEF Good
    <3>5. lo[p] <= lo[a]
      <4>1. /\ lo[p] <= LoAt(t, lo, p, i) /\ LoAt(t, lo, p, i) <= lo[a]
        BY <1>2 DEF Good, Bounds
      <4>2. LoAt(t, lo, p, i) \in Int
        BY <1>2, BoundTypes
      <4>. QED
        BY <4>1, <4>2, <3>4
    <3>6. LoAt(v, lo, p, j) = IF j = i + 1 THEN Top(t, a) ELSE LoAt(t, lo, p, j)
      BY <1>2, <1>4 DEF LoAt
    <3>7. HiAt(v, p, j) = IF j = i THEN Top(t, a) ELSE HiAt(t, p, j)
      BY <1>2, <1>4, <3>2 DEF HiAt
    <3>8. CASE j = i
      <4>1. c = a /\ j # i + 1
        BY <3>8, <1>2, <2>3
      <4>2. Top(t, a) <= Top(t, p)
        <5>1. HiAt(t, p, i + 1) <= Top(t, p) /\ Top(t, d) <= HiAt(t, p, i + 1)
          BY <1>2, <1>6 DEF Good, Bounds
        <5>2. HiAt(t, p, i + 1) \in Nat /\ Top(t, d) \in Nat /\ lo[d] \in Int
          BY <1>2, <1>6, NodeFields, GhostTypes, BoundTypes DEF Good
        <5>. QED
          BY <5>1, <5>2, <1>6, <3>4
      <4>. QED
        BY <4>1, <4>2, <3>1, <3>2, <3>4, <3>6, <3>7, <3>8
    <3>9. CASE j = i + 1
      <4>1. c = d /\ j # i
        BY <3>9, <1>2, <2>3
      <4>2. lo[p] <= Top(t, a) /\ Top(t, a) <= lo[c] /\ c # a
        BY <3>4, <3>5, <4>1, <1>6
      <4>. QED
        BY <4>1, <4>2, <3>1, <3>2, <3>4, <3>6, <3>7, <3>9
    <3>10. CASE j # i /\ j # i + 1
      BY <3>1, <3>2, <3>3, <3>6, <3>7, <3>10
    <3>. QED
      BY <3>8, <3>9, <3>10
  <2>4. ASSUME NEW x \in Nodes(t), ~Leaf(t, x), NEW j \in 1 .. Len(Kids(t, x)), NEW c, c = Kids(t, x)[j]
        PROVE  /\ lo[x] <= LoAt(v, lo, x, j) /\ LoAt(v, lo, x, j) <= lo[c]
               /\ Top(v, c) <= HiAt(v, x, j)
               /\ HiAt(v, x, j) <= Top(v, x)
               /\ j = 1 => lo[c] = lo[x]
    BY <2>2, <2>3, <2>4
  <2>. QED
    BY <2>1, <2>4, <1>3 DEF Bounds
<1>8. Filed(v, lo)
  <2>1. \A x \in Nodes(t) : Leaf(t, x) => x # p
    OBVIOUS
  <2>2. Filed(t, lo)
    BY DEF Good
  <2>. QED
    BY <1>3, <1>5, <2>1, <2>2 DEF Filed
<1>9. Ordered(v, lv, lo, nx)
  BY <1>3 DEF Good, Ordered
<1>. QED
  BY <1>1, <1>7, <1>8, <1>9 DEF Good

\* The largest key of a node becomes that of its last child.
LEMMA RaisedTop ==
  ASSUME NEW t, NEW v, NEW lv, NEW lo, NEW nx, NEW loose, NEW a \in Nodes(t), NEW p \in Nodes(t),
         Good(t, lv, lo, nx, loose, a), ~Leaf(t, p), NEW i, ChildAt(t, p, i, a),
         i = Len(Kids(t, p)), SameBut(t, v, p), TopIs(t, v, p, Top(t, a))
  PROVE  Good(v, lv, lo, nx, loose, p)
<1> DEFINE n == Len(Kids(t, p))
<1>1. /\ Typed(v) /\ Arrays(v) /\ Parents(v) /\ Levels(v, lv) /\ Children(v, lv)
      /\ Following(v, nx) /\ Linked(v, nx) /\ Placed(v, loose)
  BY SameButKeeps
<1>2. /\ i \in 1 .. n /\ n \in Nat /\ i = n /\ Kids(t, p)[n] = a
      /\ Len(Keys(t, p)) = n - 1 /\ Up(t, a) = p
  BY NodeFields, GhostTypes DEF ChildAt, Good
<1>3. /\ Nodes(v) = Nodes(t) /\ v.root = t.root /\ v.page = t.page
      /\ \A x \in Nodes(t) : Keys(v, x) = Keys(t, x) /\ Kids(v, x) = Kids(t, x) /\ Leaf(v, x) = Leaf(t, x)
      /\ \A x \in Nodes(t) : x # p => Top(v, x) = Top(t, x)
      /\ Top(v, p) = Top(t, a)
  BY DEF SameBut, Alike, TopIs, Top, Kids, Leaf, Keys
<1>4. \A x \in Nodes(t) : \A j : LoAt(v, lo, x, j) = LoAt(t, lo, x, j)
  BY <1>3 DEF LoAt
<1>5. \A x \in Nodes(t) : x # p => \A j : HiAt(v, x, j) = HiAt(t, x, j)
  BY <1>3 DEF HiAt
<1>6. /\ lo[p] \in Int /\ lo[a] \in Int /\ Top(t, a) \in Nat /\ Top(t, p) \in Nat
      /\ lo[a] < Top(t, a)
  BY GhostTypes, NodeFields DEF Good
<1>7. /\ lo[p] <= LoAt(t, lo, p, n) /\ LoAt(t, lo, p, n) <= lo[a] /\ LoAt(t, lo, p, n) \in Int
  <2>1. n \in 1 .. Len(Kids(t, p))
    BY <1>2
  <2>2. LoAt(t, lo, p, n) \in Int
    BY <2>1, BoundTypes
  <2>3. lo[p] <= LoAt(t, lo, p, n) /\ LoAt(t, lo, p, n) <= lo[Kids(t, p)[n]]
    BY <2>1 DEF Good, Bounds
  <2>. QED
    BY <2>2, <2>3, <1>2
<1>8. \A j \in 1 .. (n - 1) : Keys(t, p)[j] <= LoAt(t, lo, p, n) /\ Keys(t, p)[j] \in Nat
  <2>1. ASSUME NEW j \in 1 .. (n - 1) PROVE Kids(t, p)[j] # a
    BY <1>2 DEF Good, Arrays
  <2>2. \A j, m \in 1 .. Len(Keys(t, p)) : j < m => Keys(t, p)[j] < Keys(t, p)[m]
    BY <1>2, <2>1, KeysAscend DEF Good
  <2>3. \A j \in 1 .. Len(Keys(t, p)) : Keys(t, p)[j] \in Nat
    BY NodeFields DEF Good
  <2>4. ASSUME NEW j \in 1 .. (n - 1) PROVE Keys(t, p)[j] <= LoAt(t, lo, p, n)
    <3>1. n # 1 /\ n - 1 \in 1 .. Len(Keys(t, p))
      BY <1>2
    <3>2. LoAt(t, lo, p, n) = Keys(t, p)[n - 1]
      BY <3>1 DEF LoAt
    <3>. QED
      BY <2>2, <2>3, <3>1, <3>2, <1>2
  <2>. QED
    BY <2>3, <2>4, <1>2
<1>9. Bounds(v, lo, p)
  <2>1. ASSUME NEW x \in Nodes(t) PROVE lo[x] \in Int /\ lo[x] >= -1 /\ lo[x] < Top(v, x)
    <3>1. CASE x = p
      BY <3>1, <1>3, <1>6, <1>7, GhostTypes
    <3>2. CASE x # p
      BY <3>2, <1>3, GhostTypes
    <3>. QED
      BY <3>1, <3>2
  <2>2. ASSUME NEW x \in Nodes(t), x # p, ~Leaf(t, x), NEW j \in 1 .. Len(Kids(t, x)), NEW c, c = Kids(t, x)[j]
        PROVE  /\ lo[x] <= LoAt(v, lo, x, j) /\ LoAt(v, lo, x, j) <= lo[c]
               /\ c # p => Top(v, c) <= HiAt(v, x, j)
               /\ HiAt(v, x, j) <= Top(v, x)
               /\ j = 1 => lo[c] = lo[x]
    <3>1. c \in Nodes(t) /\ Up(t, c) = x /\ Up(t, a) = p
      BY <2>2, <1>2, GhostTypes
    <3>2. c # a
      BY <3>1, <2>2
    <3>3. /\ lo[x] <= LoAt(t, lo, x, j) /\ LoAt(t, lo, x, j) <= lo[c]
          /\ Top(t, c) <= HiAt(t, x, j)
          /\ HiAt(t, x, j) <= Top(t, x)
          /\ j = 1 => lo[c] = lo[x]
      BY <2>2, <3>2 DEF Good, Bounds
    <3>. QED
      BY <3>1, <3>3, <1>3, <1>4, <1>5, <2>2
  <2>3. ASSUME NEW j \in 1 .. n, NEW c, c = Kids(t, p)[j]
        PROVE  /\ lo[p] <= LoAt(v, lo, p, j) /\ LoAt(v, lo, p, j) <= lo[c]
               /\ Top(v, c) <= HiAt(v, p, j)
               /\ HiAt(v, p, j) <= Top(v, p)
               /\ j = 1 => lo[c] = lo[p]
    <3>1. /\ lo[p] <= LoAt(t, lo, p, j) /\ LoAt(t, lo, p, j) <= lo[c]
          /\ c # a => Top(t, c) <= HiAt(t, p, j)
          /\ j = 1 => lo[c] = lo[p]
      BY <2>3 DEF Good, Bounds
    <3>2. c \in Nodes(t) /\ c # p
      <4>1. c \in Nodes(t) /\ lv[p] = lv[c] + 1 /\ lv[c] \in Nat
        BY <2>3, GhostTypes DEF Good, Children
      <4>. QED
        BY <4>1
    <3>3. Top(v, c) = Top(t, c) /\ Top(t, c) \in Nat
      BY <3>2, <1>3, NodeFields DEF Good
    <3>4. CASE j = n
      <4>1. c = a /\ HiAt(v, p, j) = Top(t, a)
        BY <3>4, <1>2, <1>3, <2>3 DEF HiAt
      <4>. QED
        BY <4>1, <3>1, <3>3, <1>3, <1>4, <1>6
    <3>5. CASE j # n
      <4>1. j \in 1 .. (n - 1) /\ c # a
        BY <3>5, <1>2, <2>3 DEF Good, Arrays
      <4>2. HiAt(v, p, j) = Keys(t, p)[j] /\ HiAt(t, p, j) = Keys(t, p)[j]
        BY <4>1, <1>2, <1>3 DEF HiAt
      <4>3. Keys(t, p)[j] <= Top(t, a)
        BY <4>1, <1>6, <1>7, <1>8
      <4>. QED
        BY <4>1, <4>2, <4>3, <3>1, <3>3, <1>3, <1>4
    <3>. QED
      BY <3>4, <3>5
  <2>4. ASSUME NEW x \in Nodes(t), ~Leaf(t, x), NEW j \in 1 .. Len(Kids(t, x)), NEW c, c = Kids(t, x)[j]
        PROVE  /\ lo[x] <= LoAt(v, lo, x, j) /\ LoAt(v, lo, x, j) <= lo[c]
               /\ c # p => Top(v, c) <= HiAt(v, x, j)
               /\ HiAt(v, x, j) <= Top(v, x)
               /\ j = 1 => lo[c] = lo[x]
    BY <2>2, <2>3, <2>4
  <2>. QED
    BY <2>1, <2>4, <1>3 DEF Bounds
<1>10. Filed(v, lo)
  <2>1. \A x \in Nodes(t) : Leaf(t, x) => x # p
    OBVIOUS
  <2>2. Filed(t, lo)
    BY DEF Good
  <2>. QED
    BY <1>3, <1>4, <2>1, <2>2 DEF Filed
<1>11. Ordered(v, lv, lo, nx)
  <2>1. ASSUME nx[p] # 0 PROVE Top(t, a) <= lo[nx[p]]
    <3>1. nx[p] \in Nodes(t) /\ lv[nx[p]] = lv[p] /\ ~Leaf(t, nx[p])
      BY <2>1 DEF Good, Ordered, Levels
    <3>2. nx[a] = Kids(t, nx[p])[1]
      BY <1>2, <2>1 DEF Good, Following
    <3>3. 1 \in 1 .. Len(Kids(t, nx[p]))
      BY <3>1, NodeFields, GhostTypes DEF Good
    <3>4. nx[a] \in Nodes(t) /\ lo[nx[a]] = lo[nx[p]]
      BY <3>1, <3>2, <3>3 DEF Good, Bounds, Children
    <3>5. nx[a] # 0
      BY <3>4, NodeFields DEF Good
    <3>. QED
      BY <3>4, <3>5 DEF Good, Ordered
  <2>2. Ordered(t, lv, lo, nx)
    BY DEF Good
  <2>. QED
    BY <1>3, <2>1, <2>2 DEF Ordered
<1>. QED
  BY <1>1, <1>9, <1>10, <1>11 DEF Good

\* A node stored with another key, or another largest key.
LEMMA KeyMarked ==
  ASSUME NEW t, Typed(t), NEW p \in Nodes(t), NEW i \in 1 .. Len(Keys(t, p)), NEW k \in Key
  PROVE  LET v == MarkNode(t, p, [t.node[p] EXCEPT !.keys[i] = k]) IN
         SameBut(t, v, p) /\ KeyAt(t, v, p, i, k)
<1> DEFINE m == [t.node[p] EXCEPT !.keys[i] = k]
           v == MarkNode(t, p, m)
<1>1. t.node[p] \in NodeType
  BY DEF Typed
<1>2. /\ m \in NodeType
      /\ m.leaf = t.node[p].leaf /\ m.kids = t.node[p].kids
      /\ m.max = t.node[p].max /\ m.parent = t.node[p].parent
      /\ m.prev = t.node[p].prev /\ m.next = t.node[p].next
      /\ Len(m.keys) = Len(t.node[p].keys)
      /\ \A j \in 1 .. Len(t.node[p].keys) : m.keys[j] = IF j = i THEN k ELSE t.node[p].keys[j]
  BY <1>1, Rekeyed DEF Keys
<1>. HIDE DEF m
<1>3. /\ Typed(v) /\ Nodes(v) = Nodes(t) /\ v.root = t.root /\ v.page = t.page
      /\ v.node[p] = m /\ \A x \in Nodes(t) : x # p => v.node[x] = t.node[x]
  BY <1>2, Stored
<1>. HIDE DEF v
<1>4. Alike(t, v)
  BY <1>2, <1>3 DEF Alike, Leaf, Kids, Up, Keys
<1>5. KeyAt(t, v, p, i, k)
  BY <1>2, <1>3 DEF KeyAt, Keys, Top
<1>6. SameBut(t, v, p)
  BY <1>3, <1>4 DEF SameBut
<1>. QED
  BY <1>5, <1>6 DEF v, m

LEMMA TopMarked ==
  ASSUME NEW t, Typed(t), NEW p \in Nodes(t), NEW k \in Key
  PROVE  LET v == MarkNode(t, p, [t.node[p] EXCEPT !.max = k]) IN
         SameBut(t, v, p) /\ TopIs(t, v, p, k)
<1> DEFINE m == [t.node[p] EXCEPT !.max = k]
           v == MarkNode(t, p, m)
<1>1. t.node[p] \in NodeType
  BY DEF Typed
<1>2. /\ m \in NodeType
      /\ m.leaf = t.node[p].leaf /\ m.kids = t.node[p].kids
      /\ m.max = k /\ m.parent = t.node[p].parent
      /\ m.prev = t.node[p].prev /\ m.next = t.node[p].next
      /\ m.keys = t.node[p].keys
  BY <1>1, Remaxed
<1>. HIDE DEF m
<1>3. /\ Typed(v) /\ Nodes(v) = Nodes(t) /\ v.root = t.root /\ v.page = t.page
      /\ v.node[p] = m /\ \A x \in Nodes(t) : x # p => v.node[x] = t.node[x]
  BY <1>2, Stored
<1>. HIDE DEF v
<1>4. Alike(t, v)
  BY <1>2, <1>3 DEF Alike, Leaf, Kids, Up, Keys
<1>5. TopIs(t, v, p, k)
  BY <1>2, <1>3 DEF TopIs, Keys, Top
<1>6. SameBut(t, v, p)
  BY <1>3, <1>4 DEF SameBut
<1>. QED
  BY <1>5, <1>6 DEF v, m

LEMMA GoodParent ==
  ASSUME NEW t, NEW lv, NEW lo, NEW nx, NEW loose, NEW over, Good(t, lv, lo, nx, loose, over),
         NEW a \in Nodes(t), a # t.root
  PROVE  /\ Up(t, a) \in Nodes(t) /\ ~Leaf(t, Up(t, a)) /\ lv[Up(t, a)] = lv[a] + 1
         /\ Position(Kids(t, Up(t, a)), a) \in 1 .. Len(Kids(t, Up(t, a)))
         /\ Kids(t, Up(t, a))[Position(Kids(t, Up(t, a)), a)] = a
         /\ Up(t, a) # 0 /\ Up(t, a) # a
<1>1. Typed(t) /\ Arrays(t) /\ Parents(t) /\ Children(t, lv) /\ Levels(t, lv)
  BY DEF Good
<1>2. /\ Up(t, a) \in Nodes(t) /\ ~Leaf(t, Up(t, a)) /\ lv[Up(t, a)] = lv[a] + 1
      /\ Position(Kids(t, Up(t, a)), a) \in 1 .. Len(Kids(t, Up(t, a)))
      /\ Kids(t, Up(t, a))[Position(Kids(t, Up(t, a)), a)] = a
  BY <1>1, ParentOf
<1>3. Up(t, a) # 0 /\ lv[a] \in Nat
  BY <1>1, <1>2, NodeFields DEF Levels
<1>. QED
  BY <1>2, <1>3

\* What is true in a climb i levels above the node it began at.
Climbs(t, lv, lo, nx, loose, a, k, i, s) ==
  /\ s = [tree |-> s.tree, at |-> s.at]
  /\ Alike(t, s.tree)
  /\ \A x \in Nodes(t) : lv[x] <= lv[a] => s.tree.node[x] = t.node[x]
  /\ IF s.at = 0 THEN Good(s.tree, lv, lo, nx, loose, 0)
     ELSE /\ s.at \in Nodes(t) /\ Good(s.tree, lv, lo, nx, loose, s.at)
          /\ Top(s.tree, s.at) = k /\ lv[s.at] = lv[a] + i

LEMMA AlikeTwice ==
  ASSUME NEW t, NEW u, NEW v, Alike(t, u), Alike(u, v)
  PROVE  Alike(t, v)
BY DEF Alike

\* One level up.
LEMMA ClimbStep ==
  ASSUME NEW t, NEW lv, NEW lo, NEW nx, NEW loose, NEW a \in Nodes(t), lv[a] \in Nat, NEW k,
         NEW i \in Nat, NEW s, Climbs(t, lv, lo, nx, loose, a, k, i, s)
  PROVE  Climbs(t, lv, lo, nx, loose, a, k, i + 1, RaiseParent(s, k))
<1> DEFINE u == s.tree
           x == s.at
           up == u.node[x].parent
           p == u.node[up]
           j == Position(p.kids, x)
           r == RaiseParent(s, k)
<1>1. CASE x = 0
  <2>1. r = [s EXCEPT !.at = 0]
    BY <1>1 DEF RaiseParent
  <2>2. r = s
    BY <2>1, <1>1 DEF Climbs
  <2>. QED
    BY <2>2, <1>1 DEF Climbs
<1>2. CASE x # 0 /\ x = u.root
  <2>1. Good(u, lv, lo, nx, loose, x)
    BY <1>2 DEF Climbs
  <2>2. up = 0
    BY <2>1, <1>2 DEF Good, Parents, Up
  <2>3. r = [s EXCEPT !.at = 0]
    BY <2>2 DEF RaiseParent
  <2>4. r = [tree |-> u, at |-> 0]
    BY <2>3 DEF Climbs
  <2>5. Good(u, lv, lo, nx, loose, 0)
    BY <2>1, <1>2, OverRoot
  <2>. QED
    BY <2>4, <2>5 DEF Climbs
<1>3. CASE x # 0 /\ x # u.root
  <2>1. /\ Good(u, lv, lo, nx, loose, x) /\ Top(u, x) = k /\ x \in Nodes(u) /\ Nodes(u) = Nodes(t)
        /\ lv[x] = lv[a] + i
    BY <1>3 DEF Climbs, Alike
  <2>2. /\ up \in Nodes(u) /\ ~Leaf(u, up) /\ lv[up] = lv[x] + 1 /\ up # 0
        /\ j \in 1 .. Len(Kids(u, up)) /\ Kids(u, up)[j] = x
    <3>1. up = Up(u, x) /\ p.kids = Kids(u, up)
      BY DEF Up, Kids
    <3>. HIDE DEF up, p
    <3>. QED
      BY <3>1, <2>1, <1>3, GoodParent
  <2>3. Len(Kids(u, up)) \in Nat /\ Len(Keys(u, up)) = Len(Kids(u, up)) - 1 /\ j # 0
    <3>. HIDE DEF u, up, j
    <3>1. Typed(u)
      BY <2>1 DEF Good
    <3>2. Len(Kids(u, up)) \in Nat
      BY <3>1, <2>2, NodeFields
    <3>3. Len(Keys(u, up)) = Len(Kids(u, up)) - 1
      BY <2>1, <2>2, GhostTypes
    <3>. QED
      BY <3>2, <3>3, <2>2
  <2>4. k \in Key /\ Typed(u)
    BY <2>1, NodeFields DEF Good
  <2>5. CASE j < Len(Kids(u, up))
    <3> DEFINE v == MarkNode(u, up, [u.node[up] EXCEPT !.keys[j] = k])
    <3>1. r = [tree |-> v, at |-> 0]
      BY <1>3, <2>2, <2>3, <2>5 DEF RaiseParent, Kids
    <3>2. SameBut(u, v, up) /\ KeyAt(u, v, up, j, k)
      <4>1. j \in 1 .. Len(Keys(u, up))
        BY <2>2, <2>3, <2>5, SMTT(30)
      <4>. HIDE DEF j, up
      <4>. QED
        BY <4>1, <2>2, <2>4, KeyMarked
    <3>. HIDE DEF v, r
    <3>3. Good(v, lv, lo, nx, loose, 0)
      <4>1. ChildAt(u, up, j, x)
        BY <2>2 DEF ChildAt
      <4>. HIDE DEF x, j, up, u
      <4>. QED
        BY <4>1, <2>1, <2>2, <2>5, <3>2, RaisedSeparator
    <3>4. Alike(u, v) /\ \A y \in Nodes(u) : y # up => v.node[y] = u.node[y]
      BY <3>2 DEF SameBut
    <3>5. Alike(t, v)
      BY <3>4, AlikeTwice DEF Climbs
    <3>6. \A y \in Nodes(t) : lv[y] <= lv[a] => v.node[y] = t.node[y]
      <4>1. ~(lv[up] <= lv[a])
        BY <2>1, <2>2
      <4>. QED
        BY <4>1, <3>4, <2>1 DEF Climbs
    <3>8. r = [tree |-> r.tree, at |-> r.at] /\ r.tree = v /\ r.at = 0
      BY <3>1
    <3>9. Climbs(t, lv, lo, nx, loose, a, k, i + 1, r)
      BY <3>8, <3>3, <3>5, <3>6, Zenon DEF Climbs
    <3>. QED
      BY <3>9 DEF r
  <2>6. CASE ~(j < Len(Kids(u, up)))
    <3> DEFINE v == MarkNode(u, up, [u.node[up] EXCEPT !.max = k])
    <3>1. r = [tree |-> v, at |-> up]
      BY <1>3, <2>2, <2>3, <2>6 DEF RaiseParent, Kids
    <3>2. SameBut(u, v, up) /\ TopIs(u, v, up, k)
      <4>. HIDE DEF up
      <4>. QED
        BY <2>2, <2>4, TopMarked
    <3>. HIDE DEF v, r
    <3>3. Good(v, lv, lo, nx, loose, up)
      <4>1. ChildAt(u, up, j, x) /\ j = Len(Kids(u, up))
        BY <2>2, <2>3, <2>6, SMTT(30) DEF ChildAt
      <4>. HIDE DEF x, j, up, u
      <4>. QED
        BY <4>1, <2>1, <2>2, <3>2, RaisedTop
    <3>4. Alike(u, v) /\ \A y \in Nodes(u) : y # up => v.node[y] = u.node[y]
      BY <3>2 DEF SameBut
    <3>5. Alike(t, v)
      BY <3>4, AlikeTwice DEF Climbs
    <3>6. \A y \in Nodes(t) : lv[y] <= lv[a] => v.node[y] = t.node[y]
      <4>1. ~(lv[up] <= lv[a])
        BY <2>1, <2>2
      <4>. QED
        BY <4>1, <3>4, <2>1 DEF Climbs
    <3>7. Top(v, up) = k /\ up \in Nodes(t) /\ lv[up] = lv[a] + (i + 1)
      BY <3>2, <2>1, <2>2, SMTT(30) DEF TopIs
    <3>8. r = [tree |-> r.tree, at |-> r.at] /\ r.tree = v /\ r.at = up
      BY <3>1
    <3>. HIDE DEF up
    <3>9. Climbs(t, lv, lo, nx, loose, a, k, i + 1, r)
      BY <3>8, <3>3, <3>5, <3>6, <3>7, <2>2, Zenon DEF Climbs
    <3>. QED
      BY <3>9 DEF r
  <2>. QED
    BY <2>5, <2>6
<1>. QED
  BY <1>1, <1>2, <1>3

\* The climb is over by the time there are no levels left.
LEMMA ClimbsAll ==
  ASSUME NEW t, NEW lv, NEW lo, NEW nx, NEW loose, NEW a \in Nodes(t), Good(t, lv, lo, nx, loose, a),
         NEW k, k = Top(t, a), NEW n \in Nat, NEW f, f[0] = [tree |-> t, at |-> a],
         \A i \in 1 .. n : f[i] = RaiseParent(f[i - 1], k), NEW i \in 0 .. n
  PROVE  Climbs(t, lv, lo, nx, loose, a, k, i, f[i])
<1> DEFINE T == {j \in 0 .. n : Climbs(t, lv, lo, nx, loose, a, k, j, f[j])}
<1>1. 0 \in T
  <2>1. Alike(t, t) /\ a # 0 /\ lv[a] \in Nat
    BY NodeFields, GhostTypes DEF Alike, Good
  <2>2. f[0].tree = t /\ f[0].at = a /\ f[0] = [tree |-> f[0].tree, at |-> f[0].at]
    OBVIOUS
  <2>3. Climbs(t, lv, lo, nx, loose, a, k, 0, f[0])
    <3>1. lv[f[0].at] = lv[a] + 0
      BY <2>1, <2>2
    <3>. QED
      BY <2>1, <2>2, <3>1, Zenon DEF Climbs
  <2>. QED
    BY <2>3
<1>2. ASSUME NEW j \in 1 .. n, j - 1 \in T PROVE j \in T
  <2>1. lv[a] \in Nat /\ j - 1 \in Nat /\ j - 1 + 1 = j
    BY GhostTypes
  <2>2. Climbs(t, lv, lo, nx, loose, a, k, j - 1 + 1, RaiseParent(f[j - 1], k))
    BY <1>2, <2>1, ClimbStep
  <2>. QED
    BY <2>1, <2>2
<1>. HIDE DEF T
<1>3. 0 .. n \subseteq T
  BY <1>1, <1>2, CountingUpTo
<1>. QED
  BY <1>3 DEF T

LEMMA ClimbEnds ==
  ASSUME NEW t, NEW lv, NEW lo, NEW nx, NEW loose, NEW a \in Nodes(t), NEW over, Good(t, lv, lo, nx, loose, over),
         NEW k, NEW i \in Nat, NEW s, Climbs(t, lv, lo, nx, loose, a, k, i, s),
         lv[t.root] < lv[a] + i
  PROVE  s.at = 0
<1>1. lv[a] \in Nat /\ lv[t.root] \in Nat /\ \A x \in Nodes(t) : lv[x] <= lv[t.root]
  BY Height DEF Good, Levels
<1>2. ASSUME s.at # 0 PROVE FALSE
  BY <1>1, <1>2 DEF Climbs
<1>. QED
  BY <1>2

\* A node has a new largest key: once its ancestors have been told, all is well.
LEMMA PropagateKeeps ==
  ASSUME NEW t, NEW lv, NEW lo, NEW nx, NEW loose, NEW a \in Nodes(t), Good(t, lv, lo, nx, loose, a)
  PROVE  LET v == PropagateMaxKeyUp(t, a, Top(t, a)) IN
         /\ Good(v, lv, lo, nx, loose, 0) /\ Alike(t, v)
         /\ \A x \in Nodes(t) : lv[x] <= lv[a] => v.node[x] = t.node[x]
<1> DEFINE n == Cardinality(DOMAIN t.node)
           k == Top(t, a)
<1>1. n \in Nat /\ lv[t.root] < n /\ lv[a] \in Nat /\ lv[t.root] \in Nat
  BY Height DEF Good, Nodes, Levels
<1>2. PICK f : /\ PropagateMaxKeyUp(t, a, k) = f[n].tree
               /\ f[0] = [tree |-> t, at |-> a]
               /\ \A i \in 1 .. n : f[i] = RaiseParent(f[i - 1], k)
  <2>. HIDE DEF k
  <2>. QED
    BY <1>1, PropagateRuns
<1>3. Climbs(t, lv, lo, nx, loose, a, k, n, f[n])
  <2>1. k = Top(t, a) /\ n \in 0 .. n
    BY <1>1
  <2>. HIDE DEF k, n
  <2>. QED
    BY <1>1, <1>2, <2>1, ClimbsAll
<1>4. f[n].at = 0
  <2>1. lv[t.root] < lv[a] + n
    BY <1>1
  <2>. HIDE DEF n, k
  <2>. QED
    BY <1>1, <1>3, <2>1, ClimbEnds
<1>. HIDE DEF n, k
<1>. QED
  BY <1>2, <1>3, <1>4, Zenon DEF Climbs, k

\* A node at a, and a new one at b, stored.
Over(z, a, l, b, r) == MarkNode(MarkNode(z, a, l), b, r)

LEMMA OverIs ==
  ASSUME NEW z, NEW a, NEW b, NEW l, NEW r, Formed(z), a \in Nodes(z), a # b
  PROVE  LET w == Over(z, a, l, b, r) IN
         /\ Formed(w) /\ w.root = z.root /\ w.page = z.page
         /\ IsMap(w.node) /\ Nodes(w) = Nodes(z) \union {b}
         /\ w.node[a] = l /\ w.node[b] = r
         /\ \A x \in Nodes(z) : x # a /\ x # b => w.node[x] = z.node[x]
<1> DEFINE y == MarkNode(z, a, l)
           w == MarkNode(y, b, r)
<1>1. /\ Formed(y) /\ y.root = z.root /\ y.page = z.page
      /\ IsMap(y.node) /\ DOMAIN y.node = DOMAIN z.node \union {a}
      /\ y.node[a] = l /\ \A x \in DOMAIN z.node : x # a => y.node[x] = z.node[x]
  BY Marked
<1>. HIDE DEF y
<1>2. /\ Formed(w) /\ w.root = y.root /\ w.page = y.page
      /\ IsMap(w.node) /\ DOMAIN w.node = DOMAIN y.node \union {b}
      /\ w.node[b] = r /\ \A x \in DOMAIN y.node : x # b => w.node[x] = y.node[x]
  BY <1>1, Marked
<1>. HIDE DEF w
<1>3. /\ Formed(w) /\ w.root = z.root /\ w.page = z.page
      /\ IsMap(w.node) /\ Nodes(w) = Nodes(z) \union {b}
      /\ w.node[a] = l /\ w.node[b] = r
      /\ \A x \in Nodes(z) : x # a /\ x # b => w.node[x] = z.node[x]
  BY <1>1, <1>2 DEF Nodes
<1>. QED
  BY <1>3 DEF w, y, Over

\* Storing another node before or after is the same.
LEMMA OverMarks ==
  ASSUME NEW z, NEW a, NEW b, NEW l, NEW r, NEW c, NEW n, Formed(z), a \in Nodes(z), a # b,
         c \in Nodes(z), c # a, c # b
  PROVE  /\ Over(MarkNode(z, c, n), a, l, b, r) = MarkNode(Over(z, a, l, b, r), c, n)
         /\ Formed(MarkNode(z, c, n)) /\ Nodes(MarkNode(z, c, n)) = Nodes(z)
<1> DEFINE y == MarkNode(z, c, n)
           w == Over(z, a, l, b, r)
           oy == Over(y, a, l, b, r)
           wm == MarkNode(w, c, n)
<1>1. /\ Formed(y) /\ y.root = z.root /\ y.page = z.page
      /\ IsMap(y.node) /\ DOMAIN y.node = DOMAIN z.node \union {c}
      /\ y.node[c] = n /\ \A x \in DOMAIN z.node : x # c => y.node[x] = z.node[x]
  BY Marked
<1>2. /\ Formed(w) /\ w.root = z.root /\ w.page = z.page
      /\ IsMap(w.node) /\ Nodes(w) = Nodes(z) \union {b}
      /\ w.node[a] = l /\ w.node[b] = r
      /\ \A x \in Nodes(z) : x # a /\ x # b => w.node[x] = z.node[x]
  BY OverIs
<1>. HIDE DEF y, w
<1>3. Nodes(y) = Nodes(z)
  BY <1>1 DEF Nodes
<1>4. /\ Formed(oy) /\ oy.root = y.root /\ oy.page = y.page
      /\ IsMap(oy.node) /\ Nodes(oy) = Nodes(y) \union {b}
      /\ oy.node[a] = l /\ oy.node[b] = r
      /\ \A x \in Nodes(y) : x # a /\ x # b => oy.node[x] = y.node[x]
  BY <1>1, <1>3, OverIs
<1>5. /\ Formed(wm) /\ wm.root = w.root /\ wm.page = w.page
      /\ IsMap(wm.node) /\ DOMAIN wm.node = DOMAIN w.node \union {c}
      /\ wm.node[c] = n /\ \A x \in DOMAIN w.node : x # c => wm.node[x] = w.node[x]
  BY <1>2, Marked
<1>. HIDE DEF oy, wm
<1>6. DOMAIN oy.node = DOMAIN wm.node
  BY <1>2, <1>3, <1>4, <1>5 DEF Nodes
<1>7. \A x \in DOMAIN oy.node : oy.node[x] = wm.node[x]
  BY <1>1, <1>2, <1>3, <1>4, <1>5 DEF Nodes
<1>8. oy = wm
  BY <1>1, <1>2, <1>4, <1>5, <1>6, <1>7, SameTree, ZenonT(30)
<1>. QED
  BY <1>1, <1>3, <1>8 DEF y, w, oy, wm

\* A climb does not see nodes that are not on its way.
LEMMA RaisedBeside ==
  ASSUME NEW y, NEW a, NEW b, NEW l, NEW r, NEW k, NEW x,
         Formed(y), a \in Nodes(y), a # b,
         x # 0 => /\ x \in Nodes(y) /\ x # a /\ x # b
                  /\ Up(y, x) # 0 => Up(y, x) \in Nodes(y) /\ Up(y, x) # a /\ Up(y, x) # b
  PROVE  LET s == RaiseParent([tree |-> y, at |-> x], k) IN
         /\ s = [tree |-> s.tree, at |-> s.at] /\ Formed(s.tree) /\ Nodes(s.tree) = Nodes(y)
         /\ RaiseParent([tree |-> Over(y, a, l, b, r), at |-> x], k)
              = [tree |-> Over(s.tree, a, l, b, r), at |-> s.at]
<1> DEFINE w == Over(y, a, l, b, r)
           s == RaiseParent([tree |-> y, at |-> x], k)
           q == RaiseParent([tree |-> w, at |-> x], k)
           up == y.node[x].parent
           p == y.node[up]
           i == Position(p.kids, x)
<1>1. CASE x = 0
  <2>1. s = [tree |-> y, at |-> 0] /\ q = [tree |-> w, at |-> 0]
    BY <1>1 DEF RaiseParent
  <2>. QED
    BY <2>1
<1>2. CASE x # 0
  <2>1. /\ Formed(w) /\ Nodes(w) = Nodes(y) \union {b}
        /\ \A c \in Nodes(y) : c # a /\ c # b => w.node[c] = y.node[c]
    BY OverIs
  <2>2. w.node[x] = y.node[x]
    BY <2>1, <1>2
  <2>. HIDE DEF w
  <2>3. CASE up = 0 \/ i = 0
    <3>1. s = [tree |-> y, at |-> 0]
      BY <2>3 DEF RaiseParent
    <3>2. up = 0 \/ w.node[up] = p
      BY <2>1, <1>2 DEF Up
    <3>3. q = [tree |-> w, at |-> 0]
      BY <2>2, <2>3, <3>2 DEF RaiseParent
    <3>. QED
      BY <3>1, <3>3 DEF w
  <2>4. CASE up # 0 /\ i # 0
    <3>1. w.node[up] = p /\ up \in Nodes(y) /\ up # a /\ up # b
      BY <2>1, <2>4, <1>2 DEF Up
    <3>2. CASE i < Len(p.kids)
      <4> DEFINE m == [p EXCEPT !.keys[i] = k]
      <4>1. s = [tree |-> MarkNode(y, up, m), at |-> 0]
        BY <2>4, <3>2, <1>2 DEF RaiseParent
      <4>2. q = [tree |-> MarkNode(w, up, m), at |-> 0]
        BY <2>2, <2>4, <3>1, <3>2, <1>2 DEF RaiseParent
      <4>3. /\ Over(MarkNode(y, up, m), a, l, b, r) = MarkNode(w, up, m)
            /\ Formed(MarkNode(y, up, m)) /\ Nodes(MarkNode(y, up, m)) = Nodes(y)
        <5>. HIDE DEF m, up
        <5>. QED
          BY <3>1, OverMarks DEF w
      <4>. HIDE DEF m, up, p, i
      <4>4. s.tree = MarkNode(y, up, m) /\ s.at = 0 /\ s = [tree |-> s.tree, at |-> s.at]
        BY <4>1
      <4>. HIDE DEF s, q
      <4>. QED
        BY <4>2, <4>3, <4>4 DEF s, q, w
    <3>3. CASE ~(i < Len(p.kids))
      <4> DEFINE m == [p EXCEPT !.max = k]
      <4>1. s = [tree |-> MarkNode(y, up, m), at |-> up]
        BY <2>4, <3>3, <1>2 DEF RaiseParent
      <4>2. q = [tree |-> MarkNode(w, up, m), at |-> up]
        BY <2>2, <2>4, <3>1, <3>3, <1>2 DEF RaiseParent
      <4>3. /\ Over(MarkNode(y, up, m), a, l, b, r) = MarkNode(w, up, m)
            /\ Formed(MarkNode(y, up, m)) /\ Nodes(MarkNode(y, up, m)) = Nodes(y)
        <5>. HIDE DEF m, up
        <5>. QED
          BY <3>1, OverMarks DEF w
      <4>. HIDE DEF m, up, p, i
      <4>4. s.tree = MarkNode(y, up, m) /\ s.at = up /\ s = [tree |-> s.tree, at |-> s.at]
        BY <4>1
      <4>. HIDE DEF s, q
      <4>. QED
        BY <4>2, <4>3, <4>4 DEF s, q, w
    <3>. QED
      BY <3>2, <3>3
  <2>. QED
    BY <2>3, <2>4
<1>. QED
  BY <1>1, <1>2

\* Telling the ancestors before or after storing nodes below them is the same.
LEMMA PropagateBeside ==
  ASSUME NEW z, NEW a, NEW b, NEW l, NEW r, NEW p, NEW lv, NEW lo, NEW nx, NEW loose, NEW k,
         Formed(z), a \in Nodes(z), b \notin Nodes(z), a # b, p \in Nodes(z), IsFiniteSet(Nodes(z)),
         Good(Over(z, a, l, b, r), lv, lo, nx, loose, p), k = Top(Over(z, a, l, b, r), p),
         lv[a] < lv[p], lv[b] < lv[p]
  PROVE  Over(PropagateMaxKeyUp(z, p, k), a, l, b, r) = PropagateMaxKeyUp(Over(z, a, l, b, r), p, k)
<1> DEFINE w == Over(z, a, l, b, r)
           n == Cardinality(Nodes(z))
           m == Cardinality(Nodes(w))
<1>1. /\ Nodes(w) = Nodes(z) \union {b}
      /\ \A c \in Nodes(z) : c # a /\ c # b => w.node[c] = z.node[c]
  BY OverIs
<1>2. n \in Nat /\ m = n + 1
  <2> DEFINE S == Nodes(z)
  <2>1. IsFiniteSet(S) /\ b \notin S /\ Nodes(w) = S \union {b}
    BY <1>1
  <2>. HIDE DEF S, w
  <2>2. Cardinality(S \union {b}) = Cardinality(S) + 1
    BY <2>1, FS_AddElement
  <2>3. Cardinality(S) \in Nat
    BY <2>1, FS_CardinalityType
  <2>. QED
    BY <2>1, <2>2, <2>3 DEF S
<1>3. PICK f : /\ PropagateMaxKeyUp(z, p, k) = f[n].tree
               /\ f[0] = [tree |-> z, at |-> p]
               /\ \A i \in 1 .. n : f[i] = RaiseParent(f[i - 1], k)
  <2>1. n = Cardinality(DOMAIN z.node)
    BY DEF Nodes
  <2>. HIDE DEF n
  <2>. QED
    BY <1>2, <2>1, PropagateRuns
<1>4. PICK g : /\ PropagateMaxKeyUp(w, p, k) = g[m].tree
               /\ g[0] = [tree |-> w, at |-> p]
               /\ \A i \in 1 .. m : g[i] = RaiseParent(g[i - 1], k)
  <2>1. m = Cardinality(DOMAIN w.node) /\ m \in Nat
    BY <1>2 DEF Nodes
  <2>. HIDE DEF m, w
  <2>. QED
    BY <2>1, PropagateRuns
<1>. HIDE DEF n, m
<1>5. \A i \in 0 .. m : Climbs(w, lv, lo, nx, loose, p, k, i, g[i])
  <2>1. p \in Nodes(w) /\ m \in Nat /\ Good(w, lv, lo, nx, loose, p) /\ k = Top(w, p)
    BY <1>1, <1>2
  <2>. HIDE DEF w
  <2>. QED
    BY <1>4, <2>1, ClimbsAll
<1>6. /\ lv[w.root] \in Nat /\ lv[w.root] < m /\ lv[p] \in Nat /\ lv[a] \in Nat /\ lv[b] \in Nat
      /\ p \in Nodes(w)
  <2>1. Good(w, lv, lo, nx, loose, p)
    BY DEF w
  <2>2. p \in Nodes(w) /\ a \in Nodes(w) /\ b \in Nodes(w)
    BY <1>1
  <2>. HIDE DEF w
  <2>. QED
    BY <2>1, <2>2, Height DEF Good, Levels, m
<1> DEFINE Same(i) == /\ f[i] = [tree |-> f[i].tree, at |-> f[i].at]
                      /\ Formed(f[i].tree) /\ Nodes(f[i].tree) = Nodes(z)
                      /\ g[i] = [tree |-> Over(f[i].tree, a, l, b, r), at |-> f[i].at]
           T == {i \in 0 .. n : Same(i)}
<1>7. 0 \in T
  <2>1. f[0].tree = z /\ f[0].at = p
    BY <1>3
  <2>2. Same(0)
    BY <1>3, <1>4, <2>1
  <2>. QED
    BY <2>2, <1>2
<1>8. ASSUME NEW i \in 1 .. n, i - 1 \in T PROVE i \in T
  <2> DEFINE y == f[i - 1].tree
             x == f[i - 1].at
             u == Over(y, a, l, b, r)
  <2>1. /\ f[i - 1] = [tree |-> y, at |-> x] /\ Formed(y) /\ Nodes(y) = Nodes(z)
        /\ g[i - 1] = [tree |-> u, at |-> x]
    BY <1>8
  <2>2. f[i] = RaiseParent(f[i - 1], k) /\ g[i] = RaiseParent(g[i - 1], k) /\ i - 1 \in 0 .. m
    BY <1>2, <1>3, <1>4
  <2>3. Climbs(w, lv, lo, nx, loose, p, k, i - 1, [tree |-> u, at |-> x])
    BY <2>1, <2>2, <1>5
  <2>4. x # 0 => x \in Nodes(w) /\ Good(u, lv, lo, nx, loose, x) /\ lv[x] = lv[p] + (i - 1)
    <3>. HIDE DEF u, x
    <3>. QED
      BY <2>3 DEF Climbs
  <2>5. x # 0 => x \in Nodes(y) /\ x # a /\ x # b
    BY <2>1, <2>4, <1>1, <1>6
  <2>6. /\ Formed(u) /\ Nodes(u) = Nodes(w)
        /\ \A c \in Nodes(y) : c # a /\ c # b => u.node[c] = y.node[c]
    <3>. HIDE DEF y, w
    <3>. QED
      BY <2>1, <1>1, OverIs
  <2>7. ASSUME x # 0, Up(y, x) # 0
        PROVE Up(y, x) \in Nodes(y) /\ Up(y, x) # a /\ Up(y, x) # b
    <3>1. Up(u, x) = Up(y, x) /\ x \in Nodes(u) /\ Good(u, lv, lo, nx, loose, x)
      BY <2>4, <2>5, <2>6, <2>7 DEF Up
    <3>2. x # u.root
      BY <3>1, <2>7 DEF Good, Parents
    <3>3. Up(u, x) \in Nodes(u) /\ lv[Up(u, x)] = lv[x] + 1
      <4>. HIDE DEF u, x
      <4>. QED
        BY <3>1, <3>2, GoodParent
    <3>4. lv[Up(u, x)] = lv[p] + i
      BY <2>4, <2>7, <3>3, <1>6
    <3>. QED
      BY <3>1, <3>3, <3>4, <2>1, <2>6, <1>1, <1>6
  <2>. HIDE DEF y, x, u
  <2>8. LET s == RaiseParent([tree |-> y, at |-> x], k) IN
         /\ s = [tree |-> s.tree, at |-> s.at] /\ Formed(s.tree) /\ Nodes(s.tree) = Nodes(y)
         /\ RaiseParent([tree |-> u, at |-> x], k) = [tree |-> Over(s.tree, a, l, b, r), at |-> s.at]
    BY <2>1, <2>5, <2>7, RaisedBeside DEF u
  <2>9. RaiseParent([tree |-> y, at |-> x], k) = f[i] /\ RaiseParent([tree |-> u, at |-> x], k) = g[i]
    BY <2>1, <2>2
  <2>10. Same(i)
    BY <2>1, <2>8, <2>9, Zenon
  <2>. QED
    BY <2>10
<1>. HIDE DEF T
<1>9. 0 .. n \subseteq T
  BY <1>2, <1>7, <1>8, CountingUpTo
<1>10. Same(n)
  BY <1>2, <1>9 DEF T
<1>11. g[n].at = 0
  <2>1. n \in 0 .. m /\ lv[w.root] < lv[p] + n /\ n \in Nat
    BY <1>2, <1>6
  <2>2. Climbs(w, lv, lo, nx, loose, p, k, n, g[n])
    BY <1>5, <2>1
  <2>3. Good(w, lv, lo, nx, loose, p)
    BY DEF w
  <2>. HIDE DEF w
  <2>. QED
    BY <2>1, <2>2, <2>3, <1>6, ClimbEnds
<1>12. g[m].tree = g[n].tree
  <2>1. g[m] = RaiseParent(g[n], k)
    BY <1>2, <1>4
  <2>2. RaiseParent(g[n], k) = [g[n] EXCEPT !.at = 0]
    BY <1>11 DEF RaiseParent
  <2>3. [g[n] EXCEPT !.at = 0].tree = g[n].tree
    BY <1>10
  <2>. QED
    BY <2>1, <2>2, <2>3
<1>13. g[n].tree = Over(f[n].tree, a, l, b, r)
  BY <1>10
<1>. QED
  BY <1>3, <1>4, <1>12, <1>13 DEF w

(***************************************************************************)
(* A node is divided, or two are joined.                                   *)
(***************************************************************************)
LEMMA ApartFacts ==
  ASSUME NEW w, NEW u, NEW p, NEW i, NEW a, NEW b, NEW c, Apart(w, u, p, i, a, b, c)
  PROVE  /\ Len(Kids(w, a)) \in Nat /\ Len(Kids(w, p)) \in Nat /\ Len(Kids(u, b)) \in Nat
         /\ Len(Kids(u, a)) \in Nat /\ Len(Kids(u, p)) \in Nat
         /\ Len(Keys(w, a)) \in Nat /\ Len(Keys(w, p)) \in Nat /\ Len(Keys(u, b)) \in Nat
         /\ Len(Keys(u, a)) \in Nat /\ Len(Keys(u, p)) \in Nat
         /\ c \in Nat /\ c >= 1 /\ c < Len(Kids(w, a))
         /\ i \in Nat /\ i >= 1 /\ i <= Len(Kids(w, p)) /\ Kids(w, p)[i] = a
         /\ a # b /\ p # b /\ b # 0 /\ a # 0 /\ p # 0
         /\ Typed(w) /\ Typed(u) /\ u.root = w.root /\ u.page = w.page
         /\ a \in Nodes(w) /\ p \in Nodes(w) /\ a # p /\ ~Leaf(w, p)
         /\ Nodes(u) = Nodes(w) \union {b} /\ b \notin Nodes(w) /\ w.root \in Nodes(w)
         /\ Leaf(u, b) = Leaf(w, a) /\ \A x \in Nodes(w) : Leaf(u, x) = Leaf(w, x)
<1>1. Typed(w) /\ Typed(u) /\ a \in Nodes(w) /\ p \in Nodes(w) /\ a \in Nodes(u) /\ p \in Nodes(u) /\ b \in Nodes(u) /\ b \notin Nodes(w)
  BY DEF Apart
<1>2. /\ Len(Kids(w, a)) \in Nat /\ Len(Kids(w, p)) \in Nat /\ Len(Kids(u, b)) \in Nat
      /\ Len(Kids(u, a)) \in Nat /\ Len(Kids(u, p)) \in Nat
      /\ Len(Keys(w, a)) \in Nat /\ Len(Keys(w, p)) \in Nat /\ Len(Keys(u, b)) \in Nat
      /\ Len(Keys(u, a)) \in Nat /\ Len(Keys(u, p)) \in Nat
      /\ b # 0 /\ a # 0 /\ p # 0
  BY <1>1, NodeFields
<1>3. c \in 1 .. (Len(Kids(w, a)) - 1) /\ i \in 1 .. Len(Kids(w, p)) /\ Kids(w, p)[i] = a
  BY DEF Apart, ChildAt
<1>4. /\ Typed(w) /\ Typed(u) /\ u.root = w.root /\ u.page = w.page
      /\ a \in Nodes(w) /\ p \in Nodes(w) /\ a # p /\ ~Leaf(w, p)
      /\ Nodes(u) = Nodes(w) \union {b} /\ b \notin Nodes(w) /\ w.root \in Nodes(w)
      /\ Leaf(u, b) = Leaf(w, a) /\ \A x \in Nodes(w) : Leaf(u, x) = Leaf(w, x)
  BY DEF Apart, Typed
<1>. QED
  BY <1>1, <1>2, <1>3, <1>4

LEMMA DividedArrays ==
  ASSUME NEW w, NEW u, NEW p, NEW i, NEW a, NEW b, NEW c, NEW s, NEW lv,
         Apart(w, u, p, i, a, b, c), KidsApart(w, u, p, i, a, b, c), KeysApart(w, u, p, i, a, b, c, s),
         Arrays(w), Children(w, lv)
  PROVE  Arrays(u)
<1>1. /\ Len(Kids(w, a)) \in Nat /\ Len(Kids(w, p)) \in Nat
      /\ c \in Nat /\ c >= 1 /\ c < Len(Kids(w, a)) /\ a # b /\ p # b
      /\ i \in Nat /\ i >= 1 /\ i <= Len(Kids(w, p)) /\ a # p
  BY ApartFacts
<1>2. ASSUME NEW x \in Nodes(u)
      PROVE  /\ Len(Kids(u, x)) >= 1
             /\ Len(Keys(u, x)) = IF Leaf(u, x) THEN Len(Kids(u, x)) ELSE Len(Kids(u, x)) - 1
             /\ \A j, m \in 1 .. Len(Kids(u, x)) : Kids(u, x)[j] = Kids(u, x)[m] => j = m
  <2>1. CASE x # a /\ x # b /\ x # p
    <3>1. x \in Nodes(w) /\ Kids(u, x) = Kids(w, x) /\ Keys(u, x) = Keys(w, x) /\ Leaf(u, x) = Leaf(w, x)
      BY <2>1 DEF Apart
    <3>. QED
      BY <3>1 DEF Arrays
  <2>2. CASE x = a
    <3>1. Leaf(u, a) = Leaf(w, a) /\ a \in Nodes(w)
      BY DEF Apart
    <3>2. Len(Kids(u, a)) = c /\ \A j \in 1 .. c : Kids(u, a)[j] = Kids(w, a)[j]
      BY DEF KidsApart
    <3>3. Len(Keys(u, a)) = IF Leaf(w, a) THEN c ELSE c - 1
      BY DEF KeysApart
    <3>4. \A j, m \in 1 .. Len(Kids(w, a)) : Kids(w, a)[j] = Kids(w, a)[m] => j = m
      BY <3>1 DEF Arrays
    <3>5. \A j \in 1 .. c : j \in 1 .. Len(Kids(w, a))
      BY <1>1
    <3>. QED
      BY <1>1, <2>2, <3>1, <3>2, <3>3, <3>4, <3>5
  <2>3. CASE x = b
    <3> DEFINE n == Len(Kids(w, a)) - c
    <3>1. Leaf(u, b) = Leaf(w, a) /\ a \in Nodes(w)
      BY DEF Apart
    <3>2. Len(Kids(u, b)) = n /\ \A j \in 1 .. n : Kids(u, b)[j] = Kids(w, a)[c + j]
      BY DEF KidsApart
    <3>3. Len(Keys(u, b)) = Len(Keys(w, a)) - c
      BY DEF KeysApart
    <3>4. /\ \A j, m \in 1 .. Len(Kids(w, a)) : Kids(w, a)[j] = Kids(w, a)[m] => j = m
          /\ Len(Keys(w, a)) = IF Leaf(w, a) THEN Len(Kids(w, a)) ELSE Len(Kids(w, a)) - 1
      BY <3>1 DEF Arrays
    <3>5. \A j, m \in 1 .. n : Kids(u, b)[j] = Kids(u, b)[m] => j = m
      <4>1. ASSUME NEW j \in 1 .. n, NEW m \in 1 .. n, Kids(u, b)[j] = Kids(u, b)[m]
            PROVE j = m
        <5>1. c + j \in 1 .. Len(Kids(w, a)) /\ c + m \in 1 .. Len(Kids(w, a))
          BY <1>1
        <5>2. Kids(w, a)[c + j] = Kids(w, a)[c + m]
          BY <3>2, <4>1
        <5>3. c + j = c + m
          BY <3>4, <5>1, <5>2
        <5>. QED
          BY <1>1, <5>3
      <4>. QED
        BY <4>1
    <3>6. Len(Keys(u, b)) = IF Leaf(u, b) THEN Len(Kids(u, b)) ELSE Len(Kids(u, b)) - 1
      BY <1>1, <3>1, <3>2, <3>3, <3>4
    <3>7. Len(Kids(u, b)) >= 1
      BY <1>1, <3>2
    <3>. QED
      BY <2>3, <3>2, <3>5, <3>6, <3>7
  <2>4. CASE x = p
    <3> DEFINE n == Len(Kids(w, p))
    <3>1. ~Leaf(u, p) /\ p \in Nodes(w) /\ ~Leaf(w, p) /\ b \notin Nodes(w)
      BY DEF Apart
    <3>2. /\ Len(Kids(u, p)) = n + 1
          /\ \A j \in 1 .. (n + 1) : Kids(u, p)[j] = IF j <= i THEN Kids(w, p)[j] ELSE IF j = i + 1 THEN b ELSE Kids(w, p)[j - 1]
      BY DEF KidsApart
    <3>3. Len(Keys(u, p)) = Len(Keys(w, p)) + 1
      BY DEF KeysApart
    <3>4. /\ \A j, m \in 1 .. n : Kids(w, p)[j] = Kids(w, p)[m] => j = m
          /\ Len(Keys(w, p)) = n - 1
      BY <3>1 DEF Arrays
    <3>5. \A j \in 1 .. n : Kids(w, p)[j] # b
      BY <3>1 DEF Children
    <3>6. \A j, m \in 1 .. (n + 1) : Kids(u, p)[j] = Kids(u, p)[m] => j = m
      <4>1. ASSUME NEW j \in 1 .. (n + 1)
            PROVE IF j <= i THEN Kids(u, p)[j] = Kids(w, p)[j] /\ j \in 1 .. n
                  ELSE IF j = i + 1 THEN Kids(u, p)[j] = b
                  ELSE Kids(u, p)[j] = Kids(w, p)[j - 1] /\ j - 1 \in 1 .. n /\ j - 1 > i
        BY <1>1, <3>2
      <4>2. ASSUME NEW j \in 1 .. (n + 1), NEW m \in 1 .. (n + 1), Kids(u, p)[j] = Kids(u, p)[m]
            PROVE j = m
        BY <1>1, <3>4, <3>5, <4>1, <4>2
      <4>. QED
        BY <4>2
    <3>. QED
      BY <1>1, <2>4, <3>1, <3>2, <3>3, <3>4, <3>6
  <2>. QED
    BY <2>1, <2>2, <2>3, <2>4
<1>. QED
  BY <1>2 DEF Arrays

LEMMA DividedParents ==
  ASSUME NEW w, NEW u, NEW p, NEW i, NEW a, NEW b, NEW c, NEW lv,
         Apart(w, u, p, i, a, b, c), KidsApart(w, u, p, i, a, b, c), UpsApart(w, u, p, a, b, c),
         Parents(w), Children(w, lv)
  PROVE  Parents(u)
<1> DEFINE Moved(x) == ~Leaf(w, a) /\ \E j \in (c + 1) .. Len(Kids(w, a)) : Kids(w, a)[j] = x
<1>1. /\ Len(Kids(w, a)) \in Nat /\ Len(Kids(w, p)) \in Nat
      /\ c \in Nat /\ c >= 1 /\ c < Len(Kids(w, a)) /\ a # b /\ p # b
      /\ i \in Nat /\ i >= 1 /\ i <= Len(Kids(w, p)) /\ a # p /\ u.root = w.root
      /\ a \in Nodes(w) /\ p \in Nodes(w) /\ ~Leaf(w, p) /\ w.root \in Nodes(w) /\ Typed(w)
      /\ Nodes(u) = Nodes(w) \union {b} /\ b \notin Nodes(w)
      /\ Leaf(u, b) = Leaf(w, a) /\ \A x \in Nodes(w) : Leaf(u, x) = Leaf(w, x)
  BY ApartFacts
<1>2. \A x \in Nodes(w) : ~Moved(x) => Up(u, x) = Up(w, x)
  BY DEF UpsApart
<1>3. Up(u, u.root) = 0
  <2>1. ~Moved(w.root)
    BY <1>1, RootIsNoChild
  <2>. QED
    BY <1>1, <1>2, <2>1 DEF Parents
<1>4. ASSUME NEW x \in Nodes(u), x # u.root
      PROVE  /\ Up(u, x) \in Nodes(u) /\ ~Leaf(u, Up(u, x))
             /\ \E j \in 1 .. Len(Kids(u, Up(u, x))) : Kids(u, Up(u, x))[j] = x
  <2>1. CASE x = b
    <3>1. Up(u, x) = p
      BY <2>1 DEF UpsApart
    <3>2. Kids(u, p)[i + 1] = b /\ i + 1 \in 1 .. Len(Kids(u, p))
      BY <1>1 DEF KidsApart
    <3>. QED
      BY <1>1, <2>1, <3>1, <3>2
  <2>2. CASE Moved(x)
    <3>1. PICK j \in (c + 1) .. Len(Kids(w, a)) : Kids(w, a)[j] = x
      BY <2>2
    <3>2. Up(u, x) = b /\ ~Leaf(u, b)
      BY <1>1, <2>2, <3>1 DEF UpsApart
    <3>3. j - c \in 1 .. (Len(Kids(w, a)) - c) /\ c + (j - c) = j
      BY <1>1
    <3>4. Kids(u, b)[j - c] = x /\ j - c \in 1 .. Len(Kids(u, b))
      BY <3>1, <3>3 DEF KidsApart
    <3>. QED
      BY <1>1, <3>2, <3>4
  <2>3. CASE x # b /\ ~Moved(x)
    <3> DEFINE y == Up(w, x)
    <3>1. Up(u, x) = y /\ x \in Nodes(w)
      BY <1>1, <1>2, <2>3
    <3>2. y \in Nodes(w) /\ ~Leaf(w, y)
      BY <1>1, <1>4, <3>1 DEF Parents
    <3>3. PICK j \in 1 .. Len(Kids(w, y)) : Kids(w, y)[j] = x
      BY <1>1, <1>4, <3>1 DEF Parents
    <3>. HIDE DEF y
    <3>4. CASE y = a
      <4>1. j \in 1 .. c
        BY <1>1, <2>3, <3>2, <3>3, <3>4
      <4>2. j \in 1 .. Len(Kids(u, a)) /\ Kids(u, a)[j] = x
        BY <3>3, <3>4, <4>1 DEF KidsApart
      <4>. QED
        BY <1>1, <3>1, <3>2, <3>4, <4>2
    <3>5. CASE y = p
      <4>1. PICK m \in 1 .. (Len(Kids(w, p)) + 1) : m = IF j <= i THEN j ELSE j + 1
        BY <1>1, <3>5
      <4>2. Kids(u, p)[m] = x /\ m \in 1 .. Len(Kids(u, p))
        BY <1>1, <3>3, <3>5, <4>1 DEF KidsApart
      <4>. QED
        BY <1>1, <3>1, <3>2, <3>5, <4>2
    <3>6. CASE y # a /\ y # p
      <4>1. Kids(u, y) = Kids(w, y)
        BY <3>2, <3>6 DEF Apart
      <4>. QED
        BY <1>1, <3>1, <3>2, <3>3, <4>1
    <3>. QED
      BY <3>4, <3>5, <3>6
  <2>. QED
    BY <2>1, <2>2, <2>3
<1>. QED
  BY <1>3, <1>4 DEF Parents

LEMMA DividedChildren ==
  ASSUME NEW w, NEW u, NEW p, NEW i, NEW a, NEW b, NEW c, NEW lv, NEW lv2,
         Apart(w, u, p, i, a, b, c), KidsApart(w, u, p, i, a, b, c), UpsApart(w, u, p, a, b, c),
         Arrays(w), Children(w, lv), Levels(w, lv), \A x \in Nodes(w) : lv2[x] = lv[x], lv2[b] = lv[a]
  PROVE  Children(u, lv2) /\ Levels(u, lv2)
<1> DEFINE Moved(x) == ~Leaf(w, a) /\ \E j \in (c + 1) .. Len(Kids(w, a)) : Kids(w, a)[j] = x
<1>1. /\ Len(Kids(w, a)) \in Nat /\ Len(Kids(w, p)) \in Nat
      /\ c \in Nat /\ c >= 1 /\ c < Len(Kids(w, a)) /\ a # b /\ p # b
      /\ i \in Nat /\ i >= 1 /\ i <= Len(Kids(w, p)) /\ a # p /\ Kids(w, p)[i] = a
      /\ a \in Nodes(w) /\ p \in Nodes(w) /\ ~Leaf(w, p) /\ Typed(w)
      /\ Nodes(u) = Nodes(w) \union {b} /\ b \notin Nodes(w)
      /\ Leaf(u, b) = Leaf(w, a) /\ \A x \in Nodes(w) : Leaf(u, x) = Leaf(w, x)
  BY ApartFacts
<1>2. \A x \in Nodes(w) : ~Moved(x) => Up(u, x) = Up(w, x)
  BY DEF UpsApart
<1>3. \A x \in Nodes(w) : Moved(x) => Up(w, x) = a
  BY <1>1 DEF Children
<1>4. lv[p] = lv[a] + 1
  BY <1>1 DEF Children
<1>5. ASSUME NEW x \in Nodes(u), ~Leaf(u, x), NEW j \in 1 .. Len(Kids(u, x)), NEW d, d = Kids(u, x)[j]
      PROVE  d \in Nodes(u) /\ Up(u, d) = x /\ lv2[x] = lv2[d] + 1
  <2>1. CASE x # a /\ x # b /\ x # p
    <3>1. x \in Nodes(w) /\ Kids(u, x) = Kids(w, x) /\ Leaf(u, x) = Leaf(w, x)
      BY <2>1, <1>1 DEF Apart
    <3>2. d \in Nodes(w) /\ Up(w, d) = x /\ lv[x] = lv[d] + 1
      BY <1>5, <3>1 DEF Children
    <3>. QED
      BY <1>1, <1>2, <1>3, <2>1, <3>1, <3>2
  <2>2. CASE x = a
    <3>1. j \in 1 .. c /\ d = Kids(w, a)[j]
      BY <1>5, <2>2 DEF KidsApart
    <3>2. j \in 1 .. Len(Kids(w, a)) /\ ~Leaf(w, a)
      BY <1>1, <1>5, <2>2, <3>1
    <3>3. d \in Nodes(w) /\ Up(w, d) = a /\ lv[a] = lv[d] + 1
      BY <1>1, <3>1, <3>2 DEF Children
    <3>4. ~Moved(d)
      <4>1. ASSUME NEW m \in (c + 1) .. Len(Kids(w, a)) PROVE Kids(w, a)[m] # d
        <5>1. m \in 1 .. Len(Kids(w, a)) /\ m # j
          BY <1>1, <3>1
        <5>. QED
          BY <1>1, <3>1, <3>2, <5>1 DEF Arrays
      <4>. QED
        BY <4>1
    <3>. QED
      BY <1>1, <1>2, <2>2, <3>3, <3>4
  <2>3. CASE x = b
    <3>1. j \in 1 .. (Len(Kids(w, a)) - c) /\ d = Kids(w, a)[c + j]
      BY <1>5, <2>3 DEF KidsApart
    <3>2. c + j \in (c + 1) .. Len(Kids(w, a)) /\ c + j \in 1 .. Len(Kids(w, a)) /\ ~Leaf(w, a)
      BY <1>1, <1>5, <2>3, <3>1
    <3>3. d \in Nodes(w) /\ lv[a] = lv[d] + 1
      BY <1>1, <3>1, <3>2 DEF Children
    <3>4. Up(u, d) = b
      BY <3>1, <3>2 DEF UpsApart
    <3>. QED
      BY <1>1, <2>3, <3>3, <3>4
  <2>4. CASE x = p
    <3>1. j \in 1 .. (Len(Kids(w, p)) + 1)
          /\ d = IF j <= i THEN Kids(w, p)[j] ELSE IF j = i + 1 THEN b ELSE Kids(w, p)[j - 1]
      BY <1>5, <2>4 DEF KidsApart
    <3>2. CASE d = b
      BY <1>1, <1>4, <2>4, <3>2 DEF UpsApart
    <3>3. CASE d # b
      <4>1. PICK m \in 1 .. Len(Kids(w, p)) : d = Kids(w, p)[m]
        <5>1. CASE j <= i
          BY <1>1, <3>1, <5>1
        <5>2. CASE ~(j <= i)
          <6>1. j - 1 \in 1 .. Len(Kids(w, p)) /\ d = Kids(w, p)[j - 1]
            BY <1>1, <3>1, <3>3, <5>2
          <6>. QED
            BY <6>1
        <5>. QED
          BY <5>1, <5>2
      <4>2. d \in Nodes(w) /\ Up(w, d) = p /\ lv[p] = lv[d] + 1
        BY <1>1, <4>1 DEF Children
      <4>. QED
        BY <1>1, <1>2, <1>3, <2>4, <4>2
    <3>. QED
      BY <3>2, <3>3
  <2>. QED
    BY <2>1, <2>2, <2>3, <2>4
<1>6. Levels(u, lv2)
  BY <1>1 DEF Levels
<1>. QED
  BY <1>5, <1>6 DEF Children

LEMMA DividedBounds ==
  ASSUME NEW w, NEW u, NEW p, NEW i, NEW a, NEW b, NEW c, NEW s, NEW lv, NEW lo, NEW lo2, NEW nx, NEW loose,
         Apart(w, u, p, i, a, b, c), KidsApart(w, u, p, i, a, b, c), KeysApart(w, u, p, i, a, b, c, s),
         Good(w, lv, lo, nx, loose, 0), CutAt(w, u, lo, lo2, a, b, c, s)
  PROVE  Bounds(u, lo2, 0)
<1> DEFINE K == Keys(w, a)
           C == Kids(w, a)
           n == Len(C)
           P == Keys(w, p)
           D == Kids(w, p)
           m == Len(D)
<1>1. /\ n \in Nat /\ m \in Nat /\ Len(K) \in Nat
      /\ c \in Nat /\ c >= 1 /\ c < n /\ a # b /\ p # b
      /\ i \in Nat /\ i >= 1 /\ i <= m /\ a # p /\ D[i] = a
      /\ a \in Nodes(w) /\ p \in Nodes(w) /\ ~Leaf(w, p) /\ Typed(w) /\ Typed(u)
      /\ Nodes(u) = Nodes(w) \union {b} /\ b \notin Nodes(w)
      /\ Leaf(u, b) = Leaf(w, a) /\ \A x \in Nodes(w) : Leaf(u, x) = Leaf(w, x)
  BY ApartFacts
<1>2. /\ Top(u, a) \in Nat /\ Top(u, b) \in Nat /\ Top(w, a) \in Nat /\ Top(w, p) \in Nat
      /\ Top(u, p) = Top(w, p) /\ Top(u, b) = Top(w, a)
      /\ \A j \in 1 .. Len(K) : K[j] \in Nat
      /\ \A j \in 1 .. Len(P) : P[j] \in Nat
  <2>1. a \in Nodes(u) /\ b \in Nodes(u)
    BY <1>1
  <2>2. Top(u, p) = Top(w, p) /\ Top(u, b) = Top(w, a)
    BY DEF KeysApart
  <2>. QED
    BY <1>1, <2>1, <2>2, NodeFields
<1>3. /\ lo[a] \in Int /\ lo[p] \in Int /\ s \in Nat /\ Top(u, a) <= s /\ lo2[a] = lo[a] /\ lo2[p] = lo[p]
      /\ lo[a] >= -1 /\ lo[p] >= -1 /\ lo[p] < Top(w, p)
      /\ Len(P) = m - 1 /\ Len(K) = (IF Leaf(w, a) THEN n ELSE n - 1)
      /\ \A x \in Nodes(w) : lo2[x] = lo[x]
  BY <1>1, GhostTypes DEF CutAt
<1>4. /\ \A j, l \in 1 .. Len(K) : j < l => K[j] < K[l]
      /\ \A j \in 1 .. Len(K) : lo[a] < K[j] /\ K[j] <= Top(w, a)
  <2>1. ~Leaf(w, a) => \A j \in 1 .. Len(Keys(w, a)) : Kids(w, a)[j] # 0
    <3>1. \A j \in 1 .. Len(Kids(w, a)) : Kids(w, a)[j] \in Nat \ {0}
      BY <1>1, NodeFields
    <3>2. ~Leaf(w, a) => \A j \in 1 .. Len(Keys(w, a)) : j \in 1 .. Len(Kids(w, a))
      BY <1>1, <1>3
    <3>. QED
      BY <3>1, <3>2
  <2>. QED
    BY <1>1, <2>1, KeysAscend DEF Good
<1>5. \A x \in Nodes(w) : \A j : x # a /\ x # p => LoAt(u, lo2, x, j) = LoAt(w, lo, x, j) /\ HiAt(u, x, j) = HiAt(w, x, j)
                                               /\ Kids(u, x) = Kids(w, x) /\ Top(u, x) = Top(w, x)
  BY <1>3 DEF LoAt, HiAt, Apart
\* The bounds in w.
<1>6. ASSUME NEW x \in Nodes(w), ~Leaf(w, x), NEW j \in 1 .. Len(Kids(w, x))
      PROVE  LET d == Kids(w, x)[j] IN
             /\ d \in Nodes(w) /\ lo[d] \in Int /\ Top(w, d) \in Nat /\ lo[d] < Top(w, d)
             /\ lo[x] <= LoAt(w, lo, x, j) /\ LoAt(w, lo, x, j) <= lo[d]
             /\ Top(w, d) <= HiAt(w, x, j) /\ HiAt(w, x, j) <= Top(w, x)
             /\ j = 1 => lo[d] = lo[x]
             /\ LoAt(w, lo, x, j) \in Int /\ HiAt(w, x, j) \in Nat /\ lo[x] \in Int
  <2> DEFINE d == Kids(w, x)[j]
  <2>1. d \in Nodes(w)
    BY <1>6, GhostTypes
  <2>2. d # 0 /\ Top(w, d) \in Nat /\ lo[d] \in Int /\ lo[d] < Top(w, d) /\ lo[x] \in Int
    BY <1>1, <2>1, NodeFields, GhostTypes
  <2>3. LoAt(w, lo, x, j) \in Int /\ HiAt(w, x, j) \in Nat
    BY BoundTypes
  <2>4. /\ lo[x] <= LoAt(w, lo, x, j) /\ LoAt(w, lo, x, j) <= lo[d]
        /\ Top(w, d) <= HiAt(w, x, j) /\ HiAt(w, x, j) <= Top(w, x)
        /\ j = 1 => lo[d] = lo[x]
    BY <1>6, <2>2 DEF Good, Bounds
  <2>. QED
    BY <2>1, <2>2, <2>3, <2>4
\* Where the node at a is cut.
<1>7. ~Leaf(w, a) => /\ C[c] \in Nodes(w) /\ C[c + 1] \in Nodes(w) /\ K[c] = s
                     /\ lo[a] < Top(u, a) /\ s <= lo[C[c + 1]] /\ lo2[b] = lo[C[c + 1]]
                     /\ lo[C[c + 1]] < Top(w, a) /\ lo[C[c + 1]] \in Int /\ lo[a] < s
                     /\ \A j \in 1 .. (c - 1) : K[j] <= Top(u, a)
                     /\ Top(w, C[c]) <= Top(u, a) /\ s <= Top(w, a)
                     /\ \A j \in (c + 1) .. Len(K) : lo[C[c + 1]] <= K[j]
  <2>. SUFFICES ASSUME ~Leaf(w, a)
                PROVE  /\ C[c] \in Nodes(w) /\ C[c + 1] \in Nodes(w) /\ K[c] = s
                       /\ lo[a] < Top(u, a) /\ s <= lo[C[c + 1]] /\ lo2[b] = lo[C[c + 1]]
                       /\ lo[C[c + 1]] < Top(w, a) /\ lo[C[c + 1]] \in Int /\ lo[a] < s
                       /\ \A j \in 1 .. (c - 1) : K[j] <= Top(u, a)
                       /\ Top(w, C[c]) <= Top(u, a) /\ s <= Top(w, a)
                       /\ \A j \in (c + 1) .. Len(K) : lo[C[c + 1]] <= K[j]
    OBVIOUS
  <2>1. c \in 1 .. n /\ c + 1 \in 1 .. n /\ c \in 1 .. Len(K) /\ Len(K) = n - 1
    BY <1>1, <1>3
  <2>2. K[c] = s /\ Top(w, C[c]) <= Top(u, a) /\ lo2[b] = lo[C[c + 1]]
    BY DEF KeysApart, CutAt
  <2>3. /\ C[c] \in Nodes(w) /\ lo[C[c]] \in Int /\ Top(w, C[c]) \in Nat /\ lo[C[c]] < Top(w, C[c])
        /\ lo[a] <= LoAt(w, lo, a, c) /\ LoAt(w, lo, a, c) <= lo[C[c]]
        /\ LoAt(w, lo, a, c) \in Int
    BY <1>1, <1>6, <2>1
  <2>4. /\ C[c + 1] \in Nodes(w) /\ lo[C[c + 1]] \in Int /\ Top(w, C[c + 1]) \in Nat
        /\ lo[C[c + 1]] < Top(w, C[c + 1])
        /\ LoAt(w, lo, a, c + 1) <= lo[C[c + 1]]
        /\ Top(w, C[c + 1]) <= HiAt(w, a, c + 1) /\ HiAt(w, a, c + 1) <= Top(w, a)
        /\ HiAt(w, a, c + 1) \in Nat
    BY <1>1, <1>6, <2>1
  <2>5. LoAt(w, lo, a, c + 1) = s
    BY <1>1, <2>2 DEF LoAt
  <2>6. ASSUME NEW j \in 1 .. (c - 1) PROVE K[j] <= Top(u, a)
    <3>1. LoAt(w, lo, a, c) = K[c - 1] /\ c - 1 \in 1 .. Len(K) /\ j \in 1 .. Len(K)
      BY <1>1, <2>1 DEF LoAt
    <3>2. K[j] <= K[c - 1]
      BY <1>1, <1>2, <1>4, <3>1
    <3>. QED
      BY <1>2, <2>2, <2>3, <3>1, <3>2
  <2>7. ASSUME NEW j \in (c + 1) .. Len(K) PROVE lo[C[c + 1]] <= K[j]
    <3>1. HiAt(w, a, c + 1) = K[c + 1] /\ c + 1 \in 1 .. Len(K) /\ j \in 1 .. Len(K)
      BY <1>1, <2>1 DEF HiAt
    <3>2. K[c + 1] <= K[j]
      BY <1>1, <1>2, <1>4, <3>1
    <3>. QED
      BY <1>2, <2>4, <3>1, <3>2
  <2>8. lo[a] < Top(u, a) /\ lo[C[c + 1]] < Top(w, a)
    <3>1. lo[a] \in Int /\ Top(u, a) \in Nat /\ Top(w, a) \in Nat
      BY <1>2, <1>3
    <3>2. lo[a] < Top(u, a)
      BY <2>2, <2>3, <3>1
    <3>3. lo[C[c + 1]] < Top(w, a)
      BY <2>4, <3>1
    <3>. QED
      BY <3>2, <3>3
  <2>9. lo[a] < s /\ s <= Top(w, a)
    BY <1>2, <1>4, <2>1, <2>2
  <2>. QED
    BY <2>2, <2>3, <2>4, <2>5, <2>6, <2>7, <2>8, <2>9
<1>8. Leaf(w, a) => /\ lo[a] < Top(u, a) /\ lo2[b] = s /\ s < Top(w, a) /\ Top(u, a) = s /\ lo[a] < s
  <2>1. ASSUME Leaf(w, a) PROVE c \in 1 .. Len(K) /\ c + 1 \in 1 .. Len(K) /\ K[c] = s /\ Top(u, a) = s /\ lo2[b] = s
    BY <1>1, <1>3, <2>1 DEF CutAt
  <2>2. ASSUME Leaf(w, a) PROVE K[c] < K[c + 1] /\ K[c + 1] <= Top(w, a) /\ lo[a] < K[c]
    BY <1>1, <1>4, <2>1, <2>2
  <2>. QED
    BY <1>2, <2>1, <2>2
<1>. HIDE DEF K, C, n, P, D, m
<1>9. ASSUME NEW x \in Nodes(u) PROVE lo2[x] \in Int /\ lo2[x] >= -1 /\ lo2[x] < Top(u, x)
  <2>1. CASE x = a
    BY <2>1, <1>3, <1>7, <1>8
  <2>2. CASE x = b
    <3>1. lo2[b] \in Int /\ lo2[b] >= -1
      BY <1>3, <1>7, <1>8
    <3>. QED
      BY <2>2, <3>1, <1>2, <1>7, <1>8
  <2>3. CASE x = p
    BY <2>3, <1>2, <1>3
  <2>4. CASE x # a /\ x # b /\ x # p
    <3>1. x \in Nodes(w) /\ Top(u, x) = Top(w, x) /\ lo2[x] = lo[x]
      BY <1>1, <1>3, <1>5, <2>4
    <3>. QED
      BY <3>1, GhostTypes
  <2>. QED
    BY <2>1, <2>2, <2>3, <2>4
<1>10. ASSUME NEW x \in Nodes(u), ~Leaf(u, x), NEW j \in 1 .. Len(Kids(u, x)), NEW d, d = Kids(u, x)[j]
      PROVE  /\ lo2[x] <= LoAt(u, lo2, x, j) /\ LoAt(u, lo2, x, j) <= lo2[d]
             /\ Top(u, d) <= HiAt(u, x, j)
             /\ HiAt(u, x, j) <= Top(u, x)
             /\ j = 1 => lo2[d] = lo2[x]
  <2>1. CASE x # a /\ x # b /\ x # p
    <3>1. x \in Nodes(w) /\ Kids(u, x) = Kids(w, x) /\ ~Leaf(w, x) /\ Top(u, x) = Top(w, x) /\ lo2[x] = lo[x]
      BY <1>1, <1>3, <1>5, <1>10, <2>1
    <3>2. LoAt(u, lo2, x, j) = LoAt(w, lo, x, j) /\ HiAt(u, x, j) = HiAt(w, x, j)
      BY <1>5, <2>1, <3>1
    <3>3. /\ d \in Nodes(w)
          /\ lo[x] <= LoAt(w, lo, x, j) /\ LoAt(w, lo, x, j) <= lo[d]
          /\ Top(w, d) <= HiAt(w, x, j) /\ HiAt(w, x, j) <= Top(w, x)
          /\ j = 1 => lo[d] = lo[x]
      BY <1>6, <1>10, <3>1
    <3>4. (d # a /\ d # p) \/ d = p
      <4>1. Up(w, d) = x /\ Up(w, a) = p
        <5>1. Up(w, d) = x
          BY <1>10, <3>1, GhostTypes
        <5>2. i \in 1 .. Len(Kids(w, p)) /\ Kids(w, p)[i] = a
          BY <1>1 DEF m, D
        <5>3. Up(w, a) = p
          BY <5>2, <1>1, GhostTypes
        <5>. QED
          BY <5>1, <5>3
      <4>. QED
        BY <2>1, <4>1
    <3>5. Top(u, d) = Top(w, d) /\ lo2[d] = lo[d]
      BY <1>2, <1>3, <1>5, <3>3, <3>4
    <3>. QED
      BY <3>1, <3>2, <3>3, <3>5
  <2>2. CASE x = a
    <3>1. j \in 1 .. c /\ d = C[j] /\ ~Leaf(w, a) /\ j \in 1 .. n /\ Len(Keys(u, a)) = c - 1
      BY <1>1, <1>10, <2>2, SMTT(30) DEF KidsApart, KeysApart, C, n
    <3>2. \A l \in 1 .. (c - 1) : Keys(u, a)[l] = K[l]
      BY <3>1 DEF KeysApart, K
    <3>3. /\ d \in Nodes(w) /\ Top(w, d) \in Nat
          /\ lo[a] <= LoAt(w, lo, a, j) /\ LoAt(w, lo, a, j) <= lo[d]
          /\ Top(w, d) <= HiAt(w, a, j)
          /\ j = 1 => lo[d] = lo[a]
      BY <1>1, <1>6, <3>1 DEF C, n
    <3>4. LoAt(u, lo2, a, j) = LoAt(w, lo, a, j)
      <4>1. j # 1 => j - 1 \in 1 .. (c - 1)
        BY <1>1, <3>1
      <4>. QED
        BY <1>3, <3>2, <4>1 DEF LoAt, K
    <3>5. HiAt(u, a, j) = (IF j < c THEN HiAt(w, a, j) ELSE Top(u, a)) /\ (j < c => HiAt(w, a, j) = K[j])
      BY <1>1, <1>3, <3>1, <3>2 DEF HiAt, K
    <3>6. Top(u, d) = Top(w, d) /\ lo2[d] = lo[d]
      <4>1. lv[a] = lv[d] + 1 /\ lv[p] = lv[a] + 1
        <5>1. lv[a] = lv[d] + 1
          BY <1>1, <3>1 DEF Good, Children, C, n
        <5>2. i \in 1 .. Len(Kids(w, p)) /\ Kids(w, p)[i] = a
          BY <1>1 DEF m, D
        <5>3. lv[p] = lv[a] + 1
          BY <5>2, <1>1 DEF Good, Children
        <5>. QED
          BY <5>1, <5>3
      <4>2. lv[d] \in Nat /\ lv[a] \in Nat
        BY <1>1, <3>3, GhostTypes
      <4>3. d # a /\ d # p
        BY <4>1, <4>2
      <4>. QED
        BY <1>3, <1>5, <3>3, <4>3
    <3>7. j < c => j \in 1 .. (c - 1)
      BY <1>1, <3>1
    <3>8. j = c => Top(w, d) <= Top(u, a)
      BY <1>7, <3>1
    <3>. QED
      BY <1>1, <1>2, <1>3, <1>7, <2>2, <3>1, <3>3, <3>4, <3>5, <3>6, <3>7, <3>8, SMTT(30)
  <2>3. CASE x = b
    <3> DEFINE l == c + j
    <3>1. /\ j \in 1 .. (n - c) /\ d = C[l] /\ ~Leaf(w, a) /\ Len(Keys(u, b)) = n - 1 - c /\ Len(K) = n - 1
          /\ l \in (c + 1) .. n /\ l \in 1 .. n
      BY <1>1, <1>3, <1>10, <2>3 DEF KidsApart, KeysApart, C, n, K
    <3>2. \A h \in 1 .. (n - 1 - c) : Keys(u, b)[h] = K[c + h]
      BY <3>1 DEF KeysApart, K
    <3>3. /\ d \in Nodes(w) /\ Top(w, d) \in Nat /\ lo[d] \in Int
          /\ lo[a] <= LoAt(w, lo, a, l) /\ LoAt(w, lo, a, l) <= lo[d]
          /\ Top(w, d) <= HiAt(w, a, l) /\ HiAt(w, a, l) <= Top(w, a)
      BY <1>1, <1>6, <3>1 DEF C, n
    <3>4. LoAt(u, lo2, b, j) = (IF j = 1 THEN lo2[b] ELSE LoAt(w, lo, a, l))
          /\ (j # 1 => LoAt(w, lo, a, l) = K[l - 1] /\ l - 1 \in (c + 1) .. Len(K))
      <4>1. j # 1 => j - 1 \in 1 .. (n - 1 - c) /\ c + (j - 1) = l - 1 /\ l # 1 /\ l - 1 \in (c + 1) .. Len(K)
        BY <1>1, <3>1
      <4>2. j # 1 => Keys(u, b)[j - 1] = K[l - 1]
        BY <3>2, <4>1
      <4>. QED
        BY <4>1, <4>2 DEF LoAt, K
    <3>5. HiAt(u, b, j) = HiAt(w, a, l)
      <4>1. j <= n - 1 - c <=> l <= n - 1
        BY <1>1, <3>1
      <4>2. j <= n - 1 - c => Keys(u, b)[j] = K[l]
        BY <1>1, <3>1, <3>2
      <4>. QED
        BY <1>2, <3>1, <4>1, <4>2 DEF HiAt, K
    <3>6. Top(u, d) = Top(w, d) /\ lo2[d] = lo[d]
      <4>1. lv[a] = lv[d] + 1 /\ lv[p] = lv[a] + 1
        <5>1. lv[a] = lv[d] + 1
          BY <1>1, <3>1 DEF Good, Children, C, n
        <5>2. i \in 1 .. Len(Kids(w, p)) /\ Kids(w, p)[i] = a
          BY <1>1 DEF m, D
        <5>3. lv[p] = lv[a] + 1
          BY <5>2, <1>1 DEF Good, Children
        <5>. QED
          BY <5>1, <5>3
      <4>2. lv[d] \in Nat /\ lv[a] \in Nat
        BY <1>1, <3>3, GhostTypes
      <4>3. d # a /\ d # p
        BY <4>1, <4>2
      <4>. QED
        BY <1>3, <1>5, <3>3, <4>3
    <3>7. CASE j = 1
      <4>1. d = C[c + 1] /\ LoAt(u, lo2, b, j) = lo2[b] /\ lo2[b] = lo2[d]
        BY <1>7, <3>1, <3>4, <3>6, <3>7
      <4>. QED
        BY <1>2, <2>3, <3>3, <3>5, <3>6, <4>1
    <3>8. CASE j # 1
      <4>1. lo2[b] <= LoAt(u, lo2, b, j)
        BY <1>7, <3>1, <3>4, <3>8
      <4>. QED
        BY <1>2, <2>3, <3>3, <3>4, <3>5, <3>6, <3>8, <4>1
    <3>. QED
      BY <3>7, <3>8
  <2>4. CASE x = p
    <3>1. /\ j \in 1 .. (m + 1) /\ Len(Keys(u, p)) = m /\ Len(P) = m - 1
          /\ d = IF j <= i THEN D[j] ELSE IF j = i + 1 THEN b ELSE D[j - 1]
          /\ \A l \in 1 .. m : Keys(u, p)[l] = IF l < i THEN P[l] ELSE IF l = i THEN s ELSE P[l - 1]
      BY <1>1, <1>3, <1>10, <2>4 DEF KidsApart, KeysApart, D, m, P
    <3>2. ASSUME NEW l \in 1 .. m
          PROVE  /\ D[l] \in Nodes(w) /\ Top(w, D[l]) \in Nat /\ lo[D[l]] \in Int
                 /\ lo[p] <= LoAt(w, lo, p, l) /\ LoAt(w, lo, p, l) <= lo[D[l]]
                 /\ Top(w, D[l]) <= HiAt(w, p, l) /\ HiAt(w, p, l) <= Top(w, p)
                 /\ l = 1 => lo[D[l]] = lo[p]
                 /\ LoAt(w, lo, p, l) \in Int /\ HiAt(w, p, l) \in Nat
                 /\ l # i => Top(u, D[l]) = Top(w, D[l])
                 /\ lo2[D[l]] = lo[D[l]]
      <4>1. /\ D[l] \in Nodes(w) /\ Top(w, D[l]) \in Nat /\ lo[D[l]] \in Int
            /\ lo[p] <= LoAt(w, lo, p, l) /\ LoAt(w, lo, p, l) <= lo[D[l]]
            /\ Top(w, D[l]) <= HiAt(w, p, l) /\ HiAt(w, p, l) <= Top(w, p)
            /\ l = 1 => lo[D[l]] = lo[p]
            /\ LoAt(w, lo, p, l) \in Int /\ HiAt(w, p, l) \in Nat
        BY <1>1, <1>6 DEF D, m
      <4>2. l # i => D[l] # a
        BY <1>1 DEF Good, Arrays, D, m
      <4>3. D[l] # p
        <5>1. lv[p] = lv[D[l]] + 1 /\ lv[D[l]] \in Nat
          BY <1>1, <4>1, GhostTypes DEF Good, Children, D, m
        <5>. QED
          BY <5>1
      <4>. QED
        BY <1>3, <1>5, <4>1, <4>2, <4>3
    <3>3. /\ lo[p] <= lo[a] /\ Top(w, a) <= HiAt(w, p, i) /\ HiAt(w, p, i) <= Top(w, p) /\ HiAt(w, p, i) \in Nat
      <4>1. i \in 1 .. m
        BY <1>1
      <4>2. /\ lo[p] <= LoAt(w, lo, p, i) /\ LoAt(w, lo, p, i) <= lo[D[i]] /\ LoAt(w, lo, p, i) \in Int
            /\ Top(w, D[i]) <= HiAt(w, p, i) /\ HiAt(w, p, i) <= Top(w, p) /\ HiAt(w, p, i) \in Nat
        BY <3>2, <4>1
      <4>3. D[i] = a /\ lo[a] \in Int /\ lo[p] \in Int
        BY <1>1, <1>3
      <4>. QED
        BY <4>2, <4>3
    <3>4. lo[a] < s /\ s <= Top(w, a) /\ s <= lo2[b] /\ lo2[b] \in Int
      BY <1>2, <1>3, <1>7, <1>8
    <3>5. CASE j < i
      <4>1. j \in 1 .. m /\ d = D[j] /\ j # i
        BY <1>1, <3>1, <3>5
      <4>2. LoAt(u, lo2, p, j) = LoAt(w, lo, p, j)
        <5>1. j # 1 => j - 1 \in 1 .. m /\ j - 1 < i
          BY <1>1, <3>1, <3>5
        <5>. QED
          BY <1>3, <3>1, <5>1 DEF LoAt, P
      <4>3. HiAt(u, p, j) = HiAt(w, p, j)
        BY <1>1, <3>1, <3>5, <4>1 DEF HiAt, P
      <4>. QED
        BY <1>2, <1>3, <2>4, <3>2, <4>1, <4>2, <4>3
    <3>6. CASE j = i
      <4>1. j \in 1 .. m /\ d = a /\ HiAt(u, p, j) = s
        BY <1>1, <3>1, <3>6 DEF HiAt
      <4>2. LoAt(u, lo2, p, j) = LoAt(w, lo, p, j)
        <5>1. j # 1 => j - 1 \in 1 .. m /\ j - 1 < i
          BY <1>1, <3>1, <3>6
        <5>. QED
          BY <1>3, <3>1, <5>1 DEF LoAt, P
      <4>3. /\ lo[p] <= LoAt(w, lo, p, j) /\ LoAt(w, lo, p, j) <= lo[a]
            /\ (j = 1 => lo[a] = lo[p])
        BY <1>1, <3>2, <3>6, <4>1
      <4>4. s <= Top(w, p)
        BY <1>2, <1>3, <3>3, <3>4
      <4>5. lo2[x] = lo[p] /\ lo2[d] = lo[a] /\ Top(u, x) = Top(w, p) /\ Top(u, d) <= s
        BY <1>2, <1>3, <2>4, <4>1
      <4>. QED
        BY <2>4, <4>1, <4>2, <4>3, <4>4, <4>5
    <3>7. CASE j = i + 1
      <4>1. d = b /\ LoAt(u, lo2, p, j) = s
        BY <1>1, <3>1, <3>7 DEF LoAt
      <4>2. HiAt(u, p, j) = HiAt(w, p, i)
        <5>1. j <= m => Keys(u, p)[j] = P[i] /\ i <= m - 1
          BY <1>1, <3>1, <3>7
        <5>2. ~(j <= m) => ~(i <= m - 1)
          BY <1>1, <3>1, <3>7
        <5>. QED
          BY <1>2, <3>1, <5>1, <5>2 DEF HiAt, P
      <4>3. lo[p] <= s /\ j # 1
        BY <1>1, <1>3, <3>3, <3>4, <3>7
      <4>. QED
        BY <1>2, <1>3, <2>4, <3>3, <3>4, <4>1, <4>2, <4>3
    <3>8. CASE j > i + 1
      <4>1. j - 1 \in 1 .. m /\ d = D[j - 1] /\ j - 1 # i /\ j # 1 /\ j - 1 # 1
        BY <1>1, <3>1, <3>8
      <4>2. LoAt(u, lo2, p, j) = LoAt(w, lo, p, j - 1)
        <5>1. Keys(u, p)[j - 1] = P[j - 1 - 1]
          BY <1>1, <3>1, <3>8, <4>1
        <5>. QED
          BY <4>1, <5>1 DEF LoAt, P
      <4>3. HiAt(u, p, j) = HiAt(w, p, j - 1)
        <5>1. j <= m => Keys(u, p)[j] = P[j - 1] /\ j - 1 <= m - 1
          BY <1>1, <3>1, <3>8
        <5>2. ~(j <= m) => ~(j - 1 <= m - 1)
          BY <1>1, <3>1, <3>8
        <5>. QED
          BY <1>2, <3>1, <5>1, <5>2 DEF HiAt, P
      <4>. QED
        BY <1>2, <1>3, <2>4, <3>2, <4>1, <4>2, <4>3
    <3>. QED
      BY <1>1, <3>1, <3>5, <3>6, <3>7, <3>8
  <2>. QED
    BY <2>1, <2>2, <2>3, <2>4
<1>. QED
  BY <1>9, <1>10 DEF Bounds

LEMMA DividedFiled ==
  ASSUME NEW w, NEW u, NEW p, NEW i, NEW a, NEW b, NEW c, NEW s, NEW lv, NEW lo, NEW lo2, NEW nx, NEW loose,
         Apart(w, u, p, i, a, b, c), KidsApart(w, u, p, i, a, b, c), KeysApart(w, u, p, i, a, b, c, s),
         Good(w, lv, lo, nx, loose, 0), CutAt(w, u, lo, lo2, a, b, c, s)
  PROVE  Filed(u, lo2)
<1> DEFINE K == Keys(w, a)
           C == Kids(w, a)
           n == Len(C)
<1>1. /\ n \in Nat /\ Len(K) \in Nat
      /\ c \in Nat /\ c >= 1 /\ c < n /\ a # b /\ p # b
      /\ a \in Nodes(w) /\ p \in Nodes(w) /\ a # p /\ ~Leaf(w, p) /\ Typed(w) /\ Typed(u) /\ u.page = w.page
      /\ Nodes(u) = Nodes(w) \union {b} /\ b \notin Nodes(w)
      /\ Leaf(u, b) = Leaf(w, a) /\ \A x \in Nodes(w) : Leaf(u, x) = Leaf(w, x)
  BY ApartFacts
<1>2. ASSUME NEW x \in Nodes(u), Leaf(u, x), NEW j \in 1 .. Len(Kids(u, x)), NEW pg, pg = Kids(u, x)[j]
      PROVE  /\ pg \in DOMAIN u.page
             /\ LoAt(u, lo2, x, j) < Keys(u, x)[j] /\ Keys(u, x)[j] <= Top(u, x)
             /\ \A k \in DOMAIN u.page[pg] : LoAt(u, lo2, x, j) < k /\ k <= Keys(u, x)[j]
  <2>1. CASE x # a /\ x # b
    <3>1. x \in Nodes(w) /\ x # p /\ Leaf(w, x)
      BY <1>1, <1>2, <2>1
    <3>2. Kids(u, x) = Kids(w, x) /\ Keys(u, x) = Keys(w, x) /\ Top(u, x) = Top(w, x) /\ lo2[x] = lo[x]
      BY <2>1, <3>1 DEF Apart, CutAt
    <3>3. LoAt(u, lo2, x, j) = LoAt(w, lo, x, j)
      BY <3>2 DEF LoAt
    <3>. QED
      BY <1>1, <1>2, <3>1, <3>2, <3>3 DEF Good, Filed
  <2>2. CASE Leaf(w, a) /\ x \in {a, b}
    <3>1. /\ Len(K) = n /\ lo2[a] = lo[a] /\ K[c] = s /\ Top(u, a) = s /\ lo2[b] = s /\ Top(u, b) = Top(w, a)
          /\ Len(Keys(u, a)) = c /\ Len(Keys(u, b)) = n - c /\ Len(Kids(u, a)) = c /\ Len(Kids(u, b)) = n - c
          /\ \A l \in 1 .. c : Keys(u, a)[l] = K[l] /\ Kids(u, a)[l] = C[l]
          /\ \A l \in 1 .. (n - c) : Keys(u, b)[l] = K[c + l] /\ Kids(u, b)[l] = C[c + l]
      BY <1>1, <2>2 DEF CutAt, KeysApart, KidsApart, Good, Arrays
    <3>2. \A l, h \in 1 .. Len(K) : l < h => K[l] < K[h]
      BY <1>1, <2>2, KeysAscend DEF Good
    <3>3. \A l \in 1 .. Len(K) : K[l] \in Nat
      BY <1>1, NodeFields
    <3>4. \A l \in 1 .. n : /\ C[l] \in DOMAIN w.page
                            /\ LoAt(w, lo, a, l) < K[l] /\ K[l] <= Top(w, a)
                            /\ \A k \in DOMAIN w.page[C[l]] : LoAt(w, lo, a, l) < k /\ k <= K[l]
      BY <1>1, <2>2 DEF Good, Filed
    <3>5. CASE x = a
      <4>1. j \in 1 .. c /\ j \in 1 .. n /\ j \in 1 .. Len(K) /\ c \in 1 .. Len(K)
        BY <1>1, <1>2, <3>1, <3>5
      <4>2. LoAt(u, lo2, a, j) = LoAt(w, lo, a, j)
        <5>1. j # 1 => j - 1 \in 1 .. c
          BY <1>1, <4>1
        <5>. QED
          BY <3>1, <5>1 DEF LoAt
      <4>3. K[j] <= s
        BY <3>1, <3>2, <3>3, <4>1
      <4>4. pg = C[j] /\ Keys(u, a)[j] = K[j]
        BY <1>2, <3>1, <3>5, <4>1
      <4>. QED
        BY <1>1, <3>1, <3>4, <3>5, <4>1, <4>2, <4>3, <4>4
    <3>6. CASE x = b
      <4>1. j \in 1 .. (n - c) /\ c + j \in 1 .. n
        BY <1>1, <1>2, <3>1, <3>6
      <4>2. LoAt(u, lo2, b, j) = LoAt(w, lo, a, c + j)
        <5>1. j # 1 => j - 1 \in 1 .. (n - c) /\ c + (j - 1) = c + j - 1 /\ c + j # 1
          BY <1>1, <4>1
        <5>2. j = 1 => c + j - 1 = c /\ c + j # 1
          BY <1>1
        <5>3. j # 1 => Keys(u, b)[j - 1] = K[c + j - 1]
          BY <3>1, <5>1
        <5>. QED
          BY <3>1, <5>1, <5>2, <5>3 DEF LoAt
      <4>3. pg = C[c + j] /\ Keys(u, b)[j] = K[c + j]
        BY <1>2, <3>1, <3>6, <4>1
      <4>. QED
        BY <1>1, <3>1, <3>4, <3>6, <4>1, <4>2, <4>3
    <3>. QED
      BY <2>2, <3>5, <3>6
  <2>. QED
    BY <1>1, <1>2, <2>1, <2>2
<1>. QED
  BY <1>2 DEF Filed

\* What follows the nodes when those at a and b are one, and when they are two.
FollowingCut(w, nx, nx2, a, b) ==
  /\ \A x \in Nodes(w) : x # a => nx2[x] = nx[x]
  /\ nx2[a] = b /\ nx2[b] = nx[a]

LEMMA DividedFollowing ==
  ASSUME NEW w, NEW u, NEW p, NEW i, NEW a, NEW b, NEW c, NEW lv, NEW lo, NEW nx, NEW nx2, NEW loose,
         Apart(w, u, p, i, a, b, c), KidsApart(w, u, p, i, a, b, c),
         Good(w, lv, lo, nx, loose, 0), FollowingCut(w, nx, nx2, a, b)
  PROVE  Following(u, nx2)
<1> DEFINE C == Kids(w, a)
           n == Len(C)
           D == Kids(w, p)
           m == Len(D)
<1>1. /\ n \in Nat /\ m \in Nat
      /\ c \in Nat /\ c >= 1 /\ c < n /\ a # b /\ p # b /\ b # 0
      /\ i \in Nat /\ i >= 1 /\ i <= m /\ a # p /\ D[i] = a /\ i \in 1 .. m
      /\ a \in Nodes(w) /\ p \in Nodes(w) /\ ~Leaf(w, p) /\ Typed(w) /\ Typed(u)
      /\ Nodes(u) = Nodes(w) \union {b} /\ b \notin Nodes(w)
      /\ Leaf(u, b) = Leaf(w, a) /\ \A x \in Nodes(w) : Leaf(u, x) = Leaf(w, x)
  BY ApartFacts
<1>2. /\ \A x \in Nodes(w) : x # a => nx2[x] = nx[x]
      /\ nx2[a] = b /\ nx2[b] = nx[a]
  BY DEF FollowingCut
<1>3. /\ Len(Kids(u, a)) = c /\ Len(Kids(u, b)) = n - c
      /\ \A l \in 1 .. c : Kids(u, a)[l] = C[l]
      /\ \A l \in 1 .. (n - c) : Kids(u, b)[l] = C[c + l]
      /\ Len(Kids(u, p)) = m + 1
      /\ \A l \in 1 .. (m + 1) : Kids(u, p)[l] = IF l <= i THEN D[l] ELSE IF l = i + 1 THEN b ELSE D[l - 1]
  BY DEF KidsApart
<1>4. \A x \in Nodes(w) : x # a /\ x # p => Kids(u, x) = Kids(w, x)
  BY DEF Apart
<1>5. \A x \in Nodes(w) : Kids(u, x)[1] = Kids(w, x)[1]
  <2>1. 1 \in 1 .. c /\ 1 \in 1 .. (m + 1)
    BY <1>1
  <2>. QED
    BY <1>1, <1>3, <1>4, <2>1
<1>6. ASSUME NEW x \in Nodes(w), ~Leaf(w, x), NEW j \in 1 .. Len(Kids(w, x))
      PROVE  /\ Kids(w, x)[j] \in Nodes(w) /\ Up(w, Kids(w, x)[j]) = x /\ lv[x] = lv[Kids(w, x)[j]] + 1
             /\ lv[x] \in Nat /\ lv[Kids(w, x)[j]] \in Nat
             /\ nx[Kids(w, x)[j]] = IF j < Len(Kids(w, x)) THEN Kids(w, x)[j + 1]
                                     ELSE IF nx[x] = 0 THEN 0 ELSE Kids(w, nx[x])[1]
  <2>1. Kids(w, x)[j] \in Nodes(w) /\ Up(w, Kids(w, x)[j]) = x /\ lv[x] = lv[Kids(w, x)[j]] + 1
    BY <1>6 DEF Good, Children
  <2>2. nx[Kids(w, x)[j]] = IF j < Len(Kids(w, x)) THEN Kids(w, x)[j + 1]
                            ELSE IF nx[x] = 0 THEN 0 ELSE Kids(w, nx[x])[1]
    BY <1>6 DEF Good, Following
  <2>. QED
    BY <2>1, <2>2, GhostTypes
<1>7. Up(w, a) = p /\ \A x \in Nodes(w) : nx[x] # 0 => nx[x] \in Nodes(w)
  BY <1>1, <1>6, GhostTypes
<1>. HIDE DEF C, n, D, m
<1>8. ASSUME NEW x \in Nodes(u), ~Leaf(u, x), NEW j \in 1 .. Len(Kids(u, x)), NEW d, d = Kids(u, x)[j]
      PROVE  nx2[d] = IF j < Len(Kids(u, x)) THEN Kids(u, x)[j + 1]
                      ELSE IF nx2[x] = 0 THEN 0 ELSE Kids(u, nx2[x])[1]
  <2>1. CASE x # a /\ x # b /\ x # p
    <3>1. x \in Nodes(w) /\ ~Leaf(w, x) /\ Kids(u, x) = Kids(w, x) /\ nx2[x] = nx[x]
      BY <1>1, <1>2, <1>4, <1>8, <2>1
    <3>2. d \in Nodes(w) /\ d # a
      BY <1>6, <1>7, <1>8, <2>1, <3>1
    <3>. QED
      BY <1>2, <1>5, <1>6, <1>7, <1>8, <3>1, <3>2
  <2>2. CASE x = a
    <3>1. ~Leaf(w, a) /\ j \in 1 .. c /\ j \in 1 .. n /\ d = C[j] /\ j < n
      BY <1>1, <1>3, <1>8, <2>2
    <3>2. d \in Nodes(w) /\ lv[a] = lv[d] + 1 /\ lv[d] \in Nat /\ nx[d] = C[j + 1]
      BY <1>1, <1>6, <3>1 DEF C, n
    <3>3. nx2[d] = C[j + 1]
      BY <1>2, <3>2
    <3>4. CASE j < c
      <4>1. j + 1 \in 1 .. c
        BY <1>1, <3>1, <3>4
      <4>. QED
        BY <1>3, <2>2, <3>3, <3>4, <4>1
    <3>5. CASE ~(j < c)
      <4>1. j = c /\ 1 \in 1 .. (n - c)
        BY <1>1, <3>1, <3>5
      <4>. QED
        BY <1>1, <1>2, <1>3, <2>2, <3>3, <4>1
    <3>. QED
      BY <3>4, <3>5
  <2>3. CASE x = b
    <3>1. ~Leaf(w, a) /\ j \in 1 .. (n - c) /\ c + j \in 1 .. n /\ d = C[c + j]
      BY <1>1, <1>3, <1>8, <2>3
    <3>2. /\ d \in Nodes(w) /\ lv[a] = lv[d] + 1 /\ lv[d] \in Nat
          /\ nx[d] = IF c + j < n THEN C[c + j + 1] ELSE IF nx[a] = 0 THEN 0 ELSE Kids(w, nx[a])[1]
      BY <1>1, <1>6, <3>1 DEF C, n
    <3>3. nx2[d] = nx[d]
      BY <1>2, <3>2
    <3>4. CASE j < n - c
      <4>1. j + 1 \in 1 .. (n - c) /\ c + (j + 1) = c + j + 1 /\ c + j < n
        BY <1>1, <3>1, <3>4
      <4>2. Kids(u, b)[j + 1] = C[c + j + 1]
        BY <1>3, <4>1
      <4>. QED
        BY <1>3, <2>3, <3>2, <3>3, <3>4, <4>1, <4>2
    <3>5. CASE ~(j < n - c)
      <4>1. ~(c + j < n)
        BY <1>1, <3>1, <3>5
      <4>. QED
        BY <1>2, <1>3, <1>5, <1>7, <1>1, <2>3, <3>2, <3>3, <3>5, <4>1
    <3>. QED
      BY <3>4, <3>5
  <2>4. CASE x = p
    <3>1. /\ j \in 1 .. (m + 1) /\ d = (IF j <= i THEN D[j] ELSE IF j = i + 1 THEN b ELSE D[j - 1])
          /\ nx2[p] = nx[p]
      BY <1>1, <1>2, <1>3, <1>8, <2>4
    <3>2. ASSUME NEW l \in 1 .. m
          PROVE  /\ D[l] \in Nodes(w) /\ nx[D[l]] = IF l < m THEN D[l + 1] ELSE IF nx[p] = 0 THEN 0 ELSE Kids(w, nx[p])[1]
                 /\ l # i => D[l] # a
      <4>1. D[l] \in Nodes(w) /\ nx[D[l]] = IF l < m THEN D[l + 1] ELSE IF nx[p] = 0 THEN 0 ELSE Kids(w, nx[p])[1]
        BY <1>1, <1>6 DEF D, m
      <4>2. l # i => D[l] # a
        BY <1>1 DEF Good, Arrays, D, m
      <4>. QED
        BY <4>1, <4>2
    <3>3. CASE j < i
      <4>1. j \in 1 .. m /\ j + 1 \in 1 .. (m + 1) /\ d = D[j] /\ j < m /\ j # i /\ j + 1 <= i
        BY <1>1, <3>1, <3>3
      <4>2. nx2[d] = D[j + 1]
        BY <1>2, <3>2, <4>1
      <4>. QED
        BY <1>1, <1>3, <2>4, <4>1, <4>2
    <3>4. CASE j = i
      <4>1. i + 1 \in 1 .. (m + 1) /\ d = a /\ ~(i + 1 <= i) /\ i < m + 1
        BY <1>1, <3>1, <3>4
      <4>. QED
        BY <1>1, <1>2, <1>3, <2>4, <3>4, <4>1
    <3>5. CASE j > i
      <4>1. nx2[d] = nx[D[j - 1]] /\ j - 1 \in 1 .. m
        <5>1. CASE j = i + 1
          BY <1>1, <1>2, <3>1, <5>1
        <5>2. CASE j # i + 1
          <6>1. j - 1 \in 1 .. m /\ j - 1 # i /\ d = D[j - 1]
            BY <1>1, <3>1, <3>5, <5>2
          <6>. QED
            BY <1>2, <3>2, <6>1
        <5>. QED
          BY <5>1, <5>2
      <4>2. nx[D[j - 1]] = IF j - 1 < m THEN D[j] ELSE IF nx[p] = 0 THEN 0 ELSE Kids(w, nx[p])[1]
        <5>1. j - 1 + 1 = j
          BY <1>1, <3>1
        <5>. QED
          BY <3>2, <4>1, <5>1
      <4>3. j - 1 < m <=> j < m + 1
        BY <1>1, <3>1
      <4>4. j < m + 1 => Kids(u, p)[j + 1] = D[j]
        <5>1. j < m + 1 => j + 1 \in 1 .. (m + 1) /\ ~(j + 1 <= i) /\ j + 1 # i + 1 /\ j + 1 - 1 = j
          BY <1>1, <3>1, <3>5
        <5>. QED
          BY <1>3, <5>1
      <4>5. CASE j < m + 1
        BY <1>3, <2>4, <4>1, <4>2, <4>3, <4>4, <4>5
      <4>6. CASE ~(j < m + 1)
        <5>1. nx2[d] = IF nx[p] = 0 THEN 0 ELSE Kids(w, nx[p])[1]
          BY <4>1, <4>2, <4>3, <4>6
        <5>2. nx[p] # 0 => Kids(u, nx[p])[1] = Kids(w, nx[p])[1]
          BY <1>1, <1>5, <1>7
        <5>. QED
          BY <1>3, <2>4, <3>1, <4>6, <5>1, <5>2
      <4>. QED
        BY <4>5, <4>6
    <3>. QED
      BY <1>1, <3>1, <3>3, <3>4, <3>5
  <2>. QED
    BY <2>1, <2>2, <2>3, <2>4
<1>. QED
  BY <1>8 DEF Following

LEMMA DividedOrdered ==
  ASSUME NEW w, NEW u, NEW p, NEW i, NEW a, NEW b, NEW c, NEW s, NEW lv, NEW lo, NEW nx, NEW lv2, NEW lo2, NEW nx2, NEW loose,
         Apart(w, u, p, i, a, b, c), KeysApart(w, u, p, i, a, b, c, s),
         Good(w, lv, lo, nx, loose, 0), FollowingCut(w, nx, nx2, a, b),
         \A x \in Nodes(w) : lv2[x] = lv[x] /\ lo2[x] = lo[x], lv2[b] = lv[a], Top(u, a) <= lo2[b]
  PROVE  Ordered(u, lv2, lo2, nx2)
<1>1. /\ a # b /\ p # b /\ b # 0 /\ a # p /\ u.root = w.root /\ w.root \in Nodes(w)
      /\ a \in Nodes(w) /\ p \in Nodes(w) /\ ~Leaf(w, p) /\ Typed(w) /\ Kids(w, p)[i] = a
      /\ i \in Nat /\ i >= 1 /\ i <= Len(Kids(w, p)) /\ Len(Kids(w, p)) \in Nat
      /\ Nodes(u) = Nodes(w) \union {b} /\ b \notin Nodes(w)
  BY ApartFacts
<1>2. /\ \A x \in Nodes(w) : x # a => nx2[x] = nx[x]
      /\ nx2[a] = b /\ nx2[b] = nx[a]
  BY DEF FollowingCut
<1>3. /\ nx[w.root] = 0
      /\ \A x \in Nodes(w) : nx[x] # 0 =>
           /\ nx[x] \in Nodes(w) /\ lv[nx[x]] = lv[x] /\ Top(w, x) <= lo[nx[x]]
           /\ \A y \in Nodes(w) : nx[y] = nx[x] => y = x
  BY DEF Good, Ordered
<1>4. Top(u, b) = Top(w, a) /\ \A x \in Nodes(w) : x # a => Top(u, x) = Top(w, x)
  BY DEF Apart, KeysApart
<1>5. a # w.root
  BY <1>1, RootIsNoChild DEF Good
<1>6. ASSUME NEW x \in Nodes(u), nx2[x] # 0
      PROVE  /\ nx2[x] \in Nodes(u) /\ lv2[nx2[x]] = lv2[x] /\ Top(u, x) <= lo2[nx2[x]]
             /\ \A y \in Nodes(u) : nx2[y] = nx2[x] => y = x
  <2>1. CASE x = a
    <3>1. \A y \in Nodes(u) : nx2[y] = b => y = a
      BY <1>1, <1>2, <1>3
    <3>. QED
      BY <1>1, <1>2, <2>1, <3>1
  <2>2. CASE x = b
    <3>1. nx[a] # 0 /\ nx2[b] = nx[a] /\ nx[a] \in Nodes(w)
      BY <1>1, <1>2, <1>3, <1>6, <2>2
    <3>2. lv2[nx[a]] = lv[a] /\ Top(u, b) <= lo2[nx[a]]
      BY <1>1, <1>3, <1>4, <3>1
    <3>3. \A y \in Nodes(u) : nx2[y] = nx[a] => y = b
      BY <1>1, <1>2, <1>3, <3>1
    <3>. QED
      BY <1>1, <2>2, <3>1, <3>2, <3>3
  <2>3. CASE x # a /\ x # b
    <3>1. nx2[x] = nx[x] /\ nx[x] \in Nodes(w) /\ x \in Nodes(w) /\ nx[x] # 0
      BY <1>1, <1>2, <1>3, <1>6, <2>3
    <3>2. lv2[nx[x]] = lv2[x] /\ Top(u, x) <= lo2[nx[x]]
      BY <1>1, <1>3, <1>4, <2>3, <3>1
    <3>3. \A y \in Nodes(u) : nx2[y] = nx[x] => y = x
      BY <1>1, <1>2, <1>3, <2>3, <3>1
    <3>. QED
      BY <1>1, <3>1, <3>2, <3>3
  <2>. QED
    BY <2>1, <2>2, <2>3
<1>7. nx2[u.root] = 0
  BY <1>1, <1>2, <1>3, <1>5
<1>. QED
  BY <1>6, <1>7 DEF Ordered

\* No node follows itself.
LEMMA NotBeforeItself ==
  ASSUME NEW t, NEW lv, NEW lo, NEW nx, NEW loose, NEW over, Good(t, lv, lo, nx, loose, over),
         NEW a \in Nodes(t)
  PROVE  nx[a] # a
<1>1. SUFFICES ASSUME nx[a] = a PROVE FALSE
  OBVIOUS
<1>2. a # 0 /\ Top(t, a) \in Nat
  BY NodeFields DEF Good
<1>3. Top(t, a) <= lo[a]
  BY <1>1, <1>2 DEF Good, Ordered
<1>4. lo[a] \in Int /\ lo[a] < Top(t, a)
  BY GhostTypes
<1>. QED
  BY <1>2, <1>3, <1>4

LEMMA DividedLinked ==
  ASSUME NEW w, NEW u, NEW p, NEW i, NEW a, NEW b, NEW c, NEW lv, NEW lo, NEW nx, NEW nx2, NEW loose,
         Apart(w, u, p, i, a, b, c), LinksApart(w, u, a, b),
         Good(w, lv, lo, nx, loose, 0), FollowingCut(w, nx, nx2, a, b)
  PROVE  Linked(u, nx2)
<1>1. /\ a # b /\ b # 0 /\ a # 0 /\ a \in Nodes(w) /\ Typed(w)
      /\ Nodes(u) = Nodes(w) \union {b} /\ b \notin Nodes(w) /\ 0 \notin Nodes(w)
      /\ Leaf(u, b) = Leaf(w, a) /\ \A x \in Nodes(w) : Leaf(u, x) = Leaf(w, x)
  BY ApartFacts, ZenonT(30) DEF Typed
<1>2. /\ \A x \in Nodes(w) : x # a => nx2[x] = nx[x]
      /\ nx2[a] = b /\ nx2[b] = nx[a]
  BY DEF FollowingCut
<1>3. \A x \in Nodes(w) : IF Leaf(w, x)
        THEN /\ w.node[x].next = nx[x]
             /\ nx[x] # 0 => w.node[nx[x]].prev = x
             /\ w.node[x].prev # 0 => w.node[x].prev \in Nodes(w) /\ nx[w.node[x].prev] = x
        ELSE w.node[x].next = 0 /\ w.node[x].prev = 0
  BY DEF Good, Linked, Leaf
<1>4. \A x \in Nodes(w) : nx[x] # 0 =>
        /\ nx[x] \in Nodes(w) /\ (Leaf(w, nx[x]) <=> Leaf(w, x)) /\ nx[x] # x
        /\ \A y \in Nodes(w) : nx[y] = nx[x] => y = x
  BY NotBeforeItself DEF Good, Ordered, Levels
<1>5. /\ u.node[a].prev = w.node[a].prev
      /\ \A x \in Nodes(w) : x # a => u.node[x].next = w.node[x].next
      /\ u.node[b].next = w.node[a].next
  BY DEF LinksApart
<1>6. Leaf(w, a) => /\ u.node[a].next = b /\ u.node[b].prev = a
                    /\ \A x \in Nodes(w) : x # a => u.node[x].prev = IF x = nx[a] THEN b ELSE w.node[x].prev
  BY <1>1, <1>3 DEF LinksApart
<1>7. ~Leaf(w, a) => /\ u.node[a].next = w.node[a].next /\ u.node[b].prev = 0
                     /\ \A x \in Nodes(w) : u.node[x].prev = w.node[x].prev
  BY DEF LinksApart
<1>8. ASSUME NEW x \in Nodes(u), Leaf(u, x)
      PROVE  /\ u.node[x].next = nx2[x]
             /\ nx2[x] # 0 => u.node[nx2[x]].prev = x
             /\ u.node[x].prev # 0 => u.node[x].prev \in Nodes(u) /\ nx2[u.node[x].prev] = x
  <2>1. CASE x = a
    <3>1. Leaf(w, a)
      BY <1>1, <1>8, <2>1
    <3>2. u.node[a].next = b /\ u.node[b].prev = a /\ nx2[a] = b
      BY <1>2, <1>6, <3>1
    <3>3. w.node[a].prev # 0 => w.node[a].prev \in Nodes(w) /\ nx[w.node[a].prev] = a
      BY <1>1, <1>3, <3>1
    <3>4. w.node[a].prev # 0 => w.node[a].prev # a
      BY <1>1, <1>4, <3>3
    <3>. QED
      BY <1>1, <1>2, <1>5, <2>1, <3>2, <3>3, <3>4
  <2>2. CASE x = b
    <3>1. Leaf(w, a)
      BY <1>1, <1>8, <2>2
    <3>2. u.node[b].next = nx[a]
      BY <1>1, <1>3, <1>5, <3>1
    <3>3. nx[a] # 0 => u.node[nx[a]].prev = b
      BY <1>1, <1>4, <1>6, <3>1
    <3>. QED
      BY <1>1, <1>2, <1>6, <2>2, <3>1, <3>2, <3>3
  <2>3. CASE x # a /\ x # b
    <3>1. x \in Nodes(w) /\ Leaf(w, x) /\ nx2[x] = nx[x]
      BY <1>1, <1>2, <1>8, <2>3
    <3>2. u.node[x].next = nx2[x]
      BY <1>3, <1>5, <2>3, <3>1
    <3>3. ASSUME nx[x] # 0 PROVE u.node[nx[x]].prev = x
      <4>1. w.node[nx[x]].prev = x /\ nx[x] \in Nodes(w) /\ nx[x] # nx[a]
        BY <1>1, <1>3, <1>4, <2>3, <3>1, <3>3
      <4>. QED
        BY <1>5, <1>6, <1>7, <4>1
    <3>4. ASSUME u.node[x].prev # 0
          PROVE  u.node[x].prev \in Nodes(u) /\ nx2[u.node[x].prev] = x
      <4>1. CASE Leaf(w, a) /\ x = nx[a]
        BY <1>1, <1>2, <1>6, <2>3, <3>1, <4>1
      <4>2. CASE ~(Leaf(w, a) /\ x = nx[a])
        <5>1. u.node[x].prev = w.node[x].prev
          BY <1>6, <1>7, <2>3, <3>1, <4>2
        <5>2. w.node[x].prev \in Nodes(w) /\ nx[w.node[x].prev] = x
          BY <1>3, <3>1, <3>4, <5>1
        <5>3. x # 0
          BY <1>1, <3>1
        <5>4. nx[a] # x
          BY <1>1, <1>4, <3>1, <4>2, <5>3
        <5>. QED
          BY <1>1, <1>2, <5>1, <5>2, <5>4
      <4>. QED
        BY <4>1, <4>2
    <3>. QED
      BY <3>1, <3>2, <3>3, <3>4
  <2>. QED
    BY <2>1, <2>2, <2>3
<1>9. ASSUME NEW x \in Nodes(u), ~Leaf(u, x)
      PROVE  u.node[x].next = 0 /\ u.node[x].prev = 0
  <2>1. CASE x = a
    BY <1>1, <1>3, <1>5, <1>7, <1>9, <2>1
  <2>2. CASE x = b
    BY <1>1, <1>3, <1>5, <1>7, <1>9, <2>2
  <2>3. CASE x # a /\ x # b
    <3>1. x \in Nodes(w) /\ ~Leaf(w, x) /\ x # 0
      BY <1>1, <1>9, <2>3
    <3>2. Leaf(w, a) => x # nx[a]
      BY <1>1, <1>4, <3>1
    <3>. QED
      BY <1>3, <1>5, <1>6, <1>7, <2>3, <3>1, <3>2
  <2>. QED
    BY <2>1, <2>2, <2>3
<1>. QED
  BY <1>8, <1>9 DEF Linked, Leaf

LEMMA DividedPlaced ==
  ASSUME NEW w, NEW u, NEW p, NEW i, NEW a, NEW b, NEW c, NEW lv, NEW lo, NEW nx, NEW loose, NEW over,
         Apart(w, u, p, i, a, b, c), KidsApart(w, u, p, i, a, b, c),
         Good(w, lv, lo, nx, loose, over)
  PROVE  Placed(u, loose)
<1> DEFINE Home(x) == IF x = b THEN a ELSE x
<1>1. /\ Len(Kids(w, a)) \in Nat /\ c \in Nat /\ c >= 1 /\ c < Len(Kids(w, a))
      /\ a # b /\ a # p /\ p # b /\ a \in Nodes(w) /\ p \in Nodes(w) /\ ~Leaf(w, p) /\ u.page = w.page
      /\ Nodes(u) = Nodes(w) \union {b} /\ b \notin Nodes(w)
      /\ Leaf(u, b) = Leaf(w, a) /\ \A x \in Nodes(w) : Leaf(u, x) = Leaf(w, x)
  BY ApartFacts
<1>2. /\ Len(Kids(u, a)) = c /\ Len(Kids(u, b)) = Len(Kids(w, a)) - c
      /\ \A j \in 1 .. c : Kids(u, a)[j] = Kids(w, a)[j]
      /\ \A j \in 1 .. (Len(Kids(w, a)) - c) : Kids(u, b)[j] = Kids(w, a)[c + j]
  BY DEF KidsApart
<1>3. \A x \in Nodes(w) : x # a /\ Leaf(w, x) => Kids(u, x) = Kids(w, x)
  BY <1>1 DEF Apart
\* Where a page in u is in w.
<1>4. ASSUME NEW x \in Nodes(u), Leaf(u, x), NEW j \in 1 .. Len(Kids(u, x))
      PROVE  /\ Home(x) \in Nodes(w) /\ Leaf(w, Home(x))
             /\ \E l \in 1 .. Len(Kids(w, Home(x))) :
                  /\ Kids(w, Home(x))[l] = Kids(u, x)[j]
                  /\ x = a => l <= c
                  /\ x = b => l > c
  <2>1. CASE x = a
    <3>1. j \in 1 .. Len(Kids(w, a)) /\ j <= c /\ Kids(w, a)[j] = Kids(u, a)[j]
      BY <1>1, <1>2, <1>4, <2>1
    <3>. QED
      BY <1>1, <1>4, <2>1, <3>1
  <2>2. CASE x = b
    <3>1. c + j \in 1 .. Len(Kids(w, a)) /\ c + j > c /\ Kids(w, a)[c + j] = Kids(u, b)[j]
      BY <1>1, <1>2, <1>4, <2>2
    <3>. QED
      BY <1>1, <1>4, <2>2, <3>1
  <2>3. CASE x # a /\ x # b
    BY <1>1, <1>3, <1>4, <2>3
  <2>. QED
    BY <2>1, <2>2, <2>3
<1>5. /\ \A x, y \in Nodes(w) : Leaf(w, x) /\ Leaf(w, y) =>
           \A j \in 1 .. Len(Kids(w, x)), l \in 1 .. Len(Kids(w, y)) : Kids(w, x)[j] = Kids(w, y)[l] => x = y
      /\ \A j, l \in 1 .. Len(Kids(w, a)) : Kids(w, a)[j] = Kids(w, a)[l] => j = l
      /\ \A pg \in DOMAIN w.page :
           (\E x \in Nodes(w) : Leaf(w, x) /\ \E j \in 1 .. Len(Kids(w, x)) : Kids(w, x)[j] = pg) <=> pg \notin loose
  <2>1. Arrays(w) /\ Placed(w, loose)
    BY DEF Good
  <2>. QED
    BY <1>1, <2>1 DEF Arrays, Placed
<1>6. ASSUME NEW x \in Nodes(u), NEW y \in Nodes(u), Leaf(u, x), Leaf(u, y),
             NEW j \in 1 .. Len(Kids(u, x)), NEW m \in 1 .. Len(Kids(u, y)), Kids(u, x)[j] = Kids(u, y)[m]
      PROVE  x = y
  <2>1. PICK l \in 1 .. Len(Kids(w, Home(x))) :
          Kids(w, Home(x))[l] = Kids(u, x)[j] /\ (x = a => l <= c) /\ (x = b => l > c)
    BY <1>4, <1>6
  <2>2. PICK h \in 1 .. Len(Kids(w, Home(y))) :
          Kids(w, Home(y))[h] = Kids(u, y)[m] /\ (y = a => h <= c) /\ (y = b => h > c)
    BY <1>4, <1>6
  <2>3. Home(x) \in Nodes(w) /\ Leaf(w, Home(x)) /\ Home(y) \in Nodes(w) /\ Leaf(w, Home(y))
    BY <1>4, <1>6
  <2>4. Home(x) = Home(y)
    BY <1>5, <1>6, <2>1, <2>2, <2>3
  <2>5. Home(x) = a => l = h
    BY <1>5, <1>6, <2>1, <2>2, <2>4
  <2>6. l \in Int /\ h \in Int
    BY <2>1, <2>2
  <2>. QED
    BY <1>1, <2>1, <2>2, <2>4, <2>5, <2>6
<1>7. ASSUME NEW pg \in DOMAIN u.page
      PROVE  (\E x \in Nodes(u) : Leaf(u, x) /\ \E j \in 1 .. Len(Kids(u, x)) : Kids(u, x)[j] = pg)
               <=> pg \notin loose
  <2>1. ASSUME NEW x \in Nodes(u), Leaf(u, x), NEW j \in 1 .. Len(Kids(u, x)), Kids(u, x)[j] = pg
        PROVE  pg \notin loose
    <3>1. Home(x) \in Nodes(w) /\ Leaf(w, Home(x)) /\ \E l \in 1 .. Len(Kids(w, Home(x))) : Kids(w, Home(x))[l] = pg
      BY <1>4, <2>1
    <3>. QED
      BY <1>1, <1>5, <1>7, <3>1
  <2>2. ASSUME pg \notin loose
        PROVE  \E x \in Nodes(u) : Leaf(u, x) /\ \E j \in 1 .. Len(Kids(u, x)) : Kids(u, x)[j] = pg
    <3>1. PICK y \in Nodes(w) : Leaf(w, y) /\ \E j \in 1 .. Len(Kids(w, y)) : Kids(w, y)[j] = pg
      BY <1>1, <1>5, <1>7, <2>2
    <3>2. PICK j \in 1 .. Len(Kids(w, y)) : Kids(w, y)[j] = pg
      BY <3>1
    <3>3. CASE y # a
      BY <1>1, <1>3, <3>1, <3>2, <3>3
    <3>4. CASE y = a /\ j <= c
      <4>1. j \in 1 .. c
        BY <3>2, <3>4
      <4>. QED
        BY <1>1, <1>2, <3>1, <3>2, <3>4, <4>1
    <3>5. CASE y = a /\ ~(j <= c)
      <4>1. j - c \in 1 .. (Len(Kids(w, a)) - c) /\ c + (j - c) = j
        BY <1>1, <3>2, <3>5
      <4>2. Kids(u, b)[j - c] = pg
        BY <1>2, <3>2, <3>5, <4>1
      <4>. QED
        BY <1>1, <1>2, <3>1, <3>5, <4>1, <4>2
    <3>. QED
      BY <3>3, <3>4, <3>5
  <2>. QED
    BY <2>1, <2>2
<1>. QED
  BY <1>6, <1>7 DEF Placed

\* The nodes at a and b are those the node at a in w is divided into.
Divided(w, u, p, i, a, b, c, s) ==
  /\ Apart(w, u, p, i, a, b, c) /\ KidsApart(w, u, p, i, a, b, c) /\ KeysApart(w, u, p, i, a, b, c, s)
  /\ UpsApart(w, u, p, a, b, c) /\ LinksApart(w, u, a, b)

LEMMA DivideKeeps ==
  ASSUME NEW w, NEW u, NEW p, NEW i, NEW a, NEW b, NEW c, NEW s,
         NEW lv, NEW lo, NEW nx, NEW lv2, NEW lo2, NEW nx2, NEW loose,
         Divided(w, u, p, i, a, b, c, s), Good(w, lv, lo, nx, loose, 0),
         CutAt(w, u, lo, lo2, a, b, c, s), FollowingCut(w, nx, nx2, a, b),
         \A x \in Nodes(w) : lv2[x] = lv[x], lv2[b] = lv[a]
  PROVE  Good(u, lv2, lo2, nx2, loose, 0)
<1>1. /\ Apart(w, u, p, i, a, b, c) /\ KidsApart(w, u, p, i, a, b, c) /\ KeysApart(w, u, p, i, a, b, c, s)
      /\ UpsApart(w, u, p, a, b, c) /\ LinksApart(w, u, a, b)
  BY DEF Divided
<1>2. Typed(w) /\ Arrays(w) /\ Parents(w) /\ Levels(w, lv) /\ Children(w, lv)
  BY DEF Good
<1>3. Typed(u) /\ Arrays(u) /\ Parents(u) /\ Levels(u, lv2) /\ Children(u, lv2)
  BY <1>1, <1>2, ApartFacts, DividedArrays, DividedParents, DividedChildren
<1>4. Bounds(u, lo2, 0) /\ Filed(u, lo2)
  BY <1>1, DividedBounds, DividedFiled
<1>5. Top(u, a) <= lo2[b]
  <2>1. /\ i \in Nat /\ i >= 1 /\ i <= Len(Kids(w, p)) /\ Len(Kids(w, p)) \in Nat /\ Kids(w, p)[i] = a
        /\ a # b /\ b # 0 /\ a # 0 /\ Typed(u) /\ p \in Nodes(u) /\ a \in Nodes(u) /\ b \in Nodes(u) /\ ~Leaf(u, p)
    BY <1>1, ApartFacts
  <2>2. /\ Len(Kids(u, p)) = Len(Kids(w, p)) + 1 /\ Kids(u, p)[i] = a /\ Kids(u, p)[i + 1] = b
        /\ i \in 1 .. Len(Kids(u, p)) /\ i + 1 \in 1 .. Len(Kids(u, p))
    <3>1. Len(Kids(u, p)) = Len(Kids(w, p)) + 1 /\ \A j \in 1 .. (Len(Kids(w, p)) + 1) :
            Kids(u, p)[j] = IF j <= i THEN Kids(w, p)[j] ELSE IF j = i + 1 THEN b ELSE Kids(w, p)[j - 1]
      BY <1>1 DEF KidsApart
    <3>2. i \in 1 .. (Len(Kids(w, p)) + 1) /\ i + 1 \in 1 .. (Len(Kids(w, p)) + 1) /\ ~(i + 1 <= i)
      BY <2>1
    <3>. QED
      BY <2>1, <3>1, <3>2
  <2>3. Top(u, a) <= HiAt(u, p, i) /\ LoAt(u, lo2, p, i + 1) <= lo2[b] /\ lo2[b] \in Int
    BY <1>4, <2>1, <2>2 DEF Bounds
  <2>4. i \in 1 .. Len(Keys(u, p)) /\ i <= Len(Keys(u, p)) /\ i + 1 # 1 /\ i + 1 - 1 = i
    <3>1. Len(Keys(u, p)) = Len(Kids(u, p)) - 1
      BY <1>3, <2>1 DEF Arrays
    <3>. QED
      BY <2>1, <2>2, <3>1
  <2>5. HiAt(u, p, i) = Keys(u, p)[i] /\ LoAt(u, lo2, p, i + 1) = Keys(u, p)[i]
    BY <2>4 DEF HiAt, LoAt
  <2>6. Top(u, a) \in Nat /\ Keys(u, p)[i] \in Nat
    BY <2>1, <2>4, NodeFields
  <2>. QED
    BY <2>3, <2>5, <2>6
<1>6. \A x \in Nodes(w) : lv2[x] = lv[x] /\ lo2[x] = lo[x]
  BY DEF CutAt
<1>7. Following(u, nx2) /\ Ordered(u, lv2, lo2, nx2)
  BY <1>1, <1>5, <1>6, DividedFollowing, DividedOrdered
<1>8. Linked(u, nx2) /\ Placed(u, loose)
  BY <1>1, DividedLinked, DividedPlaced
<1>. QED
  BY <1>3, <1>4, <1>7, <1>8 DEF Good

\* What a tree with the nodes at a and b says about them.
LEMMA JoinFacts ==
  ASSUME NEW w, NEW u, NEW p, NEW i, NEW a, NEW b, NEW c, NEW s, NEW lv, NEW lo, NEW nx, NEW loose,
         Divided(w, u, p, i, a, b, c, s), Good(u, lv, lo, nx, loose, 0)
  PROVE  /\ lo[a] \in Int /\ lo[b] \in Int /\ Top(u, a) \in Nat /\ Top(u, b) \in Nat /\ s \in Nat
         /\ lo[a] >= -1 /\ lo[a] < Top(u, a) /\ Top(u, a) <= s /\ s <= lo[b] /\ lo[b] < Top(u, b)
         /\ Top(w, a) = Top(u, b) /\ Top(w, p) = Top(u, p)
         /\ nx[a] = b /\ nx[b] # b /\ nx[b] # a /\ Up(u, a) = p /\ Up(u, b) = p
         /\ lv[a] \in Nat /\ lv[b] = lv[a] /\ lv[p] = lv[a] + 1
         /\ p \in Nodes(u) /\ a \in Nodes(u) /\ b \in Nodes(u) /\ ~Leaf(u, p)
         /\ i \in 1 .. Len(Kids(u, p)) /\ i + 1 \in 1 .. Len(Kids(u, p))
         /\ Kids(u, p)[i] = a /\ Kids(u, p)[i + 1] = b
         /\ Len(Keys(u, p)) = Len(Kids(w, p)) /\ Len(Keys(w, p)) = Len(Kids(w, p)) - 1
         /\ Len(Keys(w, a)) = (IF Leaf(w, a) THEN Len(Kids(w, a)) ELSE Len(Kids(w, a)) - 1)
<1>1. Apart(w, u, p, i, a, b, c) /\ KidsApart(w, u, p, i, a, b, c) /\ KeysApart(w, u, p, i, a, b, c, s)
  BY DEF Divided
<1>2. /\ i \in Nat /\ i >= 1 /\ i <= Len(Kids(w, p)) /\ Len(Kids(w, p)) \in Nat /\ Kids(w, p)[i] = a
      /\ a # b /\ b # 0 /\ a # 0 /\ Typed(u) /\ p \in Nodes(u) /\ a \in Nodes(u) /\ b \in Nodes(u) /\ ~Leaf(u, p)
      /\ Len(Kids(w, a)) \in Nat /\ Len(Keys(w, a)) \in Nat /\ Len(Keys(w, p)) \in Nat
      /\ c \in Nat /\ c >= 1 /\ c < Len(Kids(w, a)) /\ Leaf(u, b) = Leaf(w, a) /\ Leaf(u, a) = Leaf(w, a)
  BY <1>1, ApartFacts
<1>3. /\ Len(Kids(u, p)) = Len(Kids(w, p)) + 1 /\ Kids(u, p)[i] = a /\ Kids(u, p)[i + 1] = b
      /\ i \in 1 .. Len(Kids(u, p)) /\ i + 1 \in 1 .. Len(Kids(u, p)) /\ i < Len(Kids(u, p))
  <2>1. Len(Kids(u, p)) = Len(Kids(w, p)) + 1 /\ \A j \in 1 .. (Len(Kids(w, p)) + 1) :
          Kids(u, p)[j] = IF j <= i THEN Kids(w, p)[j] ELSE IF j = i + 1 THEN b ELSE Kids(w, p)[j - 1]
    BY <1>1 DEF KidsApart
  <2>2. i \in 1 .. (Len(Kids(w, p)) + 1) /\ i + 1 \in 1 .. (Len(Kids(w, p)) + 1) /\ ~(i + 1 <= i)
    BY <1>2
  <2>. QED
    BY <1>2, <2>1, <2>2
<1>4. /\ Len(Keys(u, p)) = Len(Kids(u, p)) - 1
      /\ Len(Keys(u, b)) = IF Leaf(u, b) THEN Len(Kids(u, b)) ELSE Len(Kids(u, b)) - 1
  BY <1>2 DEF Good, Arrays
<1>5. Len(Keys(u, p)) = Len(Kids(w, p)) /\ Len(Keys(w, p)) = Len(Kids(w, p)) - 1
  <2>1. Len(Keys(u, p)) = Len(Keys(w, p)) + 1
    BY <1>1 DEF KeysApart
  <2>. QED
    BY <1>2, <1>3, <1>4, <2>1
<1>6. Len(Keys(w, a)) = IF Leaf(w, a) THEN Len(Kids(w, a)) ELSE Len(Kids(w, a)) - 1
  <2>1. Len(Keys(u, b)) = Len(Keys(w, a)) - c /\ Len(Kids(u, b)) = Len(Kids(w, a)) - c
    BY <1>1 DEF KeysApart, KidsApart
  <2>. QED
    BY <1>2, <1>4, <2>1
<1>7. /\ Kids(u, p)[i] \in Nodes(u) /\ Up(u, Kids(u, p)[i]) = p /\ lv[p] = lv[Kids(u, p)[i]] + 1
      /\ Kids(u, p)[i + 1] \in Nodes(u) /\ Up(u, Kids(u, p)[i + 1]) = p /\ lv[p] = lv[Kids(u, p)[i + 1]] + 1
  BY <1>2, <1>3 DEF Good, Children
<1>8. lv[a] \in Nat /\ lv[b] \in Nat /\ lo[a] \in Int /\ lo[b] \in Int /\ lo[a] >= -1 /\ lo[a] < Top(u, a) /\ lo[b] < Top(u, b)
  BY <1>2, GhostTypes
<1>9. nx[a] = b
  BY <1>2, <1>3 DEF Good, Following
<1>10. Top(u, a) <= s /\ s <= lo[b] /\ s \in Nat
  <2>1. Top(u, a) <= HiAt(u, p, i) /\ LoAt(u, lo, p, i + 1) <= lo[b]
    BY <1>2, <1>3 DEF Good, Bounds
  <2>2. i \in 1 .. Len(Keys(u, p)) /\ i \in 1 .. (Len(Keys(w, p)) + 1) /\ i <= Len(Keys(u, p)) /\ i + 1 # 1 /\ i + 1 - 1 = i
    BY <1>2, <1>5
  <2>3. HiAt(u, p, i) = Keys(u, p)[i] /\ LoAt(u, lo, p, i + 1) = Keys(u, p)[i]
    BY <2>2 DEF HiAt, LoAt
  <2>4. Keys(u, p)[i] = s
    BY <1>1, <1>2, <2>2 DEF KeysApart
  <2>5. Keys(u, p)[i] \in Nat
    BY <1>2, <2>2, NodeFields
  <2>. QED
    BY <2>1, <2>3, <2>4, <2>5
<1>11. Top(u, a) \in Nat /\ Top(u, b) \in Nat /\ Top(w, a) = Top(u, b) /\ Top(w, p) = Top(u, p)
  <2>1. Top(w, a) = Top(u, b) /\ Top(w, p) = Top(u, p)
    BY <1>1 DEF KeysApart
  <2>. QED
    BY <1>2, <2>1, NodeFields
<1>12. nx[b] # b
  BY <1>2, NotBeforeItself
<1>13. nx[b] # a
  <2>1. ASSUME nx[b] = a PROVE Top(u, b) <= lo[a]
    BY <1>2, <2>1 DEF Good, Ordered
  <2>. QED
    BY <1>8, <1>10, <1>11, <2>1
<1>14. lv[b] = lv[a]
  BY <1>3, <1>7, <1>8
<1>. QED
  BY <1>2, <1>3, <1>5, <1>6, <1>7, <1>8, <1>9, <1>10, <1>11, <1>12, <1>13, <1>14

\* Where the children are that the node at a has in w.
LEMMA JoinedKids ==
  ASSUME NEW w, NEW u, NEW p, NEW i, NEW a, NEW b, NEW c, NEW s, Divided(w, u, p, i, a, b, c, s)
  PROVE  /\ \A j \in 1 .. Len(Kids(w, a)) :
              \/ j <= c /\ j \in 1 .. Len(Kids(u, a)) /\ Kids(u, a)[j] = Kids(w, a)[j]
              \/ /\ j > c /\ j \in (c + 1) .. Len(Kids(w, a)) /\ j - c \in 1 .. Len(Kids(u, b))
                 /\ Kids(u, b)[j - c] = Kids(w, a)[j]
         /\ \A j \in 1 .. Len(Kids(w, p)) :
              \/ j <= i /\ j \in 1 .. Len(Kids(u, p)) /\ Kids(u, p)[j] = Kids(w, p)[j]
              \/ j > i /\ j + 1 \in 1 .. Len(Kids(u, p)) /\ Kids(u, p)[j + 1] = Kids(w, p)[j]
         /\ Len(Kids(u, a)) = c /\ Len(Kids(u, b)) = Len(Kids(w, a)) - c /\ Len(Kids(u, p)) = Len(Kids(w, p)) + 1
<1>1. Apart(w, u, p, i, a, b, c) /\ KidsApart(w, u, p, i, a, b, c)
  BY DEF Divided
<1>2. /\ Len(Kids(w, a)) \in Nat /\ Len(Kids(w, p)) \in Nat
      /\ c \in Nat /\ c >= 1 /\ c < Len(Kids(w, a)) /\ i \in Nat /\ i >= 1 /\ i <= Len(Kids(w, p))
  BY <1>1, ApartFacts
<1>3. /\ Len(Kids(u, a)) = c /\ Len(Kids(u, b)) = Len(Kids(w, a)) - c
      /\ \A j \in 1 .. c : Kids(u, a)[j] = Kids(w, a)[j]
      /\ \A j \in 1 .. (Len(Kids(w, a)) - c) : Kids(u, b)[j] = Kids(w, a)[c + j]
      /\ Len(Kids(u, p)) = Len(Kids(w, p)) + 1
      /\ \A j \in 1 .. (Len(Kids(w, p)) + 1) :
           Kids(u, p)[j] = IF j <= i THEN Kids(w, p)[j] ELSE IF j = i + 1 THEN b ELSE Kids(w, p)[j - 1]
  BY <1>1 DEF KidsApart
<1>4. ASSUME NEW j \in 1 .. Len(Kids(w, a))
      PROVE  \/ j <= c /\ j \in 1 .. Len(Kids(u, a)) /\ Kids(u, a)[j] = Kids(w, a)[j]
             \/ /\ j > c /\ j \in (c + 1) .. Len(Kids(w, a)) /\ j - c \in 1 .. Len(Kids(u, b))
                /\ Kids(u, b)[j - c] = Kids(w, a)[j]
  <2>1. CASE j <= c
    BY <1>2, <1>3, <2>1
  <2>2. CASE j > c
    <3>1. j - c \in 1 .. (Len(Kids(w, a)) - c) /\ c + (j - c) = j /\ j \in (c + 1) .. Len(Kids(w, a))
      BY <1>2, <2>2
    <3>. QED
      BY <1>3, <2>2, <3>1
  <2>. QED
    BY <1>2, <2>1, <2>2
<1>5. ASSUME NEW j \in 1 .. Len(Kids(w, p))
      PROVE  \/ j <= i /\ j \in 1 .. Len(Kids(u, p)) /\ Kids(u, p)[j] = Kids(w, p)[j]
             \/ j > i /\ j + 1 \in 1 .. Len(Kids(u, p)) /\ Kids(u, p)[j + 1] = Kids(w, p)[j]
  <2>1. CASE j <= i
    BY <1>2, <1>3, <2>1
  <2>2. CASE j > i
    <3>1. j + 1 \in 1 .. (Len(Kids(w, p)) + 1) /\ ~(j + 1 <= i) /\ j + 1 # i + 1 /\ j + 1 - 1 = j
      BY <1>2, <2>2
    <3>. QED
      BY <1>3, <2>2, <3>1
  <2>. QED
    BY <1>2, <2>1, <2>2
<1>. QED
  BY <1>3, <1>4, <1>5

LEMMA JoinedArrays ==
  ASSUME NEW w, NEW u, NEW p, NEW i, NEW a, NEW b, NEW c, NEW s, NEW lv, NEW lo, NEW nx, NEW loose,
         Divided(w, u, p, i, a, b, c, s), Good(u, lv, lo, nx, loose, 0)
  PROVE  Arrays(w)
<1>1. Apart(w, u, p, i, a, b, c)
  BY DEF Divided
<1>2. /\ Len(Kids(w, a)) \in Nat /\ Len(Kids(w, p)) \in Nat
      /\ c \in Nat /\ c >= 1 /\ c < Len(Kids(w, a)) /\ a # b /\ p # b /\ a # p
      /\ i \in Nat /\ i >= 1 /\ i <= Len(Kids(w, p)) /\ ~Leaf(w, p)
      /\ a \in Nodes(u) /\ b \in Nodes(u) /\ p \in Nodes(u) /\ a \in Nodes(w)
      /\ Nodes(u) = Nodes(w) \union {b} /\ b \notin Nodes(w)
      /\ Leaf(u, b) = Leaf(w, a) /\ \A x \in Nodes(w) : Leaf(u, x) = Leaf(w, x)
  BY <1>1, ApartFacts
<1>3. \A x \in Nodes(u) :
        /\ Len(Kids(u, x)) >= 1
        /\ Len(Keys(u, x)) = IF Leaf(u, x) THEN Len(Kids(u, x)) ELSE Len(Kids(u, x)) - 1
        /\ \A j, m \in 1 .. Len(Kids(u, x)) : Kids(u, x)[j] = Kids(u, x)[m] => j = m
  BY DEF Good, Arrays
<1>4. ASSUME NEW x \in Nodes(w)
      PROVE  /\ Len(Kids(w, x)) >= 1
             /\ Len(Keys(w, x)) = IF Leaf(w, x) THEN Len(Kids(w, x)) ELSE Len(Kids(w, x)) - 1
             /\ \A j, m \in 1 .. Len(Kids(w, x)) : Kids(w, x)[j] = Kids(w, x)[m] => j = m
  <2>1. CASE x # a /\ x # p
    <3>1. Kids(u, x) = Kids(w, x) /\ Keys(u, x) = Keys(w, x) /\ Leaf(u, x) = Leaf(w, x) /\ x \in Nodes(u)
      BY <1>1, <1>2, <2>1 DEF Apart
    <3>. QED
      BY <1>3, <3>1
  <2>2. CASE x = a
    <3>1. \A j \in 1 .. Len(Kids(u, a)), m \in 1 .. Len(Kids(u, b)) : Kids(u, a)[j] # Kids(u, b)[m]
      <4>1. CASE Leaf(w, a)
        BY <1>2, <4>1 DEF Good, Placed
      <4>2. CASE ~Leaf(w, a)
        <5>1. /\ \A j \in 1 .. Len(Kids(u, a)) : Up(u, Kids(u, a)[j]) = a
              /\ \A j \in 1 .. Len(Kids(u, b)) : Up(u, Kids(u, b)[j]) = b
          BY <1>2, <4>2 DEF Good, Children
        <5>. QED
          BY <1>2, <5>1
      <4>. QED
        BY <4>1, <4>2
    <3>2. ASSUME NEW j \in 1 .. Len(Kids(w, a)), NEW m \in 1 .. Len(Kids(w, a)), Kids(w, a)[j] = Kids(w, a)[m]
          PROVE  j = m
      <4>1. \/ j <= c /\ j \in 1 .. Len(Kids(u, a)) /\ Kids(u, a)[j] = Kids(w, a)[j]
            \/ j - c \in 1 .. Len(Kids(u, b)) /\ Kids(u, b)[j - c] = Kids(w, a)[j]
        BY JoinedKids
      <4>2. \/ m <= c /\ m \in 1 .. Len(Kids(u, a)) /\ Kids(u, a)[m] = Kids(w, a)[m]
            \/ m - c \in 1 .. Len(Kids(u, b)) /\ Kids(u, b)[m - c] = Kids(w, a)[m]
        BY JoinedKids
      <4>3. j - c = m - c => j = m
        BY <1>2
      <4>. QED
        BY <1>2, <1>3, <3>1, <3>2, <4>1, <4>2, <4>3
    <3>3. Len(Keys(w, a)) = IF Leaf(w, a) THEN Len(Kids(w, a)) ELSE Len(Kids(w, a)) - 1
      BY JoinFacts
    <3>. QED
      BY <1>2, <2>2, <3>2, <3>3
  <2>3. CASE x = p
    <3>1. ASSUME NEW j \in 1 .. Len(Kids(w, p)), NEW m \in 1 .. Len(Kids(w, p)), Kids(w, p)[j] = Kids(w, p)[m]
          PROVE  j = m
      <4>1. \/ j <= i /\ j \in 1 .. Len(Kids(u, p)) /\ Kids(u, p)[j] = Kids(w, p)[j]
            \/ j > i /\ j + 1 \in 1 .. Len(Kids(u, p)) /\ Kids(u, p)[j + 1] = Kids(w, p)[j]
        BY JoinedKids
      <4>2. \/ m <= i /\ m \in 1 .. Len(Kids(u, p)) /\ Kids(u, p)[m] = Kids(w, p)[m]
            \/ m > i /\ m + 1 \in 1 .. Len(Kids(u, p)) /\ Kids(u, p)[m + 1] = Kids(w, p)[m]
        BY JoinedKids
      <4>3. \A h, l \in 1 .. Len(Kids(u, p)) : Kids(u, p)[h] = Kids(u, p)[l] => h = l
        BY <1>2, <1>3
      <4>. QED
        BY <1>2, <3>1, <4>1, <4>2, <4>3
    <3>2. Len(Keys(w, p)) = Len(Kids(w, p)) - 1
      BY JoinFacts
    <3>. QED
      BY <1>2, <2>3, <3>1, <3>2
  <2>. QED
    BY <2>1, <2>2, <2>3
<1>. QED
  BY <1>4 DEF Arrays

\* In w the nodes are again where those that named them say.
Rejoined(w, a, c) ==
  /\ ~Leaf(w, a) => \A j \in (c + 1) .. Len(Kids(w, a)) : Up(w, Kids(w, a)[j]) = a
  /\ Leaf(w, a) /\ w.node[a].next # 0 => w.node[w.node[a].next].prev = a

LEMMA JoinedParents ==
  ASSUME NEW w, NEW u, NEW p, NEW i, NEW a, NEW b, NEW c, NEW s, NEW lv, NEW lo, NEW nx, NEW loose,
         Divided(w, u, p, i, a, b, c, s), Good(u, lv, lo, nx, loose, 0), Rejoined(w, a, c)
  PROVE  Parents(w)
<1> DEFINE Moved(x) == ~Leaf(w, a) /\ \E j \in (c + 1) .. Len(Kids(w, a)) : Kids(w, a)[j] = x
<1>1. Apart(w, u, p, i, a, b, c) /\ UpsApart(w, u, p, a, b, c)
  BY DEF Divided
<1>2. /\ Len(Kids(w, a)) \in Nat /\ Len(Kids(w, p)) \in Nat
      /\ c \in Nat /\ c >= 1 /\ c < Len(Kids(w, a)) /\ a # b /\ p # b /\ b # 0
      /\ i \in Nat /\ i >= 1 /\ i <= Len(Kids(w, p)) /\ a # p /\ u.root = w.root
      /\ a \in Nodes(w) /\ p \in Nodes(w) /\ ~Leaf(w, p) /\ w.root \in Nodes(w) /\ Typed(w)
      /\ Nodes(u) = Nodes(w) \union {b} /\ b \notin Nodes(w)
      /\ Leaf(u, b) = Leaf(w, a) /\ \A x \in Nodes(w) : Leaf(u, x) = Leaf(w, x)
  BY <1>1, ApartFacts
<1>3. /\ \A x \in Nodes(w) : ~Moved(x) => Up(u, x) = Up(w, x)
      /\ \A x \in Nodes(w) : Moved(x) => Up(u, x) = b
  BY <1>1 DEF UpsApart
<1>4. Up(w, w.root) = 0
  <2>1. Up(u, w.root) = 0
    BY <1>2 DEF Good, Parents
  <2>. QED
    BY <1>2, <1>3, <2>1
<1>5. ASSUME NEW x \in Nodes(w), x # w.root
      PROVE  /\ Up(w, x) \in Nodes(w) /\ ~Leaf(w, Up(w, x))
             /\ \E j \in 1 .. Len(Kids(w, Up(w, x))) : Kids(w, Up(w, x))[j] = x
  <2>1. CASE Moved(x)
    <3>1. PICK j \in (c + 1) .. Len(Kids(w, a)) : Kids(w, a)[j] = x
      BY <2>1
    <3>2. Up(w, x) = a
      BY <2>1, <3>1 DEF Rejoined
    <3>3. j \in 1 .. Len(Kids(w, a))
      BY <1>2, <3>1
    <3>. QED
      BY <1>2, <2>1, <3>1, <3>2, <3>3
  <2>2. CASE ~Moved(x)
    <3> DEFINE y == Up(u, x)
    <3>1. y = Up(w, x) /\ y \in Nodes(u) /\ ~Leaf(u, y) /\ x # b
      BY <1>2, <1>3, <1>5, <2>2 DEF Good, Parents
    <3>2. PICK j \in 1 .. Len(Kids(u, y)) : Kids(u, y)[j] = x
      BY <1>2, <1>5 DEF Good, Parents
    <3>. HIDE DEF y
    <3>3. CASE y = a
      <4>1. j \in 1 .. c
        BY <3>2, <3>3, JoinedKids
      <4>2. j \in 1 .. Len(Kids(w, a)) /\ Kids(w, a)[j] = x
        BY <1>1, <1>2, <3>2, <3>3, <4>1 DEF Divided, KidsApart
      <4>. QED
        BY <1>2, <3>1, <3>3, <4>2
    <3>4. CASE y = p
      <4>1. /\ j \in 1 .. (Len(Kids(w, p)) + 1)
            /\ x = IF j <= i THEN Kids(w, p)[j] ELSE IF j = i + 1 THEN b ELSE Kids(w, p)[j - 1]
        BY <1>1, <3>2, <3>4 DEF Divided, KidsApart
      <4>2. PICK m \in 1 .. Len(Kids(w, p)) : m = IF j <= i THEN j ELSE j - 1
        BY <1>2, <3>1, <4>1
      <4>3. Kids(w, p)[m] = x
        BY <1>2, <3>1, <4>1, <4>2
      <4>. QED
        BY <1>2, <3>1, <3>4, <4>3
    <3>5. CASE y = b
      <4>1. /\ j \in 1 .. (Len(Kids(w, a)) - c) /\ x = Kids(w, a)[c + j]
        BY <1>1, <3>2, <3>5 DEF Divided, KidsApart
      <4>2. c + j \in (c + 1) .. Len(Kids(w, a)) /\ ~Leaf(w, a)
        BY <1>2, <3>1, <3>5, <4>1
      <4>. QED
        BY <2>2, <4>1, <4>2
    <3>6. CASE y # a /\ y # p /\ y # b
      <4>1. Kids(u, y) = Kids(w, y) /\ y \in Nodes(w)
        BY <1>1, <1>2, <3>1, <3>6 DEF Apart
      <4>. QED
        BY <1>2, <3>1, <3>2, <4>1
    <3>. QED
      BY <3>3, <3>4, <3>5, <3>6
  <2>. QED
    BY <2>1, <2>2
<1>. QED
  BY <1>4, <1>5 DEF Parents

LEMMA JoinedChildren ==
  ASSUME NEW w, NEW u, NEW p, NEW i, NEW a, NEW b, NEW c, NEW s, NEW lv, NEW lo, NEW nx, NEW loose, NEW lv1,
         Divided(w, u, p, i, a, b, c, s), Good(u, lv, lo, nx, loose, 0), Rejoined(w, a, c),
         \A x \in Nodes(w) : lv1[x] = lv[x]
  PROVE  Children(w, lv1) /\ Levels(w, lv1)
<1> DEFINE Moved(x) == ~Leaf(w, a) /\ \E j \in (c + 1) .. Len(Kids(w, a)) : Kids(w, a)[j] = x
<1>1. Apart(w, u, p, i, a, b, c) /\ UpsApart(w, u, p, a, b, c)
  BY DEF Divided
<1>2. /\ a # b /\ p # b /\ a # p /\ a \in Nodes(w) /\ p \in Nodes(w) /\ ~Leaf(w, p)
      /\ Nodes(u) = Nodes(w) \union {b} /\ b \notin Nodes(w)
      /\ Leaf(u, b) = Leaf(w, a) /\ \A x \in Nodes(w) : Leaf(u, x) = Leaf(w, x)
  BY <1>1, ApartFacts
<1>3. /\ \A x \in Nodes(w) : ~Moved(x) => Up(u, x) = Up(w, x)
      /\ \A x \in Nodes(w) : Moved(x) => Up(u, x) = b
  BY <1>1 DEF UpsApart
<1>4. Up(u, b) = p /\ lv[b] = lv[a]
  BY JoinFacts
<1>5. \A x \in Nodes(u) : ~Leaf(u, x) => \A j \in 1 .. Len(Kids(u, x)) :
        Kids(u, x)[j] \in Nodes(u) /\ Up(u, Kids(u, x)[j]) = x /\ lv[x] = lv[Kids(u, x)[j]] + 1
  BY DEF Good, Children
<1>6. \A j, m \in 1 .. Len(Kids(u, p)) : Kids(u, p)[j] = Kids(u, p)[m] => j = m
  BY <1>2 DEF Good, Arrays
<1>7. ASSUME NEW x \in Nodes(w), ~Leaf(w, x), NEW j \in 1 .. Len(Kids(w, x)), NEW d, d = Kids(w, x)[j]
      PROVE  d \in Nodes(w) /\ Up(w, d) = x /\ lv1[x] = lv1[d] + 1
  <2>1. CASE x # a /\ x # p
    <3>1. Kids(u, x) = Kids(w, x) /\ ~Leaf(u, x) /\ x \in Nodes(u) /\ x # b
      BY <1>1, <1>2, <1>7, <2>1 DEF Apart
    <3>2. d \in Nodes(u) /\ Up(u, d) = x /\ lv[x] = lv[d] + 1
      BY <1>5, <1>7, <3>1
    <3>. QED
      BY <1>2, <1>3, <1>4, <2>1, <3>1, <3>2
  <2>2. CASE x = a
    <3>1. CASE j <= c
      <4>1. j \in 1 .. Len(Kids(u, a)) /\ Kids(u, a)[j] = d
        BY <1>7, <2>2, <3>1, JoinedKids, ApartFacts, <1>1
      <4>2. d \in Nodes(u) /\ Up(u, d) = a /\ lv[a] = lv[d] + 1
        BY <1>2, <1>5, <1>7, <2>2, <4>1
      <4>. QED
        BY <1>2, <1>3, <1>4, <2>2, <4>2
    <3>2. CASE ~(j <= c)
      <4>1. j \in (c + 1) .. Len(Kids(w, a)) /\ j - c \in 1 .. Len(Kids(u, b)) /\ Kids(u, b)[j - c] = d
        BY <1>7, <2>2, <3>2, JoinedKids
      <4>2. d \in Nodes(u) /\ Up(u, d) = b /\ lv[b] = lv[d] + 1
        BY <1>2, <1>5, <1>7, <2>2, <4>1
      <4>3. Up(w, d) = a
        BY <1>7, <2>2, <4>1 DEF Rejoined
      <4>. QED
        BY <1>2, <1>4, <2>2, <4>2, <4>3
    <3>. QED
      BY <3>1, <3>2
  <2>3. CASE x = p
    <3>1. PICK m \in 1 .. Len(Kids(u, p)) : Kids(u, p)[m] = d /\ m # i + 1
      <4>1. \/ j <= i /\ j \in 1 .. Len(Kids(u, p)) /\ Kids(u, p)[j] = Kids(w, p)[j]
            \/ j > i /\ j + 1 \in 1 .. Len(Kids(u, p)) /\ Kids(u, p)[j + 1] = Kids(w, p)[j]
        BY <1>7, <2>3, JoinedKids
      <4>2. i \in Nat /\ j \in Nat
        BY <1>1, <1>7, ApartFacts
      <4>. QED
        BY <1>7, <2>3, <4>1, <4>2
    <3>2. d \in Nodes(u) /\ Up(u, d) = p /\ lv[p] = lv[d] + 1
      BY <1>2, <1>5, <1>7, <2>3, <3>1
    <3>3. i + 1 \in 1 .. Len(Kids(u, p)) /\ Kids(u, p)[i + 1] = b
      BY JoinFacts
    <3>4. d # b
      BY <1>6, <3>1, <3>3
    <3>. QED
      BY <1>2, <1>3, <2>3, <3>2, <3>4
  <2>. QED
    BY <2>1, <2>2, <2>3
<1>8. Levels(w, lv1)
  BY <1>2 DEF Good, Levels
<1>. QED
  BY <1>7, <1>8 DEF Children

\* The keys of the nodes that were joined.
LEMMA JoinedKeys ==
  ASSUME NEW w, NEW u, NEW p, NEW i, NEW a, NEW b, NEW c, NEW s, NEW lv, NEW lo, NEW nx, NEW loose,
         Divided(w, u, p, i, a, b, c, s), Good(u, lv, lo, nx, loose, 0)
  PROVE  /\ \A j \in 1 .. Len(Keys(w, a)) :
              Keys(w, a)[j] = IF j <= Len(Keys(u, a)) THEN Keys(u, a)[j]
                              ELSE IF j <= c THEN s ELSE Keys(u, b)[j - c]
         /\ \A j \in 1 .. Len(Keys(w, p)) :
              Keys(w, p)[j] = IF j < i THEN Keys(u, p)[j] ELSE Keys(u, p)[j + 1]
         /\ Len(Keys(u, a)) = (IF Leaf(w, a) THEN c ELSE c - 1)
         /\ Len(Keys(u, b)) = Len(Keys(w, a)) - c /\ Len(Keys(u, p)) = Len(Keys(w, p)) + 1
         /\ \A j \in (c + 1) .. Len(Keys(w, a)) : j - c \in 1 .. Len(Keys(u, b))
<1>1. Apart(w, u, p, i, a, b, c) /\ KeysApart(w, u, p, i, a, b, c, s)
  BY DEF Divided
<1>2. /\ Len(Keys(w, a)) \in Nat /\ Len(Keys(w, p)) \in Nat
      /\ c \in Nat /\ c >= 1 /\ i \in Nat /\ i >= 1 /\ i <= Len(Kids(w, p)) /\ Len(Kids(w, p)) \in Nat
  BY <1>1, ApartFacts
<1>3. /\ Len(Keys(u, a)) = (IF Leaf(w, a) THEN c ELSE c - 1) /\ Len(Keys(u, b)) = Len(Keys(w, a)) - c
      /\ \A j \in 1 .. Len(Keys(u, a)) : Keys(u, a)[j] = Keys(w, a)[j]
      /\ \A j \in 1 .. (Len(Keys(w, a)) - c) : Keys(u, b)[j] = Keys(w, a)[c + j]
      /\ ~Leaf(w, a) => Keys(w, a)[c] = s
      /\ Len(Keys(u, p)) = Len(Keys(w, p)) + 1
      /\ \A j \in 1 .. (Len(Keys(w, p)) + 1) :
           Keys(u, p)[j] = IF j < i THEN Keys(w, p)[j] ELSE IF j = i THEN s ELSE Keys(w, p)[j - 1]
  BY <1>1 DEF KeysApart
<1>4. ASSUME NEW j \in 1 .. Len(Keys(w, a))
      PROVE  Keys(w, a)[j] = IF j <= Len(Keys(u, a)) THEN Keys(u, a)[j]
                             ELSE IF j <= c THEN s ELSE Keys(u, b)[j - c]
  <2>1. CASE j <= Len(Keys(u, a))
    <3>1. j \in 1 .. Len(Keys(u, a))
      BY <1>2, <1>3, <2>1
    <3>. QED
      BY <1>3, <2>1, <3>1
  <2>2. CASE ~(j <= Len(Keys(u, a))) /\ j <= c
    <3>1. ~Leaf(w, a) /\ j = c
      BY <1>2, <1>3, <2>2
    <3>. QED
      BY <1>3, <2>2, <3>1
  <2>3. CASE ~(j <= Len(Keys(u, a))) /\ ~(j <= c)
    <3>1. j - c \in 1 .. (Len(Keys(w, a)) - c) /\ c + (j - c) = j
      BY <1>2, <2>3
    <3>2. Keys(u, b)[j - c] = Keys(w, a)[j]
      BY <1>3, <3>1
    <3>. QED
      BY <2>3, <3>2
  <2>. QED
    BY <2>1, <2>2, <2>3
<1>5. ASSUME NEW j \in 1 .. Len(Keys(w, p))
      PROVE  Keys(w, p)[j] = IF j < i THEN Keys(u, p)[j] ELSE Keys(u, p)[j + 1]
  <2>1. j + 1 \in 1 .. (Len(Keys(w, p)) + 1) /\ j \in 1 .. (Len(Keys(w, p)) + 1) /\ j + 1 - 1 = j
        /\ (~(j < i) => ~(j + 1 < i) /\ j + 1 # i)
    BY <1>2
  <2>. QED
    BY <1>3, <2>1
<1>6. \A j \in (c + 1) .. Len(Keys(w, a)) : j - c \in 1 .. Len(Keys(u, b))
  BY <1>2, <1>3
<1>. QED
  BY <1>3, <1>4, <1>5, <1>6

LEMMA JoinedBounds ==
  ASSUME NEW w, NEW u, NEW p, NEW i, NEW a, NEW b, NEW c, NEW s, NEW lv, NEW lo, NEW nx, NEW loose, NEW lo1,
         Divided(w, u, p, i, a, b, c, s), Good(u, lv, lo, nx, loose, 0), \A x \in Nodes(w) : lo1[x] = lo[x]
  PROVE  Bounds(w, lo1, 0)
<1> DEFINE C == Kids(w, a)
           n == Len(C)
           m == Len(Kids(w, p))
<1>1. Apart(w, u, p, i, a, b, c)
  BY DEF Divided
<1>2. /\ n \in Nat /\ m \in Nat
      /\ c \in Nat /\ c >= 1 /\ c < n /\ a # b /\ p # b
      /\ i \in Nat /\ i >= 1 /\ i <= m /\ a # p /\ Kids(w, p)[i] = a
      /\ a \in Nodes(w) /\ p \in Nodes(w) /\ ~Leaf(w, p) /\ Typed(w) /\ Typed(u)
      /\ Nodes(u) = Nodes(w) \union {b} /\ b \notin Nodes(w)
      /\ Leaf(u, b) = Leaf(w, a) /\ \A x \in Nodes(w) : Leaf(u, x) = Leaf(w, x)
  BY <1>1, ApartFacts
<1>3. /\ lo[a] \in Int /\ lo[b] \in Int /\ Top(u, a) \in Nat /\ Top(u, b) \in Nat /\ s \in Nat
      /\ lo[a] >= -1 /\ lo[a] < Top(u, a) /\ Top(u, a) <= s /\ s <= lo[b] /\ lo[b] < Top(u, b)
      /\ Top(w, a) = Top(u, b) /\ Top(w, p) = Top(u, p)
      /\ Up(u, a) = p /\ Up(u, b) = p
      /\ lv[a] \in Nat /\ lv[b] = lv[a] /\ lv[p] = lv[a] + 1
      /\ i \in 1 .. Len(Kids(u, p)) /\ i + 1 \in 1 .. Len(Kids(u, p))
      /\ Kids(u, p)[i] = a /\ Kids(u, p)[i + 1] = b
      /\ Len(Keys(u, p)) = m /\ Len(Keys(w, p)) = m - 1
      /\ Len(Keys(w, a)) = (IF Leaf(w, a) THEN n ELSE n - 1)
      /\ lo1[a] = lo[a] /\ lo1[p] = lo[p]
  BY <1>2, JoinFacts, SMTT(30)
<1>4. /\ \A j \in 1 .. Len(Keys(w, a)) :
           Keys(w, a)[j] = IF j <= Len(Keys(u, a)) THEN Keys(u, a)[j]
                           ELSE IF j <= c THEN s ELSE Keys(u, b)[j - c]
      /\ \A j \in 1 .. Len(Keys(w, p)) :
           Keys(w, p)[j] = IF j < i THEN Keys(u, p)[j] ELSE Keys(u, p)[j + 1]
      /\ Len(Keys(u, a)) = (IF Leaf(w, a) THEN c ELSE c - 1)
      /\ Len(Keys(u, b)) = Len(Keys(w, a)) - c /\ Len(Keys(u, p)) = Len(Keys(w, p)) + 1
      /\ \A j \in (c + 1) .. Len(Keys(w, a)) : j - c \in 1 .. Len(Keys(u, b))
  BY JoinedKeys
<1>5. \A x \in Nodes(w) : \A j : x # a /\ x # p => LoAt(u, lo, x, j) = LoAt(w, lo1, x, j) /\ HiAt(u, x, j) = HiAt(w, x, j)
                                               /\ Kids(u, x) = Kids(w, x) /\ Top(u, x) = Top(w, x)
  BY <1>1 DEF LoAt, HiAt, Apart
<1>6. ASSUME NEW x \in Nodes(u), ~Leaf(u, x), NEW j \in 1 .. Len(Kids(u, x)), NEW d, d = Kids(u, x)[j]
      PROVE  /\ d \in Nodes(u) /\ Up(u, d) = x /\ lv[x] = lv[d] + 1 /\ lv[d] \in Nat /\ lo[d] \in Int /\ Top(u, d) \in Nat
             /\ lo[x] <= LoAt(u, lo, x, j) /\ LoAt(u, lo, x, j) <= lo[d]
             /\ Top(u, d) <= HiAt(u, x, j) /\ HiAt(u, x, j) <= Top(u, x)
             /\ j = 1 => lo[d] = lo[x]
             /\ LoAt(u, lo, x, j) \in Int /\ HiAt(u, x, j) \in Nat /\ lo[x] \in Int /\ Top(u, x) \in Nat
  <2>1. d \in Nodes(u) /\ Up(u, d) = x /\ lv[x] = lv[d] + 1
    BY <1>6 DEF Good, Children
  <2>2. d # 0 /\ Top(u, d) \in Nat /\ lo[d] \in Int /\ lo[x] \in Int /\ Top(u, x) \in Nat /\ lv[d] \in Nat
    BY <1>2, <2>1, NodeFields, GhostTypes
  <2>3. LoAt(u, lo, x, j) \in Int /\ HiAt(u, x, j) \in Nat
    BY <1>6, BoundTypes
  <2>4. /\ lo[x] <= LoAt(u, lo, x, j) /\ LoAt(u, lo, x, j) <= lo[d]
        /\ Top(u, d) <= HiAt(u, x, j) /\ HiAt(u, x, j) <= Top(u, x)
        /\ j = 1 => lo[d] = lo[x]
    BY <1>6, <2>2 DEF Good, Bounds
  <2>. QED
    BY <2>1, <2>2, <2>3, <2>4
<1>7. ASSUME NEW x \in Nodes(w) PROVE lo1[x] \in Int /\ lo1[x] >= -1 /\ lo1[x] < Top(w, x)
  <2>1. CASE x = a
    BY <1>3, <2>1
  <2>2. CASE x # a
    <3>1. Top(u, x) = Top(w, x) /\ x \in Nodes(u) /\ lo1[x] = lo[x]
      BY <1>2, <1>3, <1>5, <2>2
    <3>. QED
      BY <3>1, GhostTypes
  <2>. QED
    BY <2>1, <2>2
\* A child but those at a and b is as in u.
<1>8. \A d \in Nodes(u) : d # a /\ d # b => d \in Nodes(w) /\ Top(w, d) = Top(u, d) /\ lo1[d] = lo[d]
  BY <1>2, <1>3, <1>5
<1>. HIDE DEF C, n, m
<1>9. ASSUME NEW x \in Nodes(w), ~Leaf(w, x), NEW j \in 1 .. Len(Kids(w, x)), NEW d, d = Kids(w, x)[j]
      PROVE  /\ lo1[x] <= LoAt(w, lo1, x, j) /\ LoAt(w, lo1, x, j) <= lo1[d]
             /\ Top(w, d) <= HiAt(w, x, j)
             /\ HiAt(w, x, j) <= Top(w, x)
             /\ (j = 1 => lo1[d] = lo1[x])
  <2>1. CASE x # a /\ x # p
    <3>1. x \in Nodes(u) /\ x # b /\ Kids(u, x) = Kids(w, x) /\ ~Leaf(u, x) /\ Top(u, x) = Top(w, x) /\ lo1[x] = lo[x]
      BY <1>2, <1>5, <1>9, <2>1
    <3>2. LoAt(u, lo, x, j) = LoAt(w, lo1, x, j) /\ HiAt(u, x, j) = HiAt(w, x, j)
      BY <1>5, <2>1
    <3>3. /\ d \in Nodes(u) /\ Up(u, d) = x
          /\ lo[x] <= LoAt(u, lo, x, j) /\ LoAt(u, lo, x, j) <= lo[d]
          /\ Top(u, d) <= HiAt(u, x, j) /\ HiAt(u, x, j) <= Top(u, x)
          /\ (j = 1 => lo[d] = lo[x])
      BY <1>6, <1>9, <3>1
    <3>4. d # a /\ d # b
      BY <1>3, <2>1, <3>3
    <3>. QED
      BY <1>8, <3>1, <3>2, <3>3, <3>4
  <2>2. CASE x = a
    <3>1. ~Leaf(w, a) /\ ~Leaf(u, a) /\ ~Leaf(u, b) /\ Len(Keys(w, a)) = n - 1 /\ Len(Keys(u, a)) = c - 1 /\ j \in 1 .. n
          /\ Len(Keys(u, b)) = n - 1 - c /\ d = C[j]
      BY <1>2, <1>3, <1>4, <1>9, <2>2 DEF C, n
    <3>2. CASE j <= c
      <4>1. j \in 1 .. Len(Kids(u, a)) /\ d = Kids(u, a)[j]
        BY <1>2, <1>9, <2>2, <3>2, JoinedKids
      <4>2. /\ d \in Nodes(u) /\ Up(u, d) = a /\ lo[d] \in Int /\ Top(u, d) \in Nat
            /\ lo[a] <= LoAt(u, lo, a, j) /\ LoAt(u, lo, a, j) <= lo[d]
            /\ Top(u, d) <= HiAt(u, a, j) /\ HiAt(u, a, j) <= Top(u, a)
            /\ (j = 1 => lo[d] = lo[a]) /\ HiAt(u, a, j) \in Nat
        <5>1. a \in Nodes(u)
          BY <1>2
        <5>. QED
          BY <1>6, <3>1, <4>1, <5>1
      <4>3. d # a /\ d # b
        BY <1>2, <1>3, <4>2
      <4>4. LoAt(w, lo1, a, j) = LoAt(u, lo, a, j)
        <5>1. j # 1 => j - 1 \in 1 .. Len(Keys(w, a)) /\ j - 1 <= Len(Keys(u, a))
          BY <1>2, <3>1, <3>2
        <5>2. j # 1 => Keys(w, a)[j - 1] = Keys(u, a)[j - 1]
          BY <1>4, <5>1
        <5>. QED
          BY <1>3, <5>2 DEF LoAt
      <4>5. j \in 1 .. Len(Keys(w, a)) /\ j <= Len(Keys(w, a))
        BY <1>2, <3>1, <3>2
      <4>6. HiAt(w, a, j) = IF j < c THEN HiAt(u, a, j) ELSE s
        <5>1. j < c => j <= Len(Keys(u, a))
          BY <1>2, <3>1
        <5>2. ~(j < c) => ~(j <= Len(Keys(u, a)))
          BY <1>2, <3>1
        <5>. QED
          BY <1>4, <3>2, <4>5, <5>1, <5>2 DEF HiAt
      <4>7. d \in Nodes(w) /\ Top(w, d) = Top(u, d) /\ lo1[d] = lo[d] /\ lo1[a] = lo[a]
        BY <1>3, <1>8, <4>2, <4>3
      <4>8. Top(w, d) <= HiAt(w, a, j) /\ HiAt(w, a, j) <= Top(w, a)
        <5>1. Top(w, d) <= HiAt(u, a, j) /\ HiAt(u, a, j) <= Top(u, a) /\ HiAt(u, a, j) \in Nat /\ Top(w, d) \in Nat
          BY <4>2, <4>7
        <5>2. /\ Top(u, a) <= s /\ s <= lo[b] /\ lo[b] < Top(w, a)
              /\ Top(u, a) \in Nat /\ s \in Nat /\ lo[b] \in Int /\ Top(w, a) \in Nat
          BY <1>3
        <5>3. CASE j < c
          <6>1. HiAt(w, a, j) = HiAt(u, a, j)
            BY <4>6, <5>3
          <6>. QED
            BY <5>1, <5>2, <6>1
        <5>4. CASE ~(j < c)
          <6>1. HiAt(w, a, j) = s
            BY <4>6, <5>4
          <6>. QED
            BY <5>1, <5>2, <6>1
        <5>. QED
          BY <5>3, <5>4
      <4>. QED
        BY <2>2, <4>2, <4>4, <4>7, <4>8
    <3>3. CASE ~(j <= c)
      <4> DEFINE l == j - c
      <4>1. l \in 1 .. Len(Kids(u, b)) /\ d = Kids(u, b)[l] /\ Len(Kids(u, b)) = n - c
        <5>1. j \in 1 .. Len(Kids(w, a)) /\ n = Len(Kids(w, a)) /\ d = Kids(w, a)[j]
          BY <1>9, <2>2 DEF n, C
        <5>2. /\ Len(Kids(u, b)) = Len(Kids(w, a)) - c
              /\ \/ j <= c /\ j \in 1 .. Len(Kids(u, a)) /\ Kids(u, a)[j] = Kids(w, a)[j]
                 \/ j - c \in 1 .. Len(Kids(u, b)) /\ Kids(u, b)[j - c] = Kids(w, a)[j]
          BY <5>1, JoinedKids
        <5>. QED
          BY <3>3, <5>1, <5>2
      <4>2. b \in Nodes(u)
        BY <1>2
      <4>. HIDE DEF l
      <4>3. /\ d \in Nodes(u) /\ Up(u, d) = b /\ lo[d] \in Int /\ Top(u, d) \in Nat
            /\ lo[b] <= LoAt(u, lo, b, l) /\ LoAt(u, lo, b, l) <= lo[d]
            /\ Top(u, d) <= HiAt(u, b, l) /\ HiAt(u, b, l) <= Top(u, b)
            /\ (l = 1 => lo[d] = lo[b]) /\ HiAt(u, b, l) \in Nat
        BY <1>6, <3>1, <4>1, <4>2, SMTT(30)
      <4>4. d # a /\ d # b
        BY <1>2, <1>3, <4>3
      <4>5. j # 1 /\ j - 1 \in 1 .. Len(Keys(w, a)) /\ l = j - c
        BY <1>2, <3>1, <3>3 DEF l
      <4>6. LoAt(w, lo1, a, j) = IF l = 1 THEN s ELSE LoAt(u, lo, b, l)
        <5>1. l = 1 => ~(j - 1 <= Len(Keys(u, a))) /\ j - 1 <= c
          BY <1>2, <3>1, <4>5
        <5>2. l # 1 => ~(j - 1 <= Len(Keys(u, a))) /\ ~(j - 1 <= c) /\ j - 1 - c = l - 1
          BY <1>2, <3>1, <3>3, <4>5
        <5>. QED
          BY <1>4, <4>5, <5>1, <5>2 DEF LoAt
      <4>7. HiAt(w, a, j) = HiAt(u, b, l)
        <5>1. j <= Len(Keys(w, a)) <=> l <= Len(Keys(u, b))
          BY <1>2, <3>1, <4>5
        <5>2. j <= Len(Keys(w, a)) => j \in 1 .. Len(Keys(w, a)) /\ ~(j <= Len(Keys(u, a)))
          BY <1>2, <3>1, <3>3
        <5>. QED
          BY <1>3, <1>4, <3>3, <4>5, <5>1, <5>2 DEF HiAt
      <4>8. LoAt(u, lo, b, l) \in Int
        BY <4>1, <4>2, BoundTypes
      <4>9. LoAt(w, lo1, a, j) <= lo[d] /\ lo[a] <= LoAt(w, lo1, a, j)
        <5>1. lo[b] <= LoAt(u, lo, b, l) /\ LoAt(u, lo, b, l) <= lo[d] /\ (l = 1 => lo[d] = lo[b]) /\ lo[d] \in Int
          BY <4>3
        <5>2. lo[a] < s /\ s <= lo[b] /\ lo[a] \in Int /\ lo[b] \in Int /\ s \in Nat
          BY <1>3
        <5>3. CASE l = 1
          BY <4>6, <5>1, <5>2, <5>3
        <5>4. CASE l # 1
          BY <4>6, <4>8, <5>1, <5>2, <5>4
        <5>. QED
          BY <5>3, <5>4
      <4>. QED
        BY <1>3, <1>8, <2>2, <4>3, <4>4, <4>5, <4>7, <4>9
    <3>. QED
      BY <3>2, <3>3
  <2>3. CASE x = p
    <3>1. j \in 1 .. m /\ p \in Nodes(u) /\ ~Leaf(u, p) /\ Len(Kids(u, p)) = m + 1 /\ m = Len(Kids(w, p)) /\ d = Kids(w, p)[j]
      BY <1>2, <1>9, <2>3, JoinedKids DEF m
    <3>2. \A h \in 1 .. (m + 1) : h # i /\ h # i + 1 => Kids(u, p)[h] # a /\ Kids(u, p)[h] # b
      <4>1. \A h, l \in 1 .. Len(Kids(u, p)) : Kids(u, p)[h] = Kids(u, p)[l] => h = l
        BY <3>1 DEF Good, Arrays
      <4>. QED
        BY <1>3, <3>1, <4>1
    <3>3. CASE j < i
      <4>1. j \in 1 .. Len(Kids(u, p)) /\ d = Kids(u, p)[j] /\ d # a /\ d # b
        <5>1. j \in 1 .. Len(Kids(u, p)) /\ d = Kids(u, p)[j]
          BY <1>2, <3>1, <3>3, JoinedKids
        <5>2. j \in 1 .. (m + 1) /\ j # i /\ j # i + 1
          BY <1>2, <3>1, <3>3
        <5>. QED
          BY <3>2, <5>1, <5>2
      <4>2. /\ d \in Nodes(u) /\ lo[p] <= LoAt(u, lo, p, j) /\ LoAt(u, lo, p, j) <= lo[d]
            /\ Top(u, d) <= HiAt(u, p, j) /\ HiAt(u, p, j) <= Top(u, p)
            /\ (j = 1 => lo[d] = lo[p])
        BY <1>6, <3>1, <4>1
      <4>3. LoAt(w, lo1, p, j) = LoAt(u, lo, p, j)
        <5>1. j # 1 => j - 1 \in 1 .. Len(Keys(w, p)) /\ j - 1 < i
          BY <1>2, <1>3, <3>1, <3>3
        <5>. QED
          BY <1>3, <1>4, <5>1 DEF LoAt
      <4>4. HiAt(w, p, j) = HiAt(u, p, j)
        <5>1. j \in 1 .. Len(Keys(w, p)) /\ j <= Len(Keys(w, p)) /\ j <= Len(Keys(u, p))
          BY <1>2, <1>3, <3>1, <3>3
        <5>. QED
          BY <1>4, <3>3, <5>1 DEF HiAt
      <4>. QED
        BY <1>3, <1>8, <2>3, <4>1, <4>2, <4>3, <4>4
    <3>4. CASE j = i
      <4>1. d = a
        BY <1>2, <3>1, <3>4
      <4>2. /\ lo[p] <= LoAt(u, lo, p, i) /\ LoAt(u, lo, p, i) <= lo[a] /\ (i = 1 => lo[a] = lo[p])
        BY <1>3, <1>6, <3>1
      <4>3. /\ Top(u, b) <= HiAt(u, p, i + 1) /\ HiAt(u, p, i + 1) <= Top(u, p)
        BY <1>3, <1>6, <3>1
      <4>4. LoAt(w, lo1, p, j) = LoAt(u, lo, p, i)
        <5>1. i # 1 => i - 1 \in 1 .. Len(Keys(w, p)) /\ i - 1 < i
          BY <1>2, <1>3
        <5>. QED
          BY <1>3, <1>4, <3>4, <5>1 DEF LoAt
      <4>5. HiAt(w, p, j) = HiAt(u, p, i + 1)
        <5>1. i <= Len(Keys(w, p)) <=> i + 1 <= Len(Keys(u, p))
          BY <1>2, <1>3
        <5>2. i <= Len(Keys(w, p)) => i \in 1 .. Len(Keys(w, p)) /\ ~(i < i)
          BY <1>2, <1>3
        <5>. QED
          BY <1>3, <1>4, <3>4, <5>1, <5>2 DEF HiAt
      <4>. QED
        BY <1>3, <2>3, <3>4, <4>1, <4>2, <4>3, <4>4, <4>5
    <3>5. CASE j > i
      <4>1. j + 1 \in 1 .. Len(Kids(u, p)) /\ d = Kids(u, p)[j + 1] /\ d # a /\ d # b
        <5>1. j + 1 \in 1 .. Len(Kids(u, p)) /\ d = Kids(u, p)[j + 1]
          <6>1. j \in 1 .. Len(Kids(w, p))
            BY <3>1
          <6>2. \/ j <= i
                \/ j + 1 \in 1 .. Len(Kids(u, p)) /\ Kids(u, p)[j + 1] = Kids(w, p)[j]
            BY <6>1, JoinedKids
          <6>. QED
            BY <1>2, <3>1, <3>5, <6>2
        <5>2. j + 1 \in 1 .. (m + 1) /\ j + 1 # i /\ j + 1 # i + 1
          BY <1>2, <3>1, <3>5
        <5>. QED
          BY <3>2, <5>1, <5>2
      <4>2. /\ d \in Nodes(u) /\ lo[p] <= LoAt(u, lo, p, j + 1) /\ LoAt(u, lo, p, j + 1) <= lo[d]
            /\ Top(u, d) <= HiAt(u, p, j + 1) /\ HiAt(u, p, j + 1) <= Top(u, p)
        BY <1>6, <3>1, <4>1
      <4>3. LoAt(w, lo1, p, j) = LoAt(u, lo, p, j + 1)
        <5>1. j # 1 /\ j + 1 # 1 /\ j - 1 \in 1 .. Len(Keys(w, p)) /\ ~(j - 1 < i) /\ j - 1 + 1 = j /\ j + 1 - 1 = j
          BY <1>2, <1>3, <3>1, <3>5
        <5>2. Keys(w, p)[j - 1] = Keys(u, p)[j]
          BY <1>4, <5>1
        <5>. QED
          BY <5>1, <5>2 DEF LoAt
      <4>4. HiAt(w, p, j) = HiAt(u, p, j + 1)
        <5>1. j <= Len(Keys(w, p)) <=> j + 1 <= Len(Keys(u, p))
          BY <1>2, <1>3, <3>1
        <5>2. j <= Len(Keys(w, p)) => j \in 1 .. Len(Keys(w, p)) /\ ~(j < i)
          BY <1>2, <1>3, <3>1, <3>5
        <5>. QED
          BY <1>3, <1>4, <5>1, <5>2 DEF HiAt
      <4>5. j # 1
        BY <1>2, <3>5
      <4>. QED
        BY <1>3, <1>8, <2>3, <4>1, <4>2, <4>3, <4>4, <4>5
    <3>. QED
      BY <1>2, <3>1, <3>3, <3>4, <3>5
  <2>. QED
    BY <2>1, <2>2, <2>3
<1>. QED
  BY <1>7, <1>9 DEF Bounds

LEMMA PageFields ==
  ASSUME NEW t, Typed(t), NEW pg \in DOMAIN t.page
  PROVE  /\ IsMap(t.page[pg]) /\ IsFiniteSet(DOMAIN t.page[pg])
         /\ DOMAIN t.page[pg] \subseteq Key /\ DOMAIN t.page[pg] \subseteq Nat
         /\ \A k \in DOMAIN t.page[pg] : t.page[pg][k] \in Size
         /\ pg \in Nat \ {0} /\ PageType(t.page[pg])
<1>1. PageType(t.page[pg]) /\ DOMAIN t.page \subseteq Nat \ {0}
  BY Zenon DEF Typed
<1>2. /\ IsMap(t.page[pg]) /\ IsFiniteSet(DOMAIN t.page[pg])
      /\ DOMAIN t.page[pg] \subseteq Key
      /\ \A k \in DOMAIN t.page[pg] : t.page[pg][k] \in Size
  BY <1>1, Zenon DEF PageType, IsMap
<1>3. DOMAIN t.page[pg] \subseteq Nat /\ pg \in Nat \ {0}
  BY <1>1, <1>2, KeyAssumption
<1>. QED
  BY <1>1, <1>2, <1>3

LEMMA JoinedFiled ==
  ASSUME NEW w, NEW u, NEW p, NEW i, NEW a, NEW b, NEW c, NEW s, NEW lv, NEW lo, NEW nx, NEW loose, NEW lo1,
         Divided(w, u, p, i, a, b, c, s), Good(u, lv, lo, nx, loose, 0), \A x \in Nodes(w) : lo1[x] = lo[x]
  PROVE  Filed(w, lo1)
<1> DEFINE C == Kids(w, a)
           n == Len(C)
<1>1. Apart(w, u, p, i, a, b, c)
  BY DEF Divided
<1>2. /\ n \in Nat /\ c \in Nat /\ c >= 1 /\ c < n /\ a # b /\ p # b
      /\ a \in Nodes(w) /\ p \in Nodes(w) /\ a # p /\ ~Leaf(w, p) /\ Typed(w) /\ Typed(u) /\ u.page = w.page
      /\ Nodes(u) = Nodes(w) \union {b} /\ b \notin Nodes(w)
      /\ Leaf(u, b) = Leaf(w, a) /\ \A x \in Nodes(w) : Leaf(u, x) = Leaf(w, x)
  BY <1>1, ApartFacts
<1>3. /\ lo[a] \in Int /\ lo[b] \in Int /\ Top(u, a) \in Nat /\ Top(u, b) \in Nat /\ s \in Nat
      /\ lo[a] < Top(u, a) /\ Top(u, a) <= s /\ s <= lo[b] /\ lo[b] < Top(u, b)
      /\ Top(w, a) = Top(u, b) /\ lo1[a] = lo[a]
      /\ Len(Keys(w, a)) = (IF Leaf(w, a) THEN n ELSE n - 1)
  BY <1>2, JoinFacts
<1>4. /\ \A j \in 1 .. Len(Keys(w, a)) :
           Keys(w, a)[j] = IF j <= Len(Keys(u, a)) THEN Keys(u, a)[j]
                           ELSE IF j <= c THEN s ELSE Keys(u, b)[j - c]
      /\ Len(Keys(u, a)) = (IF Leaf(w, a) THEN c ELSE c - 1)
      /\ Len(Keys(u, b)) = Len(Keys(w, a)) - c
  BY JoinedKeys
<1>5. ASSUME NEW x \in Nodes(u), Leaf(u, x), NEW j \in 1 .. Len(Kids(u, x)), NEW pg, pg = Kids(u, x)[j]
      PROVE  /\ pg \in DOMAIN u.page
             /\ LoAt(u, lo, x, j) < Keys(u, x)[j] /\ Keys(u, x)[j] <= Top(u, x)
             /\ \A k \in DOMAIN u.page[pg] : LoAt(u, lo, x, j) < k /\ k <= Keys(u, x)[j] /\ k \in Nat
             /\ Keys(u, x)[j] \in Nat /\ LoAt(u, lo, x, j) \in Int /\ j \in 1 .. Len(Keys(u, x))
  <2>1. /\ pg \in DOMAIN u.page
        /\ LoAt(u, lo, x, j) < Keys(u, x)[j] /\ Keys(u, x)[j] <= Top(u, x)
        /\ \A k \in DOMAIN u.page[pg] : LoAt(u, lo, x, j) < k /\ k <= Keys(u, x)[j]
    BY <1>5 DEF Good, Filed
  <2>2. j \in 1 .. Len(Keys(u, x))
    BY <1>5 DEF Good, Arrays
  <2>3. Keys(u, x)[j] \in Nat /\ LoAt(u, lo, x, j) \in Int
    BY <1>2, <1>5, <2>2, NodeFields, BoundTypes
  <2>4. DOMAIN u.page[pg] \subseteq Nat
    BY <1>2, <2>1, PageFields
  <2>. QED
    BY <2>1, <2>2, <2>3, <2>4
<1>6. ASSUME NEW x \in Nodes(w), Leaf(w, x), NEW j \in 1 .. Len(Kids(w, x)), NEW pg, pg = Kids(w, x)[j]
      PROVE  /\ pg \in DOMAIN w.page
             /\ LoAt(w, lo1, x, j) < Keys(w, x)[j] /\ Keys(w, x)[j] <= Top(w, x)
             /\ \A k \in DOMAIN w.page[pg] : LoAt(w, lo1, x, j) < k /\ k <= Keys(w, x)[j]
  <2>1. CASE x # a
    <3>1. x # p /\ Leaf(u, x) /\ x \in Nodes(u)
      BY <1>2, <1>6
    <3>2. Kids(u, x) = Kids(w, x) /\ Keys(u, x) = Keys(w, x) /\ Top(u, x) = Top(w, x) /\ lo1[x] = lo[x]
      BY <1>1, <2>1, <3>1 DEF Apart
    <3>3. LoAt(u, lo, x, j) = LoAt(w, lo1, x, j)
      BY <3>2 DEF LoAt
    <3>. QED
      BY <1>2, <1>5, <1>6, <3>1, <3>2, <3>3
  <2>2. CASE x = a /\ j <= c
    <3>1. j \in 1 .. Len(Kids(u, a)) /\ pg = Kids(u, a)[j] /\ Leaf(u, a) /\ a \in Nodes(u)
      <4>1. \/ j <= c /\ j \in 1 .. Len(Kids(u, a)) /\ Kids(u, a)[j] = Kids(w, a)[j]
            \/ j > c
        BY <1>6, <2>2, JoinedKids
      <4>2. j \in Nat
        BY <1>6
      <4>. QED
        BY <1>2, <1>6, <2>2, <4>1, <4>2
    <3>2. /\ pg \in DOMAIN u.page
          /\ LoAt(u, lo, a, j) < Keys(u, a)[j] /\ Keys(u, a)[j] <= Top(u, a)
          /\ \A k \in DOMAIN u.page[pg] : LoAt(u, lo, a, j) < k /\ k <= Keys(u, a)[j]
          /\ Keys(u, a)[j] \in Nat
      BY <1>5, <3>1
    <3>3. j \in 1 .. Len(Keys(w, a)) /\ Keys(w, a)[j] = Keys(u, a)[j]
      BY <1>2, <1>3, <1>4, <1>6, <2>2
    <3>4. LoAt(w, lo1, a, j) = LoAt(u, lo, a, j)
      <4>1. j # 1 => j - 1 \in 1 .. Len(Keys(w, a)) /\ j - 1 <= Len(Keys(u, a))
        BY <1>2, <1>3, <1>4, <1>6, <2>2
      <4>. QED
        BY <1>3, <1>4, <4>1 DEF LoAt
    <3>5. Keys(u, a)[j] <= Top(w, a)
      BY <1>3, <3>2
    <3>. QED
      BY <1>2, <2>2, <3>2, <3>3, <3>4, <3>5
  <2>3. CASE x = a /\ ~(j <= c)
    <3> DEFINE l == j - c
    <3>1. l \in 1 .. Len(Kids(u, b)) /\ pg = Kids(u, b)[l] /\ Leaf(u, b) /\ b \in Nodes(u)
      <4>1. \/ j <= c
            \/ j - c \in 1 .. Len(Kids(u, b)) /\ Kids(u, b)[j - c] = Kids(w, a)[j]
        BY <1>6, <2>3, JoinedKids
      <4>. QED
        BY <1>2, <1>6, <2>3, <4>1
    <3>2. j \in Nat /\ j >= 1 /\ j <= n /\ l = j - c
      BY <1>2, <1>6, <2>3
    <3>. HIDE DEF l
    <3>3. /\ pg \in DOMAIN u.page
          /\ LoAt(u, lo, b, l) < Keys(u, b)[l] /\ Keys(u, b)[l] <= Top(u, b)
          /\ \A k \in DOMAIN u.page[pg] : LoAt(u, lo, b, l) < k /\ k <= Keys(u, b)[l] /\ k \in Nat
          /\ Keys(u, b)[l] \in Nat /\ LoAt(u, lo, b, l) \in Int
      BY <1>5, <3>1
    <3>4. Keys(w, a)[j] = Keys(u, b)[l]
      <4>1. j \in 1 .. Len(Keys(w, a)) /\ ~(j <= Len(Keys(u, a)))
        BY <1>2, <1>3, <1>4, <1>6, <2>3, <3>2
      <4>. QED
        BY <1>4, <2>3, <3>2, <4>1
    <3>5. LoAt(w, lo1, a, j) <= LoAt(u, lo, b, l) /\ LoAt(w, lo1, a, j) \in Int
      <4>1. CASE l = 1
        <5>1. j # 1 /\ j - 1 = c /\ c \in 1 .. Len(Keys(w, a)) /\ c \in 1 .. Len(Kids(u, a)) /\ c <= Len(Keys(u, a))
          <6>1. Len(Kids(u, a)) = c
            BY JoinedKids
          <6>. QED
            BY <1>2, <1>3, <1>4, <1>6, <2>3, <3>2, <4>1, <6>1
        <5>2. LoAt(w, lo1, a, j) = Keys(u, a)[c] /\ LoAt(u, lo, b, l) = lo[b]
          BY <1>4, <4>1, <5>1 DEF LoAt
        <5>3. Keys(u, a)[c] <= Top(u, a) /\ Keys(u, a)[c] \in Nat
          <6>1. Leaf(u, a) /\ a \in Nodes(u)
            BY <1>2, <1>6, <2>3
          <6>. QED
            BY <1>5, <5>1, <6>1
        <5>. QED
          BY <1>3, <5>2, <5>3
      <4>2. CASE l # 1
        <5>1. j # 1 /\ j - 1 \in 1 .. Len(Keys(w, a)) /\ ~(j - 1 <= Len(Keys(u, a))) /\ ~(j - 1 <= c) /\ j - 1 - c = l - 1
          BY <1>2, <1>3, <1>4, <1>6, <2>3, <3>2, <4>2
        <5>2. LoAt(w, lo1, a, j) = Keys(u, b)[l - 1] /\ LoAt(u, lo, b, l) = Keys(u, b)[l - 1]
          BY <1>4, <4>2, <5>1 DEF LoAt
        <5>. QED
          BY <3>3, <5>2
      <4>. QED
        BY <4>1, <4>2
    <3>6. LoAt(w, lo1, a, j) < Keys(w, a)[j] /\ Keys(w, a)[j] <= Top(w, a)
      BY <1>3, <3>3, <3>4, <3>5
    <3>7. \A k \in DOMAIN u.page[pg] : LoAt(w, lo1, a, j) < k /\ k <= Keys(w, a)[j]
      BY <3>3, <3>4, <3>5
    <3>. QED
      BY <1>2, <2>3, <3>3, <3>6, <3>7
  <2>. QED
    BY <2>1, <2>2, <2>3
<1>. QED
  BY <1>6 DEF Filed

\* What follows the nodes when those at a and b become one.
FollowingJoin(w, nx, nx1, a, b) ==
  /\ \A x \in Nodes(w) : x # a => nx1[x] = nx[x]
  /\ nx1[a] = nx[b]

\* A node of w is not followed by the one at b, unless it is the one at a.
LEMMA JoinedNext ==
  ASSUME NEW w, NEW u, NEW p, NEW i, NEW a, NEW b, NEW c, NEW s, NEW lv, NEW lo, NEW nx, NEW loose, NEW nx1,
         Divided(w, u, p, i, a, b, c, s), Good(u, lv, lo, nx, loose, 0), FollowingJoin(w, nx, nx1, a, b)
  PROVE  \A x \in Nodes(w) : nx1[x] # 0 =>
           /\ nx1[x] \in Nodes(w) /\ Kids(u, nx1[x])[1] = Kids(w, nx1[x])[1]
           /\ lv[nx1[x]] = lv[x] /\ Top(w, x) <= lo[nx1[x]]
           /\ \A y \in Nodes(w) : nx1[y] = nx1[x] => y = x
<1>1. Apart(w, u, p, i, a, b, c)
  BY DEF Divided
<1>2. /\ a # b /\ p # b /\ a # p /\ b # 0 /\ a \in Nodes(w) /\ p \in Nodes(w)
      /\ c \in Nat /\ c >= 1 /\ i \in Nat /\ i >= 1 /\ i <= Len(Kids(w, p)) /\ c < Len(Kids(w, a))
      /\ Len(Kids(w, p)) \in Nat /\ Len(Kids(w, a)) \in Nat
      /\ Nodes(u) = Nodes(w) \union {b} /\ b \notin Nodes(w)
  BY <1>1, ApartFacts
<1>3. nx[a] = b /\ nx[b] # b /\ nx[b] # a /\ lv[b] = lv[a] /\ Top(w, a) = Top(u, b)
  BY JoinFacts
<1>4. \A x \in Nodes(u) : nx[x] # 0 =>
        /\ nx[x] \in Nodes(u) /\ lv[nx[x]] = lv[x] /\ Top(u, x) <= lo[nx[x]]
        /\ \A y \in Nodes(u) : nx[y] = nx[x] => y = x
  BY DEF Good, Ordered
<1>5. /\ \A x \in Nodes(w) : x # a => nx1[x] = nx[x]
      /\ nx1[a] = nx[b]
  BY DEF FollowingJoin
<1>6. \A x \in Nodes(w) : Kids(u, x)[1] = Kids(w, x)[1]
  <2>1. Kids(u, a)[1] = Kids(w, a)[1]
    <3>1. 1 \in 1 .. c
      BY <1>2
    <3>. QED
      BY <3>1 DEF Divided, KidsApart
  <2>2. Kids(u, p)[1] = Kids(w, p)[1]
    <3>1. 1 \in 1 .. (Len(Kids(w, p)) + 1) /\ 1 <= i
      BY <1>2
    <3>. QED
      BY <3>1 DEF Divided, KidsApart
  <2>3. \A x \in Nodes(w) : x # a /\ x # p => Kids(u, x) = Kids(w, x)
    BY <1>1 DEF Apart
  <2>. QED
    BY <2>1, <2>2, <2>3
<1>7. \A x \in Nodes(w) : x # a => Top(w, x) = Top(u, x)
  BY <1>1 DEF Apart, Divided, KeysApart
<1>8. ASSUME NEW x \in Nodes(w), nx1[x] # 0
      PROVE  /\ nx1[x] \in Nodes(w) /\ lv[nx1[x]] = lv[x] /\ Top(w, x) <= lo[nx1[x]]
             /\ \A y \in Nodes(w) : nx1[y] = nx1[x] => y = x
  <2>1. CASE x = a
    <3>1. nx1[a] = nx[b] /\ nx[b] \in Nodes(w) /\ lv[nx[b]] = lv[a] /\ Top(w, a) <= lo[nx[b]]
      BY <1>2, <1>3, <1>4, <1>5, <1>8, <2>1
    <3>2. \A y \in Nodes(w) : nx1[y] = nx[b] => y = a
      BY <1>2, <1>3, <1>4, <1>5, <1>8, <2>1
    <3>. QED
      BY <2>1, <3>1, <3>2
  <2>2. CASE x # a
    <3>1. nx1[x] = nx[x] /\ nx[x] \in Nodes(u) /\ nx[x] # b /\ lv[nx[x]] = lv[x] /\ Top(w, x) <= lo[nx[x]]
      BY <1>2, <1>3, <1>4, <1>5, <1>7, <1>8, <2>2
    <3>2. \A y \in Nodes(w) : nx1[y] = nx[x] => y = x
      BY <1>2, <1>3, <1>4, <1>5, <1>8, <2>2
    <3>. QED
      BY <1>2, <3>1, <3>2
  <2>. QED
    BY <2>1, <2>2
<1>. QED
  BY <1>6, <1>8

LEMMA JoinedOrdered ==
  ASSUME NEW w, NEW u, NEW p, NEW i, NEW a, NEW b, NEW c, NEW s, NEW lv, NEW lo, NEW nx, NEW loose,
         NEW lv1, NEW lo1, NEW nx1,
         Divided(w, u, p, i, a, b, c, s), Good(u, lv, lo, nx, loose, 0), FollowingJoin(w, nx, nx1, a, b),
         \A x \in Nodes(w) : lv1[x] = lv[x] /\ lo1[x] = lo[x]
  PROVE  Ordered(w, lv1, lo1, nx1)
<1>1. Apart(w, u, p, i, a, b, c)
  BY DEF Divided
<1>2. u.root = w.root /\ w.root \in Nodes(w) /\ a # b
  BY <1>1, ApartFacts
<1>3. nx1[w.root] = 0
  <2>1. w.root # a
    <3>1. p \in Nodes(u) /\ ~Leaf(u, p) /\ i \in 1 .. Len(Kids(u, p)) /\ Kids(u, p)[i] = a
      BY JoinFacts
    <3>2. Typed(u) /\ Parents(u) /\ Children(u, lv)
      BY DEF Good
    <3>. QED
      BY <1>2, <3>1, <3>2, RootIsNoChild
  <2>2. nx[u.root] = 0
    BY DEF Good, Ordered
  <2>. QED
    BY <1>2, <2>1, <2>2 DEF FollowingJoin
<1>4. \A x \in Nodes(w) : nx1[x] # 0 =>
           /\ nx1[x] \in Nodes(w) /\ lv[nx1[x]] = lv[x] /\ Top(w, x) <= lo[nx1[x]]
           /\ \A y \in Nodes(w) : nx1[y] = nx1[x] => y = x
  BY JoinedNext
<1>. QED
  BY <1>3, <1>4 DEF Ordered

LEMMA JoinedFollowing ==
  ASSUME NEW w, NEW u, NEW p, NEW i, NEW a, NEW b, NEW c, NEW s, NEW lv, NEW lo, NEW nx, NEW loose, NEW nx1,
         Divided(w, u, p, i, a, b, c, s), Good(u, lv, lo, nx, loose, 0), FollowingJoin(w, nx, nx1, a, b)
  PROVE  Following(w, nx1)
<1> DEFINE n == Len(Kids(w, a))
           m == Len(Kids(w, p))
<1>1. Apart(w, u, p, i, a, b, c)
  BY DEF Divided
<1>2. /\ n \in Nat /\ m \in Nat /\ c \in Nat /\ c >= 1 /\ c < n /\ a # b /\ p # b /\ b # 0
      /\ i \in Nat /\ i >= 1 /\ i <= m /\ a # p /\ Kids(w, p)[i] = a /\ i \in 1 .. m
      /\ a \in Nodes(w) /\ p \in Nodes(w) /\ ~Leaf(w, p)
      /\ Nodes(u) = Nodes(w) \union {b} /\ b \notin Nodes(w)
      /\ Leaf(u, b) = Leaf(w, a) /\ \A x \in Nodes(w) : Leaf(u, x) = Leaf(w, x)
  BY <1>1, ApartFacts
<1>3. /\ nx[a] = b /\ nx[b] # b /\ Up(u, a) = p /\ Up(u, b) = p
      /\ p \in Nodes(u) /\ a \in Nodes(u) /\ b \in Nodes(u) /\ ~Leaf(u, p)
      /\ i + 1 \in 1 .. Len(Kids(u, p)) /\ Kids(u, p)[i + 1] = b
  BY JoinFacts
<1>4. /\ \A x \in Nodes(w) : x # a => nx1[x] = nx[x]
      /\ nx1[a] = nx[b]
  BY DEF FollowingJoin
<1>5. \A x \in Nodes(w) : nx1[x] # 0 => Kids(u, nx1[x])[1] = Kids(w, nx1[x])[1]
  BY JoinedNext
<1>6. ASSUME NEW x \in Nodes(u), ~Leaf(u, x), NEW j \in 1 .. Len(Kids(u, x)), NEW d, d = Kids(u, x)[j]
      PROVE  /\ d \in Nodes(u) /\ Up(u, d) = x
             /\ nx[d] = IF j < Len(Kids(u, x)) THEN Kids(u, x)[j + 1]
                        ELSE IF nx[x] = 0 THEN 0 ELSE Kids(u, nx[x])[1]
  <2>1. d \in Nodes(u) /\ Up(u, d) = x
    BY <1>6 DEF Good, Children
  <2>2. nx[d] = IF j < Len(Kids(u, x)) THEN Kids(u, x)[j + 1]
                ELSE IF nx[x] = 0 THEN 0 ELSE Kids(u, nx[x])[1]
    BY <1>6 DEF Good, Following
  <2>. QED
    BY <2>1, <2>2
<1>7. /\ Len(Kids(u, a)) = c /\ Len(Kids(u, b)) = n - c /\ Len(Kids(u, p)) = m + 1
      /\ \A j \in 1 .. c : Kids(u, a)[j] = Kids(w, a)[j]
      /\ \A j \in 1 .. (n - c) : Kids(u, b)[j] = Kids(w, a)[c + j]
      /\ \A j \in 1 .. (m + 1) :
           Kids(u, p)[j] = IF j <= i THEN Kids(w, p)[j] ELSE IF j = i + 1 THEN b ELSE Kids(w, p)[j - 1]
  BY DEF Divided, KidsApart
<1>. HIDE DEF n, m
<1>8. ASSUME NEW x \in Nodes(w), ~Leaf(w, x), NEW j \in 1 .. Len(Kids(w, x)), NEW d, d = Kids(w, x)[j]
      PROVE  nx1[d] = IF j < Len(Kids(w, x)) THEN Kids(w, x)[j + 1]
                      ELSE IF nx1[x] = 0 THEN 0 ELSE Kids(w, nx1[x])[1]
  <2>1. CASE x # a /\ x # p
    <3>1. Kids(u, x) = Kids(w, x) /\ x \in Nodes(u) /\ ~Leaf(u, x) /\ nx1[x] = nx[x]
      BY <1>1, <1>2, <1>4, <1>8, <2>1 DEF Apart
    <3>2. d \in Nodes(u) /\ d # a /\ d # b
      BY <1>3, <1>6, <1>8, <2>1, <3>1
    <3>3. nx1[d] = nx[d]
      BY <1>2, <1>4, <3>2
    <3>. QED
      BY <1>5, <1>6, <1>8, <3>1, <3>3
  <2>2. CASE x = a
    <3>1. j \in 1 .. n /\ n = Len(Kids(w, a)) /\ ~Leaf(u, a) /\ ~Leaf(u, b) /\ d = Kids(w, a)[j]
      BY <1>2, <1>8, <2>2 DEF n
    <3>2. CASE j <= c
      <4>1. j \in 1 .. c /\ d = Kids(u, a)[j] /\ j < n
        BY <1>2, <1>7, <3>1, <3>2
      <4>2. d \in Nodes(u) /\ Up(u, d) = a
            /\ nx[d] = IF j < c THEN Kids(u, a)[j + 1] ELSE Kids(u, b)[1]
        BY <1>2, <1>3, <1>6, <1>7, <3>1, <4>1
      <4>3. nx1[d] = nx[d]
        BY <1>2, <1>3, <1>4, <4>2
      <4>4. CASE j < c
        <5>1. j + 1 \in 1 .. c
          BY <1>2, <4>1, <4>4
        <5>. QED
          BY <1>7, <2>2, <3>1, <4>1, <4>2, <4>3, <4>4, <5>1
      <4>5. CASE ~(j < c)
        <5>1. j = c /\ 1 \in 1 .. (n - c)
          BY <1>2, <4>1, <4>5
        <5>2. Kids(u, b)[1] = Kids(w, a)[j + 1]
          BY <1>7, <5>1
        <5>. QED
          BY <2>2, <3>1, <4>1, <4>2, <4>3, <4>5, <5>2
      <4>. QED
        BY <4>4, <4>5
    <3>3. CASE ~(j <= c)
      <4> DEFINE l == j - c
      <4>1. l \in 1 .. (n - c) /\ c + l = j /\ (l < n - c <=> j < n)
        BY <1>2, <3>1, <3>3
      <4>. HIDE DEF l
      <4>2. d = Kids(u, b)[l]
        BY <1>7, <3>1, <4>1
      <4>3. d \in Nodes(u) /\ Up(u, d) = b
            /\ nx[d] = IF l < n - c THEN Kids(u, b)[l + 1] ELSE IF nx[b] = 0 THEN 0 ELSE Kids(u, nx[b])[1]
        <5>1. l \in 1 .. Len(Kids(u, b)) /\ b \in Nodes(u)
          BY <1>3, <1>7, <4>1
        <5>2. /\ d \in Nodes(u) /\ Up(u, d) = b
              /\ nx[d] = IF l < Len(Kids(u, b)) THEN Kids(u, b)[l + 1]
                         ELSE IF nx[b] = 0 THEN 0 ELSE Kids(u, nx[b])[1]
          BY <1>6, <3>1, <4>2, <5>1
        <5>3. Len(Kids(u, b)) = n - c
          BY <1>7
        <5>. QED
          BY <5>2, <5>3
      <4>4. nx1[d] = nx[d]
        BY <1>2, <1>3, <1>4, <4>3
      <4>5. l < n - c => Kids(u, b)[l + 1] = Kids(w, a)[j + 1]
        <5>1. l < n - c => l + 1 \in 1 .. (n - c) /\ c + (l + 1) = j + 1
          BY <1>2, <3>1, <4>1
        <5>. QED
          BY <1>7, <5>1
      <4>6. nx1[a] # 0 => Kids(u, nx1[a])[1] = Kids(w, nx1[a])[1]
        BY <1>2, <1>5
      <4>. QED
        BY <1>4, <2>2, <3>1, <4>1, <4>3, <4>4, <4>5, <4>6
    <3>. QED
      BY <3>2, <3>3
  <2>3. CASE x = p
    <3>1. j \in 1 .. m /\ m = Len(Kids(w, p)) /\ d = Kids(w, p)[j] /\ nx1[p] = nx[p]
      BY <1>2, <1>4, <1>8, <2>3 DEF m
    <3>2. nx1[p] # 0 => Kids(u, nx1[p])[1] = Kids(w, nx1[p])[1]
      BY <1>2, <1>5
    <3>3. \A h, l \in 1 .. (m + 1) : Kids(u, p)[h] = Kids(u, p)[l] => h = l
      BY <1>3, <1>7 DEF Good, Arrays
    <3>4. ASSUME NEW h \in 1 .. (m + 1)
          PROVE  nx[Kids(u, p)[h]] = IF h < m + 1 THEN Kids(u, p)[h + 1]
                                     ELSE IF nx[p] = 0 THEN 0 ELSE Kids(u, nx[p])[1]
      BY <1>3, <1>6, <1>7
    <3>5. CASE j < i
      <4>1. j \in 1 .. (m + 1) /\ j + 1 \in 1 .. (m + 1) /\ j + 1 <= i /\ j < m /\ j < m + 1 /\ j <= i
        BY <1>2, <3>1, <3>5
      <4>2. d = Kids(u, p)[j] /\ Kids(u, p)[j + 1] = Kids(w, p)[j + 1]
        BY <1>7, <3>1, <4>1
      <4>3. nx[d] = Kids(w, p)[j + 1]
        BY <3>4, <4>1, <4>2
      <4>4. d # a /\ d # b
        <5>1. i \in 1 .. (m + 1) /\ i + 1 \in 1 .. (m + 1) /\ j # i /\ j # i + 1 /\ i <= i
          BY <1>2, <3>1, <3>5
        <5>2. Kids(u, p)[i] = a
          BY <1>2, <1>7, <5>1
        <5>. QED
          BY <1>3, <3>3, <4>1, <4>2, <5>1, <5>2
      <4>5. d \in Nodes(u)
        BY <1>3, <1>6, <1>7, <4>1, <4>2
      <4>. QED
        BY <1>2, <1>4, <2>3, <3>1, <4>1, <4>3, <4>4, <4>5
    <3>6. CASE j >= i
      <4>1. j + 1 \in 1 .. (m + 1) /\ (j + 1 < m + 1 <=> j < m)
        BY <1>2, <3>1
      <4>2. nx1[d] = nx[Kids(u, p)[j + 1]]
        <5>1. CASE j = i
          BY <1>2, <1>3, <1>4, <3>1, <5>1
        <5>2. CASE j # i
          <6>1. j + 1 # i /\ j + 1 # i + 1 /\ ~(j + 1 <= i) /\ j + 1 - 1 = j /\ i \in 1 .. (m + 1) /\ i + 1 \in 1 .. (m + 1) /\ i <= i
            BY <1>2, <3>1, <3>6, <5>2
          <6>2. d = Kids(u, p)[j + 1]
            BY <1>7, <3>1, <4>1, <6>1
          <6>3. Kids(u, p)[i] = a
            BY <1>2, <1>7, <6>1
          <6>4. d # a /\ d # b
            BY <1>3, <3>3, <4>1, <6>1, <6>2, <6>3
          <6>5. d \in Nodes(u)
            BY <1>3, <1>6, <1>7, <4>1, <6>2
          <6>. QED
            BY <1>2, <1>4, <6>2, <6>4, <6>5
        <5>. QED
          BY <5>1, <5>2
      <4>3. j < m => Kids(u, p)[j + 1 + 1] = Kids(w, p)[j + 1]
        <5>1. j < m => j + 1 + 1 \in 1 .. (m + 1) /\ ~(j + 1 + 1 <= i) /\ j + 1 + 1 # i + 1 /\ j + 1 + 1 - 1 = j + 1
          BY <1>2, <3>1, <3>6
        <5>. QED
          BY <1>7, <5>1
      <4>4. nx[Kids(u, p)[j + 1]] = IF j < m THEN Kids(u, p)[j + 1 + 1] ELSE IF nx[p] = 0 THEN 0 ELSE Kids(u, nx[p])[1]
        BY <3>4, <4>1
      <4>. QED
        BY <2>3, <3>1, <3>2, <4>2, <4>3, <4>4
    <3>. QED
      BY <1>2, <3>1, <3>5, <3>6
  <2>. QED
    BY <2>1, <2>2, <2>3
<1>. QED
  BY <1>8 DEF Following

LEMMA JoinedLinked ==
  ASSUME NEW w, NEW u, NEW p, NEW i, NEW a, NEW b, NEW c, NEW s, NEW lv, NEW lo, NEW nx, NEW loose, NEW nx1,
         Divided(w, u, p, i, a, b, c, s), Good(u, lv, lo, nx, loose, 0), FollowingJoin(w, nx, nx1, a, b),
         Rejoined(w, a, c)
  PROVE  Linked(w, nx1)
<1>1. Apart(w, u, p, i, a, b, c) /\ LinksApart(w, u, a, b)
  BY DEF Divided
<1>2. /\ a # b /\ b # 0 /\ a # 0 /\ a \in Nodes(w) /\ Typed(w)
      /\ Nodes(u) = Nodes(w) \union {b} /\ b \notin Nodes(w) /\ 0 \notin Nodes(u)
      /\ Leaf(u, b) = Leaf(w, a) /\ \A x \in Nodes(w) : Leaf(u, x) = Leaf(w, x)
  BY <1>1, ApartFacts, ZenonT(30) DEF Typed
<1>3. /\ \A x \in Nodes(w) : x # a => nx1[x] = nx[x]
      /\ nx1[a] = nx[b]
  BY DEF FollowingJoin
<1>4. nx[a] = b /\ nx[b] # b /\ nx[b] # a
  BY JoinFacts
<1>5. \A x \in Nodes(u) : IF Leaf(u, x)
        THEN /\ u.node[x].next = nx[x]
             /\ nx[x] # 0 => u.node[nx[x]].prev = x
             /\ u.node[x].prev # 0 => u.node[x].prev \in Nodes(u) /\ nx[u.node[x].prev] = x
        ELSE u.node[x].next = 0 /\ u.node[x].prev = 0
  BY DEF Good, Linked, Leaf
<1>6. \A x \in Nodes(u) : nx[x] # 0 =>
        /\ nx[x] \in Nodes(u) /\ (Leaf(u, nx[x]) <=> Leaf(u, x)) /\ nx[x] # x
        /\ \A y \in Nodes(u) : nx[y] = nx[x] => y = x
  BY NotBeforeItself DEF Good, Ordered, Levels
<1>7. /\ u.node[a].prev = w.node[a].prev
      /\ \A x \in Nodes(w) : x # a => u.node[x].next = w.node[x].next
      /\ u.node[b].next = w.node[a].next
  BY <1>1 DEF LinksApart
<1>8. Leaf(w, a) => /\ w.node[a].next = nx[b]
                    /\ \A x \in Nodes(w) : x # a => u.node[x].prev = IF x = nx[b] THEN b ELSE w.node[x].prev
  <2>1. Leaf(w, a) => w.node[a].next = nx[b]
    BY <1>2, <1>5, <1>7
  <2>. QED
    BY <1>1, <2>1 DEF LinksApart
<1>9. ~Leaf(w, a) => /\ u.node[a].next = w.node[a].next /\ u.node[b].prev = 0
                     /\ \A x \in Nodes(w) : u.node[x].prev = w.node[x].prev
  BY <1>1 DEF LinksApart
<1>10. Leaf(w, a) /\ nx[b] # 0 => w.node[nx[b]].prev = a
  BY <1>8 DEF Rejoined
<1>11. ASSUME NEW x \in Nodes(w), Leaf(w, x)
       PROVE  /\ w.node[x].next = nx1[x]
              /\ nx1[x] # 0 => w.node[nx1[x]].prev = x
              /\ w.node[x].prev # 0 => w.node[x].prev \in Nodes(w) /\ nx1[w.node[x].prev] = x
  <2>1. CASE x = a
    <3>1. w.node[a].prev # 0 => w.node[a].prev \in Nodes(u) /\ nx[w.node[a].prev] = a
      BY <1>2, <1>5, <1>7, <1>11, <2>1
    <3>2. w.node[a].prev # 0 => w.node[a].prev # a /\ w.node[a].prev # b
      BY <1>2, <1>4, <1>6, <3>1
    <3>. QED
      BY <1>2, <1>3, <1>8, <1>10, <1>11, <2>1, <3>1, <3>2
  <2>2. CASE x # a
    <3>1. x \in Nodes(u) /\ Leaf(u, x) /\ nx1[x] = nx[x] /\ x # b /\ x # 0
      BY <1>2, <1>3, <1>11, <2>2
    <3>2. w.node[x].next = nx1[x]
      BY <1>5, <1>7, <2>2, <3>1
    <3>3. ASSUME nx[x] # 0 PROVE w.node[nx[x]].prev = x
      <4>1. u.node[nx[x]].prev = x /\ nx[x] \in Nodes(u) /\ nx[x] # b /\ nx[x] # nx[b]
        BY <1>2, <1>4, <1>5, <1>6, <2>2, <3>1, <3>3
      <4>. QED
        BY <1>2, <1>7, <1>8, <1>9, <4>1
    <3>4. ASSUME w.node[x].prev # 0
          PROVE  w.node[x].prev \in Nodes(w) /\ nx1[w.node[x].prev] = x
      <4>1. CASE Leaf(w, a) /\ x = nx[b]
        BY <1>2, <1>3, <1>10, <3>1, <4>1
      <4>2. CASE ~(Leaf(w, a) /\ x = nx[b])
        <5>1. u.node[x].prev = w.node[x].prev
          BY <1>8, <1>9, <1>11, <2>2, <4>2
        <5>2. w.node[x].prev \in Nodes(u) /\ nx[w.node[x].prev] = x
          BY <1>5, <3>1, <3>4, <5>1
        <5>3. nx[b] # x
          <6>1. ASSUME nx[b] = x PROVE Leaf(w, a)
            BY <1>2, <1>6, <3>1, <6>1
          <6>. QED
            BY <4>2, <6>1
        <5>. QED
          BY <1>2, <1>3, <1>4, <3>1, <5>2, <5>3
      <4>. QED
        BY <4>1, <4>2
    <3>. QED
      BY <3>1, <3>2, <3>3, <3>4
  <2>. QED
    BY <2>1, <2>2
<1>12. ASSUME NEW x \in Nodes(w), ~Leaf(w, x)
       PROVE  w.node[x].next = 0 /\ w.node[x].prev = 0
  <2>1. x \in Nodes(u) /\ ~Leaf(u, x) /\ x # 0
    BY <1>2, <1>12
  <2>2. u.node[x].next = 0 /\ u.node[x].prev = 0
    BY <1>5, <2>1
  <2>3. Leaf(w, a) => x # nx[b]
    BY <1>2, <1>6, <2>1
  <2>. QED
    BY <1>7, <1>8, <1>9, <1>12, <2>2, <2>3
<1>. QED
  BY <1>11, <1>12 DEF Linked, Leaf

LEMMA JoinedPlaced ==
  ASSUME NEW w, NEW u, NEW p, NEW i, NEW a, NEW b, NEW c, NEW s, NEW lv, NEW lo, NEW nx, NEW loose,
         Divided(w, u, p, i, a, b, c, s), Good(u, lv, lo, nx, loose, 0)
  PROVE  Placed(w, loose)
<1>1. Apart(w, u, p, i, a, b, c)
  BY DEF Divided
<1>2. /\ Len(Kids(w, a)) \in Nat /\ c \in Nat /\ c >= 1 /\ c < Len(Kids(w, a))
      /\ a # b /\ a # p /\ p # b /\ a \in Nodes(w) /\ p \in Nodes(w) /\ ~Leaf(w, p) /\ u.page = w.page
      /\ Nodes(u) = Nodes(w) \union {b} /\ b \notin Nodes(w)
      /\ Leaf(u, b) = Leaf(w, a) /\ \A x \in Nodes(w) : Leaf(u, x) = Leaf(w, x)
  BY <1>1, ApartFacts
<1>3. \A x \in Nodes(w) : x # a /\ Leaf(w, x) => Kids(u, x) = Kids(w, x)
  BY <1>1, <1>2 DEF Apart
<1>4. /\ Len(Kids(u, a)) = c /\ Len(Kids(u, b)) = Len(Kids(w, a)) - c
      /\ \A j \in 1 .. c : Kids(u, a)[j] = Kids(w, a)[j]
      /\ \A j \in 1 .. (Len(Kids(w, a)) - c) : Kids(u, b)[j] = Kids(w, a)[c + j]
  BY DEF Divided, KidsApart
\* Where a page in w is in u.
<1>5. ASSUME NEW x \in Nodes(w), Leaf(w, x), NEW j \in 1 .. Len(Kids(w, x))
      PROVE  \E y \in Nodes(u) : /\ Leaf(u, y) /\ (y = x \/ (x = a /\ y = b))
                                 /\ \E l \in 1 .. Len(Kids(u, y)) : Kids(u, y)[l] = Kids(w, x)[j]
  <2>1. CASE x # a
    BY <1>2, <1>3, <1>5, <2>1
  <2>2. CASE x = a
    <3>1. \/ j <= c /\ j \in 1 .. Len(Kids(u, a)) /\ Kids(u, a)[j] = Kids(w, a)[j]
          \/ j - c \in 1 .. Len(Kids(u, b)) /\ Kids(u, b)[j - c] = Kids(w, a)[j]
      BY <1>5, <2>2, JoinedKids
    <3>. QED
      BY <1>2, <1>5, <2>2, <3>1
  <2>. QED
    BY <2>1, <2>2
<1>6. /\ \A x, y \in Nodes(u) : Leaf(u, x) /\ Leaf(u, y) =>
           \A j \in 1 .. Len(Kids(u, x)), l \in 1 .. Len(Kids(u, y)) : Kids(u, x)[j] = Kids(u, y)[l] => x = y
      /\ \A pg \in DOMAIN u.page :
           (\E x \in Nodes(u) : Leaf(u, x) /\ \E j \in 1 .. Len(Kids(u, x)) : Kids(u, x)[j] = pg) <=> pg \notin loose
  <2>1. Placed(u, loose)
    BY DEF Good
  <2>. QED
    BY <2>1 DEF Placed
<1>7. ASSUME NEW x \in Nodes(w), NEW y \in Nodes(w), Leaf(w, x), Leaf(w, y),
             NEW j \in 1 .. Len(Kids(w, x)), NEW m \in 1 .. Len(Kids(w, y)), Kids(w, x)[j] = Kids(w, y)[m]
      PROVE  x = y
  <2>1. PICK x2 \in Nodes(u) : /\ Leaf(u, x2) /\ (x2 = x \/ (x = a /\ x2 = b))
                               /\ \E l \in 1 .. Len(Kids(u, x2)) : Kids(u, x2)[l] = Kids(w, x)[j]
    BY <1>5, <1>7
  <2>2. PICK y2 \in Nodes(u) : /\ Leaf(u, y2) /\ (y2 = y \/ (y = a /\ y2 = b))
                               /\ \E l \in 1 .. Len(Kids(u, y2)) : Kids(u, y2)[l] = Kids(w, y)[m]
    BY <1>5, <1>7
  <2>3. x2 = y2
    BY <1>6, <1>7, <2>1, <2>2
  <2>. QED
    BY <1>2, <2>1, <2>2, <2>3
<1>8. ASSUME NEW pg \in DOMAIN w.page
      PROVE  (\E x \in Nodes(w) : Leaf(w, x) /\ \E j \in 1 .. Len(Kids(w, x)) : Kids(w, x)[j] = pg)
               <=> pg \notin loose
  <2>1. ASSUME NEW x \in Nodes(w), Leaf(w, x), NEW j \in 1 .. Len(Kids(w, x)), Kids(w, x)[j] = pg
        PROVE  pg \notin loose
    <3>1. \E y \in Nodes(u) : Leaf(u, y) /\ \E l \in 1 .. Len(Kids(u, y)) : Kids(u, y)[l] = pg
      BY <1>5, <2>1
    <3>. QED
      BY <1>2, <1>6, <1>8, <3>1
  <2>2. ASSUME pg \notin loose
        PROVE  \E x \in Nodes(w) : Leaf(w, x) /\ \E j \in 1 .. Len(Kids(w, x)) : Kids(w, x)[j] = pg
    <3>1. PICK y \in Nodes(u) : Leaf(u, y) /\ \E j \in 1 .. Len(Kids(u, y)) : Kids(u, y)[j] = pg
      BY <1>2, <1>6, <1>8, <2>2
    <3>2. PICK j \in 1 .. Len(Kids(u, y)) : Kids(u, y)[j] = pg
      BY <3>1
    <3>3. CASE y # a /\ y # b
      BY <1>2, <1>3, <3>1, <3>2, <3>3
    <3>4. CASE y = a
      <4>1. j \in 1 .. c /\ j \in 1 .. Len(Kids(w, a))
        BY <1>2, <1>4, <3>2, <3>4
      <4>. QED
        BY <1>2, <1>4, <3>1, <3>2, <3>4, <4>1
    <3>5. CASE y = b
      <4>1. j \in 1 .. (Len(Kids(w, a)) - c) /\ c + j \in 1 .. Len(Kids(w, a))
        BY <1>2, <1>4, <3>2, <3>5
      <4>2. Kids(w, a)[c + j] = pg
        BY <1>4, <3>2, <3>5, <4>1
      <4>. QED
        BY <1>2, <3>1, <3>5, <4>1, <4>2
    <3>. QED
      BY <3>3, <3>4, <3>5
  <2>. QED
    BY <2>1, <2>2
<1>. QED
  BY <1>7, <1>8 DEF Placed

LEMMA JoinKeeps ==
  ASSUME NEW w, NEW u, NEW p, NEW i, NEW a, NEW b, NEW c, NEW s,
         NEW lv, NEW lo, NEW nx, NEW loose, NEW lv1, NEW lo1, NEW nx1,
         Divided(w, u, p, i, a, b, c, s), Good(u, lv, lo, nx, loose, 0), Rejoined(w, a, c),
         FollowingJoin(w, nx, nx1, a, b), \A x \in Nodes(w) : lv1[x] = lv[x] /\ lo1[x] = lo[x]
  PROVE  Good(w, lv1, lo1, nx1, loose, 0)
<1>1. Typed(w)
  BY DEF Divided, Apart
<1>2. Arrays(w)
  BY JoinedArrays
<1>3. Parents(w)
  BY JoinedParents
<1>4. Children(w, lv1) /\ Levels(w, lv1)
  BY JoinedChildren
<1>5. Bounds(w, lo1, 0) /\ Filed(w, lo1)
  BY JoinedBounds, JoinedFiled
<1>6. Following(w, nx1)
  BY JoinedFollowing
<1>7. Ordered(w, lv1, lo1, nx1)
  BY JoinedOrdered
<1>8. Linked(w, nx1)
  BY JoinedLinked
<1>9. Placed(w, loose)
  BY JoinedPlaced
<1>. QED
  BY <1>1, <1>2, <1>3, <1>4, <1>5, <1>6, <1>7, <1>8, <1>9 DEF Good

(***************************************************************************)
(* A leaf is changed, and its pages.                                       *)
(***************************************************************************)
\* The tree v is t but for the arrays and the bound of the leaf at a, and pages.
Edited(t, v, a) ==
  /\ Typed(v) /\ v.root = t.root /\ Nodes(v) = Nodes(t) /\ a \in Nodes(t)
  /\ \A x \in Nodes(t) : x # a => v.node[x] = t.node[x]
  /\ Leaf(t, a) /\ Leaf(v, a) /\ Up(v, a) = Up(t, a)
  /\ v.node[a].prev = t.node[a].prev /\ v.node[a].next = t.node[a].next

\* The leaf at a is in order.
FiledAt(v, lo, a) ==
  /\ Len(Kids(v, a)) >= 1 /\ Len(Keys(v, a)) = Len(Kids(v, a))
  /\ \A i, j \in 1 .. Len(Kids(v, a)) : Kids(v, a)[i] = Kids(v, a)[j] => i = j
  /\ \A i \in 1 .. Len(Kids(v, a)) :
       /\ Kids(v, a)[i] \in DOMAIN v.page
       /\ LoAt(v, lo, a, i) < Keys(v, a)[i] /\ Keys(v, a)[i] <= Top(v, a)
       /\ \A k \in DOMAIN v.page[Kids(v, a)[i]] : LoAt(v, lo, a, i) < k /\ k <= Keys(v, a)[i]

\* Other leaves' pages got no more keys.
PagesKept(t, v, a) ==
  \A x \in Nodes(t) : Leaf(t, x) /\ x # a => \A i \in 1 .. Len(Kids(t, x)) :
    /\ Kids(t, x)[i] \in DOMAIN v.page
    /\ DOMAIN v.page[Kids(t, x)[i]] \subseteq DOMAIN t.page[Kids(t, x)[i]]

LEMMA EditFacts ==
  ASSUME NEW t, NEW v, NEW a, Edited(t, v, a)
  PROVE  /\ Typed(v) /\ v.root = t.root /\ Nodes(v) = Nodes(t) /\ a \in Nodes(t) /\ Leaf(t, a)
         /\ \A x \in Nodes(t) : /\ Leaf(v, x) = Leaf(t, x) /\ Up(v, x) = Up(t, x)
                                /\ v.node[x].prev = t.node[x].prev /\ v.node[x].next = t.node[x].next
         /\ \A x \in Nodes(t) : x # a => Kids(v, x) = Kids(t, x) /\ Keys(v, x) = Keys(t, x) /\ Top(v, x) = Top(t, x)
<1>1. /\ Typed(v) /\ v.root = t.root /\ Nodes(v) = Nodes(t) /\ a \in Nodes(t) /\ Leaf(t, a) /\ Leaf(v, a)
      /\ Up(v, a) = Up(t, a) /\ v.node[a].prev = t.node[a].prev /\ v.node[a].next = t.node[a].next
      /\ \A x \in Nodes(t) : x # a => v.node[x] = t.node[x]
  BY DEF Edited
<1>2. ASSUME NEW x \in Nodes(t), x # a
      PROVE  /\ Leaf(v, x) = Leaf(t, x) /\ Up(v, x) = Up(t, x) /\ Kids(v, x) = Kids(t, x)
             /\ Keys(v, x) = Keys(t, x) /\ Top(v, x) = Top(t, x)
             /\ v.node[x].prev = t.node[x].prev /\ v.node[x].next = t.node[x].next
  <2>1. v.node[x] = t.node[x]
    BY <1>1, <1>2
  <2>. QED
    BY <2>1, Zenon DEF Leaf, Up, Kids, Keys, Top
<1>3. Leaf(v, a) = Leaf(t, a)
  <2>1. Leaf(v, a) \in BOOLEAN
    BY <1>1, NodeFields
  <2>2. Leaf(t, a) = TRUE \/ TRUE
    OBVIOUS
  <2>3. a \in Nodes(v)
    BY <1>1
  <2>4. Leaf(v, a) = TRUE
    BY <1>1, <2>1
  <2>. QED
    BY <1>1, <2>4
<1>. QED
  BY <1>1, <1>2, <1>3

LEMMA EditKeeps ==
  ASSUME NEW t, NEW v, NEW a, NEW lv, NEW lo, NEW nx, NEW loose, NEW loose2,
         Good(t, lv, lo, nx, loose, 0), Edited(t, v, a), FiledAt(v, lo, a), PagesKept(t, v, a),
         nx[a] # 0 => Top(v, a) <= lo[nx[a]], Placed(v, loose2)
  PROVE  /\ Good(v, lv, lo, nx, loose2, a)
         /\ Top(v, a) <= Top(t, a) => Good(v, lv, lo, nx, loose2, 0)
<1>1. /\ Typed(v) /\ v.root = t.root /\ Nodes(v) = Nodes(t) /\ a \in Nodes(t) /\ Leaf(t, a)
      /\ \A x \in Nodes(t) : /\ Leaf(v, x) = Leaf(t, x) /\ Up(v, x) = Up(t, x)
                             /\ v.node[x].prev = t.node[x].prev /\ v.node[x].next = t.node[x].next
      /\ \A x \in Nodes(t) : x # a => Kids(v, x) = Kids(t, x) /\ Keys(v, x) = Keys(t, x) /\ Top(v, x) = Top(t, x)
  BY EditFacts
<1>2. \A x \in Nodes(t) : ~Leaf(t, x) => x # a
  BY <1>1
<1>3. Arrays(v)
  <2>1. ASSUME NEW x \in Nodes(v)
        PROVE  /\ Len(Kids(v, x)) >= 1
               /\ Len(Keys(v, x)) = IF Leaf(v, x) THEN Len(Kids(v, x)) ELSE Len(Kids(v, x)) - 1
               /\ \A i, j \in 1 .. Len(Kids(v, x)) : Kids(v, x)[i] = Kids(v, x)[j] => i = j
    <3>1. CASE x = a
      BY <1>1, <3>1 DEF FiledAt
    <3>2. CASE x # a
      BY <1>1, <2>1, <3>2 DEF Good, Arrays
    <3>. QED
      BY <3>1, <3>2
  <2>. QED
    BY <2>1 DEF Arrays
<1>4. Parents(v) /\ Levels(v, lv) /\ Children(v, lv) /\ Following(v, nx)
  <2>1. Parents(v)
    <3>1. Up(t, t.root) = 0 /\ t.root \in Nodes(t)
          /\ \A x \in Nodes(t) \ {t.root} :
               /\ Up(t, x) \in Nodes(t) /\ ~Leaf(t, Up(t, x))
               /\ \E i \in 1 .. Len(Kids(t, Up(t, x))) : Kids(t, Up(t, x))[i] = x
      BY DEF Good, Parents, Typed
    <3>2. ASSUME NEW x \in Nodes(v) \ {v.root}
          PROVE  /\ Up(v, x) \in Nodes(v) /\ ~Leaf(v, Up(v, x))
                 /\ \E i \in 1 .. Len(Kids(v, Up(v, x))) : Kids(v, Up(v, x))[i] = x
      <4>1. Up(v, x) = Up(t, x) /\ Up(t, x) \in Nodes(t) /\ ~Leaf(t, Up(t, x))
            /\ \E i \in 1 .. Len(Kids(t, Up(t, x))) : Kids(t, Up(t, x))[i] = x
        BY <1>1, <3>1
      <4>2. Kids(v, Up(t, x)) = Kids(t, Up(t, x)) /\ ~Leaf(v, Up(t, x))
        BY <1>1, <4>1
      <4>. QED
        BY <1>1, <4>1, <4>2
    <3>. QED
      BY <1>1, <3>1, <3>2 DEF Parents
  <2>2. Levels(v, lv)
    BY <1>1 DEF Good, Levels
  <2>3. Children(v, lv)
    BY <1>1, <1>2 DEF Good, Children
  <2>4. Following(v, nx)
    <3>1. ASSUME NEW x \in Nodes(t), ~Leaf(t, x), nx[x] # 0
          PROVE  Kids(v, nx[x]) = Kids(t, nx[x])
      <4>1. nx[x] \in Nodes(t) /\ ~Leaf(t, nx[x])
        BY <3>1 DEF Good, Ordered, Levels
      <4>. QED
        BY <1>1, <4>1
    <3>2. ASSUME NEW x \in Nodes(v), ~Leaf(v, x), NEW i \in 1 .. Len(Kids(v, x))
          PROVE  nx[Kids(v, x)[i]] = IF i < Len(Kids(v, x)) THEN Kids(v, x)[i + 1]
                                     ELSE IF nx[x] = 0 THEN 0 ELSE Kids(v, nx[x])[1]
      <4>1. x \in Nodes(t) /\ ~Leaf(t, x) /\ Kids(v, x) = Kids(t, x)
        BY <1>1, <1>2, <3>2
      <4>2. nx[Kids(t, x)[i]] = IF i < Len(Kids(t, x)) THEN Kids(t, x)[i + 1]
                                ELSE IF nx[x] = 0 THEN 0 ELSE Kids(t, nx[x])[1]
        BY <3>2, <4>1 DEF Good, Following
      <4>. QED
        BY <3>1, <4>1, <4>2
    <3>. QED
      BY <3>2 DEF Following
  <2>. QED
    BY <2>1, <2>2, <2>3, <2>4
<1>5. Linked(v, nx)
  <2>1. ASSUME NEW x \in Nodes(v)
        PROVE  IF v.node[x].leaf
               THEN /\ v.node[x].next = nx[x]
                    /\ nx[x] # 0 => v.node[nx[x]].prev = x
                    /\ v.node[x].prev # 0 => v.node[x].prev \in Nodes(v) /\ nx[v.node[x].prev] = x
               ELSE v.node[x].next = 0 /\ v.node[x].prev = 0
    <3>1. /\ x \in Nodes(t) /\ v.node[x].leaf = t.node[x].leaf
          /\ v.node[x].next = t.node[x].next /\ v.node[x].prev = t.node[x].prev
      BY <1>1, <2>1 DEF Leaf
    <3>2. nx[x] # 0 => v.node[nx[x]].prev = t.node[nx[x]].prev
      BY <1>1, <3>1, GhostTypes
    <3>3. IF t.node[x].leaf
          THEN /\ t.node[x].next = nx[x]
               /\ nx[x] # 0 => t.node[nx[x]].prev = x
               /\ t.node[x].prev # 0 => t.node[x].prev \in Nodes(t) /\ nx[t.node[x].prev] = x
          ELSE t.node[x].next = 0 /\ t.node[x].prev = 0
      BY <3>1 DEF Good, Linked
    <3>. QED
      BY <1>1, <3>1, <3>2, <3>3
  <2>. QED
    BY <2>1 DEF Linked
<1>6. Filed(v, lo)
  <2>1. ASSUME NEW x \in Nodes(v), Leaf(v, x), NEW i \in 1 .. Len(Kids(v, x))
        PROVE  /\ Kids(v, x)[i] \in DOMAIN v.page
               /\ LoAt(v, lo, x, i) < Keys(v, x)[i] /\ Keys(v, x)[i] <= Top(v, x)
               /\ \A k \in DOMAIN v.page[Kids(v, x)[i]] : LoAt(v, lo, x, i) < k /\ k <= Keys(v, x)[i]
    <3>1. CASE x = a
      BY <2>1, <3>1 DEF FiledAt
    <3>2. CASE x # a
      <4>1. x \in Nodes(t) /\ Leaf(t, x) /\ Kids(v, x) = Kids(t, x) /\ Keys(v, x) = Keys(t, x) /\ Top(v, x) = Top(t, x)
        BY <1>1, <2>1, <3>2
      <4>2. LoAt(v, lo, x, i) = LoAt(t, lo, x, i)
        BY <4>1 DEF LoAt
      <4>3. /\ LoAt(t, lo, x, i) < Keys(t, x)[i] /\ Keys(t, x)[i] <= Top(t, x)
            /\ \A k \in DOMAIN t.page[Kids(t, x)[i]] : LoAt(t, lo, x, i) < k /\ k <= Keys(t, x)[i]
        BY <2>1, <4>1 DEF Good, Filed
      <4>4. /\ Kids(t, x)[i] \in DOMAIN v.page
            /\ DOMAIN v.page[Kids(t, x)[i]] \subseteq DOMAIN t.page[Kids(t, x)[i]]
        BY <2>1, <3>2, <4>1 DEF PagesKept
      <4>. QED
        BY <4>1, <4>2, <4>3, <4>4
    <3>. QED
      BY <3>1, <3>2
  <2>. QED
    BY <2>1 DEF Filed
<1>7. Ordered(v, lv, lo, nx)
  <2>1. ASSUME NEW x \in Nodes(v), nx[x] # 0
        PROVE  /\ nx[x] \in Nodes(v) /\ lv[nx[x]] = lv[x] /\ Top(v, x) <= lo[nx[x]]
               /\ \A y \in Nodes(v) : nx[y] = nx[x] => y = x
    <3>1. /\ nx[x] \in Nodes(t) /\ lv[nx[x]] = lv[x] /\ Top(t, x) <= lo[nx[x]]
          /\ \A y \in Nodes(t) : nx[y] = nx[x] => y = x
      BY <1>1, <2>1 DEF Good, Ordered
    <3>2. Top(v, x) <= lo[nx[x]]
      BY <1>1, <2>1, <3>1
    <3>. QED
      BY <1>1, <3>1, <3>2
  <2>2. nx[v.root] = 0
    BY <1>1 DEF Good, Ordered
  <2>. QED
    BY <2>1, <2>2 DEF Ordered
<1>8. lo[a] < Top(v, a)
  <2>1. 1 \in 1 .. Len(Kids(v, a)) /\ Len(Kids(v, a)) \in Nat /\ Top(v, a) \in Nat /\ lo[a] \in Int /\ 1 \in 1 .. Len(Keys(v, a))
    <3>1. a \in Nodes(v)
      BY <1>1
    <3>2. Len(Kids(v, a)) \in Nat /\ Top(v, a) \in Nat
      BY <1>1, <3>1, NodeFields
    <3>3. lo[a] \in Int
      BY <1>1, GhostTypes
    <3>4. Len(Kids(v, a)) >= 1 /\ Len(Keys(v, a)) = Len(Kids(v, a))
      BY DEF FiledAt
    <3>. QED
      BY <3>2, <3>3, <3>4
  <2>2. Keys(v, a)[1] \in Nat
    BY <1>1, <2>1, NodeFields
  <2>3. LoAt(v, lo, a, 1) = lo[a]
    BY DEF LoAt
  <2>4. LoAt(v, lo, a, 1) < Keys(v, a)[1] /\ Keys(v, a)[1] <= Top(v, a)
    BY <2>1 DEF FiledAt
  <2>. QED
    BY <2>1, <2>2, <2>3, <2>4
<1>9. ASSUME NEW over, over = a \/ Top(v, a) <= Top(t, a)
      PROVE  Bounds(v, lo, over)
  <2>1. ASSUME NEW x \in Nodes(v)
        PROVE  lo[x] \in Int /\ lo[x] >= -1 /\ lo[x] < Top(v, x)
    <3>1. x \in Nodes(t)
      BY <1>1, <2>1
    <3>. QED
      BY <1>1, <1>8, <3>1, GhostTypes
  <2>2. ASSUME NEW x \in Nodes(v), ~Leaf(v, x), NEW i \in 1 .. Len(Kids(v, x)), NEW c, c = Kids(v, x)[i]
        PROVE  /\ lo[x] <= LoAt(v, lo, x, i) /\ LoAt(v, lo, x, i) <= lo[c]
               /\ (c # over => Top(v, c) <= HiAt(v, x, i))
               /\ HiAt(v, x, i) <= Top(v, x)
               /\ (i = 1 => lo[c] = lo[x])
    <3>1. x \in Nodes(t) /\ ~Leaf(t, x) /\ x # a /\ Kids(v, x) = Kids(t, x) /\ Keys(v, x) = Keys(t, x) /\ Top(v, x) = Top(t, x)
      BY <1>1, <1>2, <2>2
    <3>2. LoAt(v, lo, x, i) = LoAt(t, lo, x, i) /\ HiAt(v, x, i) = HiAt(t, x, i)
      BY <3>1 DEF LoAt, HiAt
    <3>3. c \in Nodes(t) /\ c # 0
      <4>1. c \in Nodes(t)
        BY <2>2, <3>1, GhostTypes
      <4>2. Typed(t)
        BY DEF Good
      <4>. QED
        BY <4>1, <4>2, NodeFields
    <3>4. /\ lo[x] <= LoAt(t, lo, x, i) /\ LoAt(t, lo, x, i) <= lo[c]
          /\ Top(t, c) <= HiAt(t, x, i)
          /\ HiAt(t, x, i) <= Top(t, x)
          /\ (i = 1 => lo[c] = lo[x])
      BY <2>2, <3>1, <3>3 DEF Good, Bounds
    <3>5. c # over => Top(v, c) <= HiAt(v, x, i)
      <4>1. CASE c = a /\ Top(v, a) <= Top(t, a)
        <5>1. Top(v, a) \in Nat /\ Top(t, a) \in Nat /\ HiAt(t, x, i) \in Nat
          <6>1. HiAt(t, x, i) \in Nat
            BY <2>2, <3>1, BoundTypes
          <6>2. Top(t, a) \in Nat
            BY <1>1, NodeFields DEF Good
          <6>3. Top(v, a) \in Nat
            BY <1>1, NodeFields
          <6>. QED
            BY <6>1, <6>2, <6>3
        <5>. QED
          BY <3>2, <3>4, <4>1, <5>1
      <4>2. CASE c # a
        <5>1. Top(v, c) = Top(t, c)
          BY <1>1, <3>3, <4>2
        <5>. QED
          BY <3>2, <3>4, <5>1
      <4>. QED
        BY <1>9, <4>1, <4>2
    <3>. QED
      BY <3>1, <3>2, <3>4, <3>5
  <2>. QED
    BY <2>1, <2>2 DEF Bounds
<1>10. Good(v, lv, lo, nx, loose2, a)
  BY <1>1, <1>3, <1>4, <1>5, <1>6, <1>7, <1>9 DEF Good
<1>11. Top(v, a) <= Top(t, a) => Good(v, lv, lo, nx, loose2, 0)
  BY <1>1, <1>3, <1>4, <1>5, <1>6, <1>7, <1>9 DEF Good
<1>. QED
  BY <1>10, <1>11

(***************************************************************************)
(* Pages are changed, and no node.                                         *)
(***************************************************************************)
LEMMA PagesEdit ==
  ASSUME NEW t, NEW v, NEW lv, NEW lo, NEW nx, NEW loose, NEW over, NEW loose2,
         Good(t, lv, lo, nx, loose, over), Typed(v), v.node = t.node, v.root = t.root,
         \A x \in Nodes(t) : Leaf(t, x) => \A i \in 1 .. Len(Kids(t, x)) :
           /\ Kids(t, x)[i] \in DOMAIN v.page
           /\ \A k \in DOMAIN v.page[Kids(t, x)[i]] : LoAt(t, lo, x, i) < k /\ k <= Keys(t, x)[i],
         Placed(v, loose2)
  PROVE  Good(v, lv, lo, nx, loose2, over)
<1>1. /\ Nodes(v) = Nodes(t)
      /\ \A x : /\ Leaf(v, x) = Leaf(t, x) /\ Kids(v, x) = Kids(t, x) /\ Keys(v, x) = Keys(t, x)
                /\ Top(v, x) = Top(t, x) /\ Up(v, x) = Up(t, x)
      /\ \A x, i : LoAt(v, lo, x, i) = LoAt(t, lo, x, i) /\ HiAt(v, x, i) = HiAt(t, x, i)
  BY DEF Nodes, Leaf, Kids, Keys, Top, Up, LoAt, HiAt
<1>2. Arrays(v) /\ Parents(v) /\ Levels(v, lv)
  BY <1>1 DEF Good, Arrays, Parents, Levels
<1>3. Children(v, lv) /\ Bounds(v, lo, over) /\ Following(v, nx)
  <2>1. Children(t, lv) /\ Bounds(t, lo, over) /\ Following(t, nx)
    BY DEF Good
  <2>2. Children(v, lv)
    BY <1>1, <2>1, Zenon DEF Children
  <2>3. Bounds(v, lo, over)
    BY <1>1, <2>1 DEF Bounds
  <2>4. Following(v, nx)
    BY <1>1, <2>1, ZenonT(30) DEF Following
  <2>. QED
    BY <2>2, <2>3, <2>4
<1>4. Ordered(v, lv, lo, nx) /\ Linked(v, nx)
  <2>1. Ordered(t, lv, lo, nx) /\ Linked(t, nx)
    BY DEF Good
  <2>2. Ordered(v, lv, lo, nx)
    BY <1>1, <2>1, Zenon DEF Ordered
  <2>3. Linked(v, nx)
    BY <1>1, <2>1, Zenon DEF Linked
  <2>. QED
    BY <2>2, <2>3
<1>5. Filed(v, lo)
  <2>1. Filed(t, lo)
    BY DEF Good
  <2>. QED
    BY <1>1, <2>1 DEF Filed
<1>. QED
  BY <1>2, <1>3, <1>4, <1>5 DEF Good

\* The places of pages, when leaves and addresses of pages stay.
LEMMA PlacedSame ==
  ASSUME NEW t, NEW v, NEW loose, Placed(t, loose), Nodes(v) = Nodes(t), DOMAIN v.page = DOMAIN t.page,
         \A x \in Nodes(t) : Leaf(v, x) = Leaf(t, x) /\ Kids(v, x) = Kids(t, x)
  PROVE  Placed(v, loose)
BY DEF Placed

\* A page that is new is not filed.
LEMMA PlacedMore ==
  ASSUME NEW t, NEW v, NEW lo, NEW loose, NEW b, Placed(t, loose), Filed(t, lo), Nodes(v) = Nodes(t),
         b \notin DOMAIN t.page, DOMAIN v.page = DOMAIN t.page \union {b},
         \A x \in Nodes(t) : Leaf(v, x) = Leaf(t, x) /\ Kids(v, x) = Kids(t, x)
  PROVE  Placed(v, loose \union {b})
<1>1. \A x \in Nodes(t) : Leaf(t, x) => \A i \in 1 .. Len(Kids(t, x)) : Kids(t, x)[i] \in DOMAIN t.page
  BY DEF Filed
<1>2. ASSUME NEW pg \in DOMAIN v.page
      PROVE  (\E a \in Nodes(v) : Leaf(v, a) /\ \E i \in 1 .. Len(Kids(v, a)) : Kids(v, a)[i] = pg)
               <=> pg \notin loose \union {b}
  <2>1. CASE pg = b
    BY <1>1, <2>1
  <2>2. CASE pg # b
    <3>1. pg \in DOMAIN t.page
      BY <2>2
    <3>. QED
      BY <2>2, <3>1 DEF Placed
  <2>. QED
    BY <2>1, <2>2
<1>. QED
  BY <1>2 DEF Placed

(***************************************************************************)
(* The root.                                                               *)
(***************************************************************************)
\* No node's largest key is above the root's.
LEMMA TopsBelowRoot ==
  ASSUME NEW t, NEW lv, NEW lo, NEW nx, NEW loose, Good(t, lv, lo, nx, loose, 0), NEW a \in Nodes(t)
  PROVE  Top(t, a) <= Top(t, t.root)
<1> DEFINE h == lv[t.root]
           T == {n \in 0 .. h : \A x \in Nodes(t) : lv[x] = h - n => Top(t, x) <= Top(t, t.root)}
<1>1. Typed(t) /\ Arrays(t) /\ Parents(t) /\ Levels(t, lv) /\ Children(t, lv) /\ Bounds(t, lo, 0) /\ t.root \in Nodes(t)
  BY DEF Good, Typed
<1>2. h \in Nat /\ \A x \in Nodes(t) : lv[x] <= h /\ lv[x] \in Nat
  BY <1>1, Height DEF Levels
<1>3. ASSUME NEW x \in Nodes(t), x # t.root
      PROVE  lv[Up(t, x)] = lv[x] + 1 /\ Up(t, x) \in Nodes(t) /\ Top(t, x) <= Top(t, Up(t, x))
  <2> DEFINE p == Up(t, x)
             i == Position(Kids(t, p), x)
  <2>1. p \in Nodes(t) /\ ~Leaf(t, p) /\ lv[p] = lv[x] + 1 /\ i \in 1 .. Len(Kids(t, p)) /\ Kids(t, p)[i] = x
    BY <1>1, <1>3, ParentOf
  <2>. HIDE DEF p, i
  <2>2. x # 0
    BY <1>1, NodeFields
  <2>3. Top(t, x) <= HiAt(t, p, i) /\ HiAt(t, p, i) <= Top(t, p)
    BY <1>1, <2>1, <2>2 DEF Bounds
  <2>4. HiAt(t, p, i) \in Nat
    BY <2>1, BoundTypes
  <2>5. Top(t, x) \in Nat /\ Top(t, p) \in Nat
    BY <1>1, <2>1, NodeFields
  <2>6. Top(t, x) <= Top(t, p)
    BY <2>3, <2>4, <2>5
  <2>. QED
    BY <2>1, <2>6 DEF p
<1>4. Top(t, t.root) \in Nat
  BY <1>1, NodeFields
<1>5. \A x \in Nodes(t) : lv[x] = h => x = t.root
  <2>1. ASSUME NEW x \in Nodes(t), lv[x] = h, x # t.root PROVE FALSE
    BY <1>2, <1>3, <2>1
  <2>. QED
    BY <2>1
<1>6. 0 \in T
  BY <1>2, <1>4, <1>5
<1>7. ASSUME NEW n \in 1 .. h, n - 1 \in T PROVE n \in T
  <2>1. ASSUME NEW x \in Nodes(t), lv[x] = h - n PROVE Top(t, x) <= Top(t, t.root)
    <3>1. x # t.root
      BY <1>2, <2>1
    <3>2. lv[Up(t, x)] = h - (n - 1) /\ Up(t, x) \in Nodes(t) /\ Top(t, x) <= Top(t, Up(t, x))
      BY <1>2, <1>3, <2>1, <3>1
    <3>3. Top(t, Up(t, x)) <= Top(t, t.root)
      BY <1>7, <3>2
    <3>4. Top(t, x) \in Nat /\ Top(t, Up(t, x)) \in Nat
      BY <1>1, <3>2, NodeFields
    <3>. QED
      BY <1>4, <3>2, <3>3, <3>4
  <2>. QED
    BY <1>2, <2>1
<1>8. 0 .. h \subseteq T
  <2>. HIDE DEF T
  <2>. QED
    BY <1>2, <1>6, <1>7, CountingUpTo
<1>9. h - lv[a] \in 0 .. h /\ lv[a] = h - (h - lv[a])
  BY <1>2
<1>. QED
  BY <1>8, <1>9

\* So what addPage does to the root's changes nothing.
LEMMA RootMaxIs ==
  ASSUME NEW t, NEW lv, NEW lo, NEW nx, NEW loose, Good(t, lv, lo, nx, loose, 0), NEW a \in Nodes(t),
         NEW k \in Nat, k <= Top(t, a)
  PROVE  RaiseRootMax(t, k) = t
<1>1. Top(t, a) <= Top(t, t.root)
  BY TopsBelowRoot
<1>2. Typed(t) /\ t.root \in Nodes(t)
  BY DEF Good, Typed
<1>3. Top(t, a) \in Nat /\ Top(t, t.root) \in Nat
  BY <1>2, NodeFields
<1>4. ~(k > Top(t, t.root))
  BY <1>1, <1>3
<1>. QED
  BY <1>4 DEF RaiseRootMax, Top

\* A node from its fields.
LEMMA MadeNode ==
  ASSUME NEW l \in BOOLEAN, NEW c \in Seq(Nat \ {0}), NEW q \in Seq(Key), NEW m \in Key,
         NEW p \in Nat, NEW x \in Nat, NEW y \in Nat
  PROVE  [leaf |-> l, kids |-> c, keys |-> q, max |-> m, parent |-> p, prev |-> x, next |-> y] \in NodeType
BY DEF NodeType

LEMMA Reparented ==
  ASSUME NEW n \in NodeType, NEW p \in Nat
  PROVE  /\ [n EXCEPT !.parent = p] \in NodeType
         /\ [n EXCEPT !.parent = p].leaf = n.leaf /\ [n EXCEPT !.parent = p].kids = n.kids
         /\ [n EXCEPT !.parent = p].max = n.max /\ [n EXCEPT !.parent = p].parent = p
         /\ [n EXCEPT !.parent = p].prev = n.prev /\ [n EXCEPT !.parent = p].next = n.next
         /\ [n EXCEPT !.parent = p].keys = n.keys
BY DEF NodeType

LEMMA Relinked ==
  ASSUME NEW n \in NodeType, NEW p \in Nat
  PROVE  /\ [n EXCEPT !.prev = p] \in NodeType
         /\ [n EXCEPT !.prev = p].leaf = n.leaf /\ [n EXCEPT !.prev = p].kids = n.kids
         /\ [n EXCEPT !.prev = p].max = n.max /\ [n EXCEPT !.prev = p].parent = n.parent
         /\ [n EXCEPT !.prev = p].prev = p /\ [n EXCEPT !.prev = p].next = n.next
         /\ [n EXCEPT !.prev = p].keys = n.keys
BY DEF NodeType

\* A tree from its parts.
LEMMA MadeTree ==
  ASSUME NEW v, Formed(v), IsMap(v.node), IsMap(v.page), v.root \in Nodes(v),
         \A x \in Nodes(v) : v.node[x] \in NodeType,
         IsFiniteSet(Nodes(v)), Nodes(v) \subseteq Nat \ {0},
         IsFiniteSet(DOMAIN v.page), DOMAIN v.page \subseteq Nat \ {0},
         \A pg \in DOMAIN v.page : PageType(v.page[pg])
  PROVE  Typed(v)
<1>1. v.node \in [Nodes(v) -> NodeType]
  <2>1. v.node = [x \in Nodes(v) |-> v.node[x]]
    BY Zenon DEF IsMap, Nodes
  <2>. QED
    BY <2>1
<1>2. v.page = [pg \in DOMAIN v.page |-> v.page[pg]]
  BY Zenon DEF IsMap
<1>. QED
  BY <1>1, <1>2, Zenon DEF Typed

LEMMA TypedParts ==
  ASSUME NEW v, Typed(v)
  PROVE  /\ Formed(v) /\ IsMap(v.node) /\ IsMap(v.page) /\ v.root \in Nodes(v)
         /\ \A x \in Nodes(v) : v.node[x] \in NodeType
         /\ IsFiniteSet(Nodes(v)) /\ Nodes(v) \subseteq Nat \ {0} /\ Nodes(v) \subseteq Nat
         /\ IsFiniteSet(DOMAIN v.page) /\ DOMAIN v.page \subseteq Nat \ {0} /\ DOMAIN v.page \subseteq Nat
         /\ \A pg \in DOMAIN v.page : PageType(v.page[pg])
<1>1. /\ Formed(v) /\ v.node \in [Nodes(v) -> NodeType]
      /\ v.page = [pg \in DOMAIN v.page |-> v.page[pg]] /\ v.root \in Nodes(v)
      /\ IsFiniteSet(Nodes(v)) /\ Nodes(v) \subseteq Nat \ {0}
      /\ IsFiniteSet(DOMAIN v.page) /\ DOMAIN v.page \subseteq Nat \ {0}
      /\ \A pg \in DOMAIN v.page : PageType(v.page[pg])
  BY Zenon DEF Typed
<1>2. IsMap(v.node)
  <2>1. v.node = [x \in Nodes(v) |-> v.node[x]]
    BY <1>1
  <2>. QED
    BY <2>1, Zenon DEF IsMap, Nodes
<1>3. IsMap(v.page)
  BY <1>1, Zenon DEF IsMap
<1>4. Nodes(v) \subseteq Nat /\ DOMAIN v.page \subseteq Nat
  BY <1>1
<1>. QED
  BY <1>1, <1>2, <1>3, <1>4

\* In v the root of t, at a, has a parent at r.
RootedAbove(t, v, a, r) ==
  /\ Typed(v) /\ Nodes(v) = Nodes(t) \union {r} /\ r \notin Nodes(t) /\ v.root = r /\ v.page = t.page
  /\ r \in Nat \ {0} /\ a \in Nodes(t) /\ a # r
  /\ Leaf(v, r) = FALSE /\ Kids(v, r) = <<a>> /\ Keys(v, r) = <<>> /\ Top(v, r) = Top(t, a)
  /\ Up(v, r) = 0 /\ v.node[r].prev = 0 /\ v.node[r].next = 0
  /\ \A x \in Nodes(t) : /\ Leaf(v, x) = Leaf(t, x) /\ Kids(v, x) = Kids(t, x)
                         /\ Keys(v, x) = Keys(t, x) /\ Top(v, x) = Top(t, x)
                         /\ Up(v, x) = (IF x = a THEN r ELSE Up(t, x))
                         /\ v.node[x].prev = t.node[x].prev /\ v.node[x].next = t.node[x].next

\* A root is put above the root.
LEMMA NewRootFacts ==
  ASSUME NEW t, Typed(t), NEW a, a = t.root, NEW r, r = FreeAddress(DOMAIN t.node)
  PROVE  RootedAbove(t, NewRoot(t, t.node[a], a), a, r)
<1> DEFINE n == [t.node[a] EXCEPT !.parent = r]
           m == [leaf |-> FALSE, kids |-> <<a>>, keys |-> <<>>, max |-> t.node[a].max,
                 parent |-> 0, prev |-> 0, next |-> 0]
           s == MarkNode(t, a, n)
           u == MarkNode(s, r, m)
           v == NewRoot(t, t.node[a], a)
<1>1. /\ Formed(t) /\ IsMap(t.page) /\ a \in Nodes(t) /\ \A x \in Nodes(t) : t.node[x] \in NodeType
      /\ IsFiniteSet(Nodes(t)) /\ Nodes(t) \subseteq Nat \ {0} /\ Nodes(t) \subseteq Nat
      /\ IsFiniteSet(DOMAIN t.page) /\ DOMAIN t.page \subseteq Nat \ {0}
      /\ \A pg \in DOMAIN t.page : PageType(t.page[pg])
  BY TypedParts
<1>2. r \in Nat \ {0} /\ r \notin Nodes(t) /\ a # r
  BY <1>1, FreeAddressIs DEF Nodes
<1>3. v = [u EXCEPT !.root = r]
  <2>1. NewRoot(t, t.node[a], a) = [u EXCEPT !.root = r]
    BY Zenon DEF NewRoot
  <2>. QED
    BY <2>1
<1>4. n \in NodeType /\ n.leaf = Leaf(t, a) /\ n.kids = Kids(t, a) /\ n.keys = Keys(t, a) /\ n.max = Top(t, a)
      /\ n.parent = r /\ n.prev = t.node[a].prev /\ n.next = t.node[a].next
  <2>1. t.node[a] \in NodeType /\ r \in Nat
    BY <1>1, <1>2
  <2>. QED
    BY <2>1, Reparented DEF Leaf, Kids, Keys, Top
<1>5. m \in NodeType
  <2>1. t.node[a].max \in Key
    BY <1>1, NodeFields DEF Top
  <2>2. a \in Nat \ {0}
    BY <1>1
  <2>3. <<a>> \in Seq(Nat \ {0}) /\ <<>> \in Seq(Key)
    BY <2>2
  <2>. QED
    BY <2>1, <2>3, MadeNode
<1>6. m.leaf = FALSE /\ m.kids = <<a>> /\ m.keys = <<>> /\ m.max = Top(t, a) /\ m.parent = 0 /\ m.prev = 0 /\ m.next = 0
  BY DEF Top
<1>. HIDE DEF n, m, v, u
<1>7. /\ Formed(s) /\ s.root = t.root /\ s.page = t.page
      /\ IsMap(s.node) /\ Nodes(s) = Nodes(t)
      /\ s.node[a] = n /\ \A x \in Nodes(t) : x # a => s.node[x] = t.node[x]
  <2>1. /\ Formed(s) /\ s.root = t.root /\ s.page = t.page
        /\ IsMap(s.node) /\ DOMAIN s.node = DOMAIN t.node \union {a}
        /\ s.node[a] = n /\ \A x \in DOMAIN t.node : x # a => s.node[x] = t.node[x]
    BY <1>1, Marked
  <2>. HIDE DEF s
  <2>. QED
    BY <1>1, <2>1 DEF Nodes
<1>. HIDE DEF s
<1>8. /\ Formed(u) /\ u.page = t.page
      /\ IsMap(u.node) /\ Nodes(u) = Nodes(t) \union {r}
      /\ u.node[r] = m /\ \A x \in Nodes(t) : x # r => u.node[x] = s.node[x]
  <2>1. /\ Formed(u) /\ u.root = s.root /\ u.page = s.page
        /\ IsMap(u.node) /\ DOMAIN u.node = DOMAIN s.node \union {r}
        /\ u.node[r] = m /\ \A x \in DOMAIN s.node : x # r => u.node[x] = s.node[x]
    BY <1>7, Marked DEF u
  <2>. QED
    BY <1>7, <2>1 DEF Nodes
<1>9. Formed(v) /\ v.page = t.page /\ v.node = u.node /\ v.root = r
  <2>1. u = [root |-> u.root, node |-> u.node, page |-> u.page]
    BY <1>8 DEF Formed
  <2>2. [u EXCEPT !.root = r] = [root |-> r, node |-> u.node, page |-> u.page]
    BY <2>1
  <2>. QED
    BY <1>3, <1>8, <2>2 DEF Formed
<1>. HIDE DEF v
<1>10. Nodes(v) = Nodes(t) \union {r} /\ IsMap(v.node)
  BY <1>8, <1>9 DEF Nodes
<1>11. v.node[r] = m /\ v.node[a] = n /\ \A x \in Nodes(t) : x # a => v.node[x] = t.node[x]
  BY <1>1, <1>2, <1>7, <1>8, <1>9
<1>12. Typed(v)
  <2>1. \A x \in Nodes(v) : v.node[x] \in NodeType
    BY <1>1, <1>4, <1>5, <1>10, <1>11
  <2>2. IsFiniteSet(Nodes(v))
    BY <1>1, <1>10, FS_AddElement
  <2>3. v.root \in Nodes(v) /\ Nodes(v) \subseteq Nat \ {0}
    BY <1>1, <1>2, <1>9, <1>10
  <2>. QED
    BY <1>1, <1>9, <1>10, <2>1, <2>2, <2>3, MadeTree
<1>13. /\ Leaf(v, r) = FALSE /\ Kids(v, r) = <<a>> /\ Keys(v, r) = <<>> /\ Top(v, r) = Top(t, a)
       /\ Up(v, r) = 0 /\ v.node[r].prev = 0 /\ v.node[r].next = 0
  BY <1>6, <1>11 DEF Leaf, Kids, Keys, Top, Up
<1>14. ASSUME NEW x \in Nodes(t)
       PROVE  /\ Leaf(v, x) = Leaf(t, x) /\ Kids(v, x) = Kids(t, x)
              /\ Keys(v, x) = Keys(t, x) /\ Top(v, x) = Top(t, x)
              /\ Up(v, x) = (IF x = a THEN r ELSE Up(t, x))
              /\ v.node[x].prev = t.node[x].prev /\ v.node[x].next = t.node[x].next
  <2>1. CASE x = a
    BY <1>4, <1>11, <2>1 DEF Leaf, Kids, Keys, Top, Up
  <2>2. CASE x # a
    BY <1>11, <2>2 DEF Leaf, Kids, Keys, Top, Up
  <2>. QED
    BY <2>1, <2>2
<1>15. v.root = r /\ v.page = t.page
  BY <1>9
<1>. QED
  BY <1>1, <1>2, <1>10, <1>12, <1>13, <1>14, <1>15 DEF v, RootedAbove

LEMMA NewRootKeeps ==
  ASSUME NEW t, NEW lv, NEW lo, NEW nx, NEW loose, NEW lv2, NEW lo2, NEW nx2, NEW a, NEW r,
         Good(t, lv, lo, nx, loose, 0), a = t.root, r = FreeAddress(DOMAIN t.node),
         \A x \in Nodes(t) : lv2[x] = lv[x] /\ lo2[x] = lo[x] /\ nx2[x] = nx[x],
         lv2[r] = lv[a] + 1, lo2[r] = lo[a], nx2[r] = 0
  PROVE  Good(NewRoot(t, t.node[a], a), lv2, lo2, nx2, loose, 0)
<1> DEFINE v == NewRoot(t, t.node[a], a)
<1>1. Typed(t)
  BY DEF Good
<1>2. /\ Typed(v) /\ Nodes(v) = Nodes(t) \union {r} /\ r \notin Nodes(t) /\ v.root = r /\ v.page = t.page
      /\ r \in Nat \ {0} /\ a \in Nodes(t) /\ a # r
      /\ Leaf(v, r) = FALSE /\ Kids(v, r) = <<a>> /\ Keys(v, r) = <<>> /\ Top(v, r) = Top(t, a)
      /\ Up(v, r) = 0 /\ v.node[r].prev = 0 /\ v.node[r].next = 0
      /\ \A x \in Nodes(t) : /\ Leaf(v, x) = Leaf(t, x) /\ Kids(v, x) = Kids(t, x)
                             /\ Keys(v, x) = Keys(t, x) /\ Top(v, x) = Top(t, x)
                             /\ Up(v, x) = (IF x = a THEN r ELSE Up(t, x))
                             /\ v.node[x].prev = t.node[x].prev /\ v.node[x].next = t.node[x].next
  <2>1. RootedAbove(t, v, a, r)
    BY <1>1, NewRootFacts
  <2>. HIDE DEF v
  <2>. QED
    BY <2>1, Zenon DEF RootedAbove
<1>. HIDE DEF v
<1>3. Len(Kids(v, r)) = 1 /\ Kids(v, r)[1] = a /\ Len(Keys(v, r)) = 0
  BY <1>2
<1>4. lv[a] \in Nat /\ lo[a] \in Int /\ lo[a] >= -1 /\ lo[a] < Top(t, a) /\ Top(t, a) \in Nat /\ nx[a] = 0
      /\ Up(t, a) = 0
  <2>1. lv[a] \in Nat /\ lo[a] \in Int /\ lo[a] >= -1 /\ lo[a] < Top(t, a)
    BY <1>2, GhostTypes
  <2>2. Top(t, a) \in Nat
    BY <1>1, <1>2, NodeFields
  <2>3. nx[a] = 0 /\ Up(t, a) = 0
    BY DEF Good, Ordered, Parents
  <2>. QED
    BY <2>1, <2>2, <2>3
<1>5. Arrays(v)
  <2>1. ASSUME NEW x \in Nodes(v)
        PROVE  /\ Len(Kids(v, x)) >= 1
               /\ Len(Keys(v, x)) = (IF Leaf(v, x) THEN Len(Kids(v, x)) ELSE Len(Kids(v, x)) - 1)
               /\ \A i, j \in 1 .. Len(Kids(v, x)) : Kids(v, x)[i] = Kids(v, x)[j] => i = j
    <3>1. CASE x = r
      <4>1. Len(Kids(v, x)) = 1 /\ Len(Keys(v, x)) = 0 /\ Leaf(v, x) = FALSE
        BY <1>2, <1>3, <3>1
      <4>. QED
        BY <4>1
    <3>2. CASE x # r
      <4>1. x \in Nodes(t) /\ Leaf(v, x) = Leaf(t, x) /\ Kids(v, x) = Kids(t, x) /\ Keys(v, x) = Keys(t, x)
        BY <1>2, <2>1, <3>2
      <4>2. Arrays(t)
        BY DEF Good
      <4>. QED
        BY <4>1, <4>2 DEF Arrays
    <3>. QED
      BY <3>1, <3>2
  <2>. QED
    BY <2>1 DEF Arrays
<1>6. Parents(v)
  <2>1. ASSUME NEW x \in Nodes(v) \ {v.root}
        PROVE  /\ Up(v, x) \in Nodes(v) /\ ~Leaf(v, Up(v, x))
               /\ \E i \in 1 .. Len(Kids(v, Up(v, x))) : Kids(v, Up(v, x))[i] = x
    <3>1. CASE x = a
      <4>1. Up(v, x) = r /\ 1 \in 1 .. Len(Kids(v, r))
        BY <1>2, <1>3, <3>1
      <4>. QED
        BY <1>2, <1>3, <3>1, <4>1
    <3>2. CASE x # a
      <4>1. x \in Nodes(t) /\ Up(v, x) = Up(t, x) /\ x # t.root
        BY <1>2, <2>1, <3>2
      <4>2. /\ Up(t, x) \in Nodes(t) /\ ~Leaf(t, Up(t, x))
            /\ \E i \in 1 .. Len(Kids(t, Up(t, x))) : Kids(t, Up(t, x))[i] = x
        BY <4>1 DEF Good, Parents
      <4>3. Leaf(v, Up(t, x)) = Leaf(t, Up(t, x)) /\ Kids(v, Up(t, x)) = Kids(t, Up(t, x))
        BY <1>2, <4>2
      <4>. QED
        BY <1>2, <4>1, <4>2, <4>3
    <3>. QED
      BY <3>1, <3>2
  <2>. QED
    BY <1>2, <2>1 DEF Parents
<1>7. Levels(v, lv2)
  <2>1. Levels(t, lv)
    BY DEF Good
  <2>2. ASSUME NEW x \in Nodes(v) PROVE lv2[x] \in Nat /\ (Leaf(v, x) <=> lv2[x] = 0)
    <3>1. CASE x = r
      BY <1>2, <1>4, <3>1
    <3>2. CASE x # r
      BY <1>2, <2>1, <2>2, <3>2 DEF Levels
    <3>. QED
      BY <3>1, <3>2
  <2>. QED
    BY <2>2 DEF Levels
<1>8. Children(v, lv2)
  <2>1. ASSUME NEW x \in Nodes(v), ~Leaf(v, x), NEW i \in 1 .. Len(Kids(v, x)), NEW c, c = Kids(v, x)[i]
        PROVE  c \in Nodes(v) /\ Up(v, c) = x /\ lv2[x] = lv2[c] + 1
    <3>1. CASE x = r
      <4>1. c = a
        BY <1>3, <2>1, <3>1
      <4>. QED
        BY <1>2, <3>1, <4>1
    <3>2. CASE x # r
      <4>1. x \in Nodes(t) /\ ~Leaf(t, x) /\ Kids(v, x) = Kids(t, x)
        BY <1>2, <2>1, <3>2
      <4>2. c \in Nodes(t) /\ Up(t, c) = x /\ lv[x] = lv[c] + 1
        BY <2>1, <4>1 DEF Good, Children
      <4>3. c # a
        <5>1. Typed(t) /\ Parents(t) /\ Children(t, lv)
          BY DEF Good
        <5>. QED
          BY <2>1, <4>1, <5>1, RootIsNoChild
      <4>. QED
        BY <1>2, <4>1, <4>2, <4>3
    <3>. QED
      BY <3>1, <3>2
  <2>. QED
    BY <2>1 DEF Children
<1>9. Bounds(v, lo2, 0)
  <2>1. ASSUME NEW x \in Nodes(v) PROVE lo2[x] \in Int /\ lo2[x] >= -1 /\ lo2[x] < Top(v, x)
    <3>1. CASE x = r
      BY <1>2, <1>4, <3>1
    <3>2. CASE x # r
      <4>1. x \in Nodes(t)
        BY <1>2, <2>1, <3>2
      <4>2. lo[x] \in Int /\ lo[x] >= -1 /\ lo[x] < Top(t, x)
        BY <4>1, GhostTypes
      <4>. QED
        BY <1>2, <4>1, <4>2
    <3>. QED
      BY <3>1, <3>2
  <2>2. ASSUME NEW x \in Nodes(v), ~Leaf(v, x), NEW i \in 1 .. Len(Kids(v, x)), NEW c, c = Kids(v, x)[i]
        PROVE  /\ lo2[x] <= LoAt(v, lo2, x, i) /\ LoAt(v, lo2, x, i) <= lo2[c]
               /\ (c # 0 => Top(v, c) <= HiAt(v, x, i))
               /\ HiAt(v, x, i) <= Top(v, x)
               /\ (i = 1 => lo2[c] = lo2[x])
    <3>1. CASE x = r
      <4>1. i = 1 /\ c = a
        BY <1>3, <2>2, <3>1
      <4>2. LoAt(v, lo2, x, i) = lo2[r]
        BY <3>1, <4>1 DEF LoAt
      <4>3. HiAt(v, x, i) = Top(t, a)
        BY <1>2, <1>3, <3>1, <4>1 DEF HiAt
      <4>4. lo2[x] = lo[a] /\ lo2[c] = lo[a] /\ Top(v, c) = Top(t, a) /\ Top(v, x) = Top(t, a) /\ lo2[r] = lo[a]
        BY <1>2, <3>1, <4>1
      <4>. QED
        BY <1>4, <4>2, <4>3, <4>4
    <3>2. CASE x # r
      <4>1. x \in Nodes(t) /\ ~Leaf(t, x) /\ Kids(v, x) = Kids(t, x) /\ Keys(v, x) = Keys(t, x) /\ Top(v, x) = Top(t, x)
        BY <1>2, <2>2, <3>2
      <4>2. c \in Nodes(t)
        BY <2>2, <4>1, GhostTypes
      <4>3. LoAt(v, lo2, x, i) = LoAt(t, lo, x, i) /\ HiAt(v, x, i) = HiAt(t, x, i)
        BY <4>1 DEF LoAt, HiAt
      <4>4. /\ lo[x] <= LoAt(t, lo, x, i) /\ LoAt(t, lo, x, i) <= lo[c]
            /\ (c # 0 => Top(t, c) <= HiAt(t, x, i))
            /\ HiAt(t, x, i) <= Top(t, x)
            /\ (i = 1 => lo[c] = lo[x])
        BY <2>2, <4>1 DEF Good, Bounds
      <4>5. Top(v, c) = Top(t, c) /\ lo2[c] = lo[c] /\ lo2[x] = lo[x]
        BY <1>2, <4>1, <4>2
      <4>. QED
        BY <4>1, <4>3, <4>4, <4>5
    <3>. QED
      BY <3>1, <3>2
  <2>. QED
    BY <2>1, <2>2 DEF Bounds
<1>10. Filed(v, lo2)
  <2>1. ASSUME NEW x \in Nodes(v), Leaf(v, x), NEW i \in 1 .. Len(Kids(v, x)), NEW pg, pg = Kids(v, x)[i]
        PROVE  /\ pg \in DOMAIN v.page
               /\ LoAt(v, lo2, x, i) < Keys(v, x)[i] /\ Keys(v, x)[i] <= Top(v, x)
               /\ \A k \in DOMAIN v.page[pg] : LoAt(v, lo2, x, i) < k /\ k <= Keys(v, x)[i]
    <3>1. x \in Nodes(t) /\ Leaf(t, x) /\ Kids(v, x) = Kids(t, x) /\ Keys(v, x) = Keys(t, x) /\ Top(v, x) = Top(t, x)
      BY <1>2, <2>1
    <3>2. LoAt(v, lo2, x, i) = LoAt(t, lo, x, i)
      BY <3>1 DEF LoAt
    <3>3. /\ pg \in DOMAIN t.page
          /\ LoAt(t, lo, x, i) < Keys(t, x)[i] /\ Keys(t, x)[i] <= Top(t, x)
          /\ \A k \in DOMAIN t.page[pg] : LoAt(t, lo, x, i) < k /\ k <= Keys(t, x)[i]
      BY <2>1, <3>1 DEF Good, Filed
    <3>. QED
      BY <1>2, <3>1, <3>2, <3>3
  <2>. QED
    BY <2>1 DEF Filed
<1>11. Following(v, nx2)
  <2>1. ASSUME NEW x \in Nodes(v), ~Leaf(v, x), NEW i \in 1 .. Len(Kids(v, x))
        PROVE  nx2[Kids(v, x)[i]] = IF i < Len(Kids(v, x)) THEN Kids(v, x)[i + 1]
                                    ELSE IF nx2[x] = 0 THEN 0 ELSE Kids(v, nx2[x])[1]
    <3>1. CASE x = r
      <4>1. i = 1 /\ ~(i < Len(Kids(v, x))) /\ Kids(v, x)[i] = a
        BY <1>3, <2>1, <3>1
      <4>. QED
        BY <1>2, <1>4, <3>1, <4>1
    <3>2. CASE x # r
      <4>1. x \in Nodes(t) /\ ~Leaf(t, x) /\ Kids(v, x) = Kids(t, x) /\ nx2[x] = nx[x]
        BY <1>2, <2>1, <3>2
      <4>2. Kids(t, x)[i] \in Nodes(t)
        BY <2>1, <4>1, GhostTypes
      <4>3. nx[x] # 0 => Kids(v, nx[x]) = Kids(t, nx[x])
        BY <1>2, <4>1, GhostTypes
      <4>4. nx[Kids(t, x)[i]] = IF i < Len(Kids(t, x)) THEN Kids(t, x)[i + 1]
                                ELSE IF nx[x] = 0 THEN 0 ELSE Kids(t, nx[x])[1]
        BY <2>1, <4>1 DEF Good, Following
      <4>5. nx2[Kids(t, x)[i]] = nx[Kids(t, x)[i]]
        BY <4>2
      <4>. QED
        BY <4>1, <4>3, <4>4, <4>5
    <3>. QED
      BY <3>1, <3>2
  <2>. QED
    BY <2>1 DEF Following
<1>12. Ordered(v, lv2, lo2, nx2)
  <2>1. ASSUME NEW x \in Nodes(v), nx2[x] # 0
        PROVE  /\ nx2[x] \in Nodes(v) /\ lv2[nx2[x]] = lv2[x] /\ Top(v, x) <= lo2[nx2[x]]
               /\ \A y \in Nodes(v) : nx2[y] = nx2[x] => y = x
    <3>1. x \in Nodes(t) /\ nx2[x] = nx[x] /\ nx[x] # 0
      BY <1>2, <2>1
    <3>2. /\ nx[x] \in Nodes(t) /\ lv[nx[x]] = lv[x] /\ Top(t, x) <= lo[nx[x]]
          /\ \A y \in Nodes(t) : nx[y] = nx[x] => y = x
      BY <3>1 DEF Good, Ordered
    <3>3. \A y \in Nodes(v) : nx2[y] = nx2[x] => y \in Nodes(t) /\ nx[y] = nx[x]
      BY <1>2, <2>1, <3>1
    <3>. QED
      BY <1>2, <3>1, <3>2, <3>3
  <2>2. nx2[v.root] = 0
    BY <1>2
  <2>. QED
    BY <2>1, <2>2 DEF Ordered
<1>13. Linked(v, nx2)
  <2>1. ASSUME NEW x \in Nodes(v)
        PROVE  IF v.node[x].leaf
               THEN /\ v.node[x].next = nx2[x]
                    /\ nx2[x] # 0 => v.node[nx2[x]].prev = x
                    /\ v.node[x].prev # 0 => v.node[x].prev \in Nodes(v) /\ nx2[v.node[x].prev] = x
               ELSE v.node[x].next = 0 /\ v.node[x].prev = 0
    <3>1. CASE x = r
      BY <1>2, <3>1 DEF Leaf
    <3>2. CASE x # r
      <4>1. x \in Nodes(t) /\ v.node[x].leaf = t.node[x].leaf /\ nx2[x] = nx[x]
            /\ v.node[x].next = t.node[x].next /\ v.node[x].prev = t.node[x].prev
        BY <1>2, <2>1, <3>2 DEF Leaf
      <4>2. nx[x] # 0 => v.node[nx[x]].prev = t.node[nx[x]].prev
        BY <1>2, <4>1, GhostTypes
      <4>3. IF t.node[x].leaf
            THEN /\ t.node[x].next = nx[x]
                 /\ nx[x] # 0 => t.node[nx[x]].prev = x
                 /\ t.node[x].prev # 0 => t.node[x].prev \in Nodes(t) /\ nx[t.node[x].prev] = x
            ELSE t.node[x].next = 0 /\ t.node[x].prev = 0
        BY <4>1 DEF Good, Linked
      <4>. QED
        BY <1>2, <4>1, <4>2, <4>3
    <3>. QED
      BY <3>1, <3>2
  <2>. QED
    BY <2>1 DEF Linked
<1>14. Placed(v, loose)
  <2>1. Placed(t, loose)
    BY DEF Good
  <2>2. \A x \in Nodes(v) : Leaf(v, x) => x \in Nodes(t) /\ Leaf(t, x) /\ Kids(v, x) = Kids(t, x)
    BY <1>2
  <2>3. \A x \in Nodes(t) : Leaf(t, x) => x \in Nodes(v) /\ Leaf(v, x) /\ Kids(v, x) = Kids(t, x)
    BY <1>2
  <2>. QED
    BY <1>2, <2>1, <2>2, <2>3 DEF Placed
<1>15. Good(v, lv2, lo2, nx2, loose, 0)
  BY <1>2, <1>5, <1>6, <1>7, <1>8, <1>9, <1>10, <1>11, <1>12, <1>13, <1>14 DEF Good
<1>. QED
  BY <1>15 DEF v

\* The tree t is z with n at a: rebalancing has n in hand and not stored.
Pending(z, t, a, n) ==
  /\ a \in Nodes(t) /\ Formed(z) /\ z.root = t.root /\ z.page = t.page /\ Nodes(z) = Nodes(t)
  /\ \A x \in Nodes(t) : x # a => z.node[x] = t.node[x]
  /\ t.node[a] = n

\* In v the root of t is gone, and its child at c is the root.
RootedBelow(t, v, c) ==
  /\ Typed(v) /\ Nodes(v) = Nodes(t) \ {t.root} /\ c \in Nodes(v) /\ v.root = c /\ v.page = t.page
  /\ c \in Nodes(t) /\ c # t.root /\ t.root \in Nodes(t)
  /\ \A x \in Nodes(v) : /\ x \in Nodes(t) /\ x # t.root
                         /\ Leaf(v, x) = Leaf(t, x) /\ Kids(v, x) = Kids(t, x)
                         /\ Keys(v, x) = Keys(t, x) /\ Top(v, x) = Top(t, x)
                         /\ Up(v, x) = (IF x = c THEN 0 ELSE Up(t, x))
                         /\ v.node[x].prev = t.node[x].prev /\ v.node[x].next = t.node[x].next

\* In v the node at c has its parent at a.
Moved(u, v, c, a) ==
  /\ Formed(v) /\ v.root = u.root /\ v.page = u.page
  /\ IsMap(v.node) /\ DOMAIN v.node = DOMAIN u.node
  /\ \A x \in DOMAIN u.node :
       v.node[x] = IF x \in {c} THEN [u.node[x] EXCEPT !.parent = a] ELSE u.node[x]

LEMMA AdoptedOne ==
  ASSUME NEW u, Formed(u), NEW c, NEW a
  PROVE  Moved(u, Adopt(u, {c}, a), c, a)
BY Adopted DEF Moved

\* A root with one child gives way to it.
LEMMA CollapseFacts ==
  ASSUME NEW z, NEW t, NEW r, NEW n, NEW c, Typed(t), r = t.root, Pending(z, t, r, n), Len(n.kids) >= 1,
         c = n.kids[1], c \in Nodes(t), c # r
  PROVE  RootedBelow(t, CollapseRoot(z, n), c)
<1> DEFINE u == DeleteNode(z, z.root)
           y == Adopt(u, {c}, 0)
           v == CollapseRoot(z, n)
<1>1. /\ Formed(t) /\ IsMap(t.page) /\ \A x \in Nodes(t) : t.node[x] \in NodeType
      /\ IsFiniteSet(Nodes(t)) /\ Nodes(t) \subseteq Nat \ {0}
      /\ IsFiniteSet(DOMAIN t.page) /\ DOMAIN t.page \subseteq Nat \ {0}
      /\ \A pg \in DOMAIN t.page : PageType(t.page[pg])
  BY TypedParts
<1>2. /\ r \in Nodes(t) /\ Formed(z) /\ z.root = t.root /\ z.page = t.page /\ Nodes(z) = Nodes(t)
      /\ \A x \in Nodes(t) : x # r => z.node[x] = t.node[x]
      /\ t.node[r] = n
  BY DEF Pending
<1>3. c = Head(n.kids)
  <2>1. n.kids \in Seq(Nat \ {0})
    BY <1>1, <1>2 DEF NodeType
  <2>. QED
    BY <2>1, TailItems
<1>4. v = [y EXCEPT !.root = c]
  <2>1. CollapseRoot(z, n) = [Adopt(DeleteNode(z, z.root), {Head(n.kids)}, 0) EXCEPT !.root = Head(n.kids)]
    BY Zenon DEF CollapseRoot
  <2>. QED
    BY <1>3, <2>1
<1>. HIDE DEF v, y
<1>5. /\ Formed(u) /\ u.page = t.page /\ IsMap(u.node) /\ Nodes(u) = Nodes(t) \ {r}
      /\ \A x \in Nodes(u) : u.node[x] = t.node[x]
  <2>1. /\ Formed(u) /\ u.root = z.root /\ u.page = z.page
        /\ IsMap(u.node) /\ DOMAIN u.node = DOMAIN z.node \ {z.root}
        /\ \A x \in DOMAIN z.node : x # z.root => u.node[x] = z.node[x]
    BY <1>2, Deleted
  <2>. HIDE DEF u
  <2>2. Nodes(u) = Nodes(t) \ {r}
    BY <1>2, <2>1 DEF Nodes
  <2>. QED
    BY <1>2, <2>1, <2>2 DEF Nodes
<1>. HIDE DEF u
<1>6. /\ Formed(y) /\ y.page = t.page /\ IsMap(y.node) /\ Nodes(y) = Nodes(u)
      /\ \A x \in Nodes(u) : y.node[x] = IF x \in {c} THEN [t.node[x] EXCEPT !.parent = 0] ELSE t.node[x]
  <2>1. /\ Formed(y) /\ y.root = u.root /\ y.page = u.page
        /\ IsMap(y.node) /\ DOMAIN y.node = DOMAIN u.node
        /\ \A x \in DOMAIN u.node :
             y.node[x] = IF x \in {c} THEN [u.node[x] EXCEPT !.parent = 0] ELSE u.node[x]
    <3>1. Moved(u, y, c, 0)
      BY <1>5, AdoptedOne DEF y
    <3>. QED
      BY <3>1, Zenon DEF Moved
  <2>. QED
    BY <1>5, <2>1 DEF Nodes
<1>7. Formed(v) /\ v.page = t.page /\ v.node = y.node /\ v.root = c
  <2>1. y = [root |-> y.root, node |-> y.node, page |-> y.page]
    BY <1>6 DEF Formed
  <2>2. [y EXCEPT !.root = c] = [root |-> c, node |-> y.node, page |-> y.page]
    BY <2>1
  <2>. QED
    BY <1>4, <1>6, <2>2 DEF Formed
<1>8. Nodes(v) = Nodes(t) \ {r} /\ IsMap(v.node) /\ c \in Nodes(v)
  BY <1>5, <1>6, <1>7 DEF Nodes
<1>9. ASSUME NEW x \in Nodes(v)
      PROVE  /\ v.node[x] \in NodeType /\ x \in Nodes(t) /\ x # r
             /\ Leaf(v, x) = Leaf(t, x) /\ Kids(v, x) = Kids(t, x)
             /\ Keys(v, x) = Keys(t, x) /\ Top(v, x) = Top(t, x)
             /\ Up(v, x) = (IF x = c THEN 0 ELSE Up(t, x))
             /\ v.node[x].prev = t.node[x].prev /\ v.node[x].next = t.node[x].next
  <2>1. x \in Nodes(t) /\ x # r /\ t.node[x] \in NodeType
    BY <1>1, <1>8, <1>9
  <2>2. v.node[x] = IF x = c THEN [t.node[x] EXCEPT !.parent = 0] ELSE t.node[x]
    BY <1>5, <1>6, <1>7, <1>8, <1>9
  <2>3. CASE x = c
    <3>1. v.node[x] = [t.node[x] EXCEPT !.parent = 0]
      BY <2>2, <2>3
    <3> DEFINE m == [t.node[x] EXCEPT !.parent = 0]
    <3>2. /\ m \in NodeType /\ m.leaf = t.node[x].leaf /\ m.kids = t.node[x].kids
          /\ m.max = t.node[x].max /\ m.parent = 0 /\ m.prev = t.node[x].prev
          /\ m.next = t.node[x].next /\ m.keys = t.node[x].keys
      BY <2>1, Reparented
    <3>. HIDE DEF m
    <3>3. v.node[x] = m
      BY <3>1 DEF m
    <3>. QED
      BY <2>1, <2>3, <3>2, <3>3 DEF Leaf, Kids, Keys, Top, Up
  <2>4. CASE x # c
    BY <2>1, <2>2, <2>4 DEF Leaf, Kids, Keys, Top, Up
  <2>. QED
    BY <2>3, <2>4
<1>10. Typed(v)
  <2>1. IsFiniteSet(Nodes(v))
    BY <1>1, <1>8, FS_Subset
  <2>2. Nodes(v) \subseteq Nat \ {0} /\ v.root \in Nodes(v) /\ \A x \in Nodes(v) : v.node[x] \in NodeType
    BY <1>1, <1>7, <1>8, <1>9
  <2>. QED
    BY <1>1, <1>7, <1>8, <2>1, <2>2, MadeTree
<1>11. RootedBelow(t, v, c)
  <2>1. Nodes(v) = Nodes(t) \ {t.root} /\ c \in Nodes(v) /\ v.root = c /\ v.page = t.page
        /\ c \in Nodes(t) /\ c # t.root /\ t.root \in Nodes(t)
    BY <1>2, <1>7, <1>8
  <2>. QED
    BY <1>9, <1>10, <2>1 DEF RootedBelow
<1>. QED
  BY <1>11 DEF v

LEMMA CollapseKeeps ==
  ASSUME NEW t, NEW v, NEW lv, NEW lo, NEW nx, NEW loose, NEW c,
         Good(t, lv, lo, nx, loose, 0), ~Leaf(t, t.root), Len(Kids(t, t.root)) = 1,
         c = Kids(t, t.root)[1], RootedBelow(t, v, c)
  PROVE  Good(v, lv, lo, nx, loose, 0)
<1> DEFINE r == t.root
<1>1. Typed(t)
  BY DEF Good
<1>2. /\ Typed(v) /\ Nodes(v) = Nodes(t) \ {r} /\ c \in Nodes(v) /\ v.root = c /\ v.page = t.page
      /\ c \in Nodes(t) /\ c # r /\ r \in Nodes(t)
      /\ \A x \in Nodes(v) : /\ x \in Nodes(t) /\ x # r
                             /\ Leaf(v, x) = Leaf(t, x) /\ Kids(v, x) = Kids(t, x)
                             /\ Keys(v, x) = Keys(t, x) /\ Top(v, x) = Top(t, x)
                             /\ Up(v, x) = (IF x = c THEN 0 ELSE Up(t, x))
                             /\ v.node[x].prev = t.node[x].prev /\ v.node[x].next = t.node[x].next
  BY Zenon DEF RootedBelow
<1>3. ~Leaf(t, r) /\ Len(Kids(t, r)) = 1 /\ Kids(t, r)[1] = c /\ nx[r] = 0 /\ 1 \in 1 .. Len(Kids(t, r))
  BY DEF Good, Ordered
<1>. HIDE DEF r
\* Only the root's child had it for a parent.
<1>4. \A x \in Nodes(v) : x # c => Up(t, x) \in Nodes(v) /\ ~Leaf(t, Up(t, x))
          /\ \E i \in 1 .. Len(Kids(t, Up(t, x))) : Kids(t, Up(t, x))[i] = x
  <2>1. ASSUME NEW x \in Nodes(v), x # c
        PROVE  Up(t, x) \in Nodes(v) /\ ~Leaf(t, Up(t, x))
               /\ \E i \in 1 .. Len(Kids(t, Up(t, x))) : Kids(t, Up(t, x))[i] = x
    <3>1. /\ Up(t, x) \in Nodes(t) /\ ~Leaf(t, Up(t, x))
          /\ \E i \in 1 .. Len(Kids(t, Up(t, x))) : Kids(t, Up(t, x))[i] = x
      BY <1>2, <2>1 DEF Good, Parents, r
    <3>2. Up(t, x) # r
      BY <1>3, <2>1, <3>1
    <3>. QED
      BY <1>2, <3>1, <3>2
  <2>. QED
    BY <2>1
<1>5. nx[c] = 0
  <2>1. nx[Kids(t, r)[1]] = IF 1 < Len(Kids(t, r)) THEN Kids(t, r)[1 + 1]
                            ELSE IF nx[r] = 0 THEN 0 ELSE Kids(t, nx[r])[1]
    BY <1>2, <1>3 DEF Good, Following
  <2>. QED
    BY <1>3, <2>1
\* What follows a node is not the root.
<1>6. \A x \in Nodes(v) : nx[x] # 0 => nx[x] \in Nodes(v)
  <2>1. ASSUME NEW x \in Nodes(v), nx[x] # 0 PROVE nx[x] \in Nodes(v)
    <3>1. nx[x] \in Nodes(t) /\ lv[nx[x]] = lv[x] /\ x \in Nodes(t)
      BY <1>2, <2>1 DEF Good, Ordered
    <3>2. x # c
      BY <1>5, <2>1
    <3>3. Up(t, x) \in Nodes(t) /\ lv[Up(t, x)] = lv[x] + 1 /\ x # t.root
      BY <1>2, <2>1, <3>1, GoodParent DEF r
    <3>4. lv[Up(t, x)] <= lv[t.root] /\ lv[t.root] \in Nat
      BY <1>1, <3>3, Height DEF Good
    <3>5. lv[x] \in Nat
      BY <3>1, GhostTypes
    <3>6. nx[x] # r
      BY <3>1, <3>3, <3>4, <3>5 DEF r
    <3>. QED
      BY <1>2, <3>1, <3>6
  <2>. QED
    BY <2>1
<1>7. Arrays(v) /\ Levels(v, lv)
  <2>1. Arrays(t) /\ Levels(t, lv)
    BY DEF Good
  <2>. QED
    BY <1>2, <2>1 DEF Arrays, Levels
<1>8. Parents(v)
  <2>1. ASSUME NEW x \in Nodes(v) \ {v.root}
        PROVE  /\ Up(v, x) \in Nodes(v) /\ ~Leaf(v, Up(v, x))
               /\ \E i \in 1 .. Len(Kids(v, Up(v, x))) : Kids(v, Up(v, x))[i] = x
    BY <1>2, <1>4, <2>1
  <2>2. Up(v, v.root) = 0
    BY <1>2
  <2>. QED
    BY <2>1, <2>2 DEF Parents
<1>9. ASSUME NEW x \in Nodes(v), ~Leaf(v, x), NEW i \in 1 .. Len(Kids(v, x)), NEW d, d = Kids(v, x)[i]
      PROVE  /\ x \in Nodes(t) /\ ~Leaf(t, x) /\ Kids(v, x) = Kids(t, x) /\ Keys(v, x) = Keys(t, x)
             /\ Top(v, x) = Top(t, x) /\ i \in 1 .. Len(Kids(t, x)) /\ d = Kids(t, x)[i]
             /\ d \in Nodes(v) /\ d # c /\ Up(t, d) = x /\ Top(v, d) = Top(t, d)
  <2>1. /\ x \in Nodes(t) /\ ~Leaf(t, x) /\ Kids(v, x) = Kids(t, x) /\ Keys(v, x) = Keys(t, x)
        /\ Top(v, x) = Top(t, x) /\ i \in 1 .. Len(Kids(t, x)) /\ d = Kids(t, x)[i] /\ x # r
    BY <1>2, <1>9
  <2>2. d \in Nodes(t) /\ Up(t, d) = x
    BY <2>1, GhostTypes
  <2>3. Up(t, c) = r
    BY <1>2, <1>3, GhostTypes
  <2>4. d # r
    <3>1. Parents(t) /\ Children(t, lv)
      BY DEF Good
    <3>. QED
      BY <1>1, <2>1, <3>1, RootIsNoChild DEF r
  <2>. QED
    BY <1>2, <2>1, <2>2, <2>3, <2>4
<1>10. Children(v, lv)
  <2>1. ASSUME NEW x \in Nodes(v), ~Leaf(v, x), NEW i \in 1 .. Len(Kids(v, x)), NEW d, d = Kids(v, x)[i]
        PROVE  d \in Nodes(v) /\ Up(v, d) = x /\ lv[x] = lv[d] + 1
    <3>1. x \in Nodes(t) /\ ~Leaf(t, x) /\ i \in 1 .. Len(Kids(t, x)) /\ d = Kids(t, x)[i]
          /\ d \in Nodes(v) /\ d # c /\ Up(t, d) = x
      BY <1>9, <2>1
    <3>2. lv[x] = lv[d] + 1
      BY <3>1 DEF Good, Children
    <3>. QED
      BY <1>2, <3>1, <3>2
  <2>. QED
    BY <2>1 DEF Children
<1>11. Bounds(v, lo, 0)
  <2>1. ASSUME NEW x \in Nodes(v) PROVE lo[x] \in Int /\ lo[x] >= -1 /\ lo[x] < Top(v, x)
    BY <1>2, <2>1, GhostTypes
  <2>2. ASSUME NEW x \in Nodes(v), ~Leaf(v, x), NEW i \in 1 .. Len(Kids(v, x)), NEW d, d = Kids(v, x)[i]
        PROVE  /\ lo[x] <= LoAt(v, lo, x, i) /\ LoAt(v, lo, x, i) <= lo[d]
               /\ (d # 0 => Top(v, d) <= HiAt(v, x, i))
               /\ HiAt(v, x, i) <= Top(v, x)
               /\ (i = 1 => lo[d] = lo[x])
    <3>1. /\ x \in Nodes(t) /\ ~Leaf(t, x) /\ Kids(v, x) = Kids(t, x) /\ Keys(v, x) = Keys(t, x)
          /\ Top(v, x) = Top(t, x) /\ i \in 1 .. Len(Kids(t, x)) /\ d = Kids(t, x)[i] /\ Top(v, d) = Top(t, d)
      BY <1>9, <2>2
    <3>2. LoAt(v, lo, x, i) = LoAt(t, lo, x, i) /\ HiAt(v, x, i) = HiAt(t, x, i)
      BY <3>1 DEF LoAt, HiAt
    <3>3. /\ lo[x] <= LoAt(t, lo, x, i) /\ LoAt(t, lo, x, i) <= lo[d]
          /\ (d # 0 => Top(t, d) <= HiAt(t, x, i))
          /\ HiAt(t, x, i) <= Top(t, x)
          /\ (i = 1 => lo[d] = lo[x])
      BY <3>1 DEF Good, Bounds
    <3>. QED
      BY <3>1, <3>2, <3>3
  <2>. QED
    BY <2>1, <2>2 DEF Bounds
<1>12. Filed(v, lo)
  <2>1. ASSUME NEW x \in Nodes(v), Leaf(v, x), NEW i \in 1 .. Len(Kids(v, x)), NEW pg, pg = Kids(v, x)[i]
        PROVE  /\ pg \in DOMAIN v.page
               /\ LoAt(v, lo, x, i) < Keys(v, x)[i] /\ Keys(v, x)[i] <= Top(v, x)
               /\ \A k \in DOMAIN v.page[pg] : LoAt(v, lo, x, i) < k /\ k <= Keys(v, x)[i]
    <3>1. x \in Nodes(t) /\ Leaf(t, x) /\ Kids(v, x) = Kids(t, x) /\ Keys(v, x) = Keys(t, x) /\ Top(v, x) = Top(t, x)
      BY <1>2, <2>1
    <3>2. LoAt(v, lo, x, i) = LoAt(t, lo, x, i)
      BY <3>1 DEF LoAt
    <3>3. /\ pg \in DOMAIN t.page
          /\ LoAt(t, lo, x, i) < Keys(t, x)[i] /\ Keys(t, x)[i] <= Top(t, x)
          /\ \A k \in DOMAIN t.page[pg] : LoAt(t, lo, x, i) < k /\ k <= Keys(t, x)[i]
      BY <2>1, <3>1 DEF Good, Filed
    <3>. QED
      BY <1>2, <3>1, <3>2, <3>3
  <2>. QED
    BY <2>1 DEF Filed
<1>13. Following(v, nx)
  <2>1. ASSUME NEW x \in Nodes(v), ~Leaf(v, x), NEW i \in 1 .. Len(Kids(v, x))
        PROVE  nx[Kids(v, x)[i]] = IF i < Len(Kids(v, x)) THEN Kids(v, x)[i + 1]
                                   ELSE IF nx[x] = 0 THEN 0 ELSE Kids(v, nx[x])[1]
    <3>1. x \in Nodes(t) /\ ~Leaf(t, x) /\ Kids(v, x) = Kids(t, x) /\ i \in 1 .. Len(Kids(t, x))
      BY <1>2, <2>1
    <3>2. nx[x] # 0 => Kids(v, nx[x]) = Kids(t, nx[x])
      BY <1>2, <1>6, <2>1
    <3>3. nx[Kids(t, x)[i]] = IF i < Len(Kids(t, x)) THEN Kids(t, x)[i + 1]
                              ELSE IF nx[x] = 0 THEN 0 ELSE Kids(t, nx[x])[1]
      BY <3>1 DEF Good, Following
    <3>. QED
      BY <3>1, <3>2, <3>3
  <2>. QED
    BY <2>1 DEF Following
<1>14. Ordered(v, lv, lo, nx)
  <2>1. ASSUME NEW x \in Nodes(v), nx[x] # 0
        PROVE  /\ nx[x] \in Nodes(v) /\ lv[nx[x]] = lv[x] /\ Top(v, x) <= lo[nx[x]]
               /\ \A y \in Nodes(v) : nx[y] = nx[x] => y = x
    <3>1. /\ x \in Nodes(t) /\ lv[nx[x]] = lv[x] /\ Top(t, x) <= lo[nx[x]]
          /\ \A y \in Nodes(t) : nx[y] = nx[x] => y = x
      BY <1>2, <2>1 DEF Good, Ordered
    <3>. QED
      BY <1>2, <1>6, <2>1, <3>1
  <2>. QED
    BY <1>2, <1>5, <2>1 DEF Ordered
<1>15. Linked(v, nx)
  <2>1. ASSUME NEW x \in Nodes(v)
        PROVE  IF v.node[x].leaf
               THEN /\ v.node[x].next = nx[x]
                    /\ nx[x] # 0 => v.node[nx[x]].prev = x
                    /\ v.node[x].prev # 0 => v.node[x].prev \in Nodes(v) /\ nx[v.node[x].prev] = x
               ELSE v.node[x].next = 0 /\ v.node[x].prev = 0
    <3>1. x \in Nodes(t) /\ v.node[x].leaf = t.node[x].leaf
          /\ v.node[x].next = t.node[x].next /\ v.node[x].prev = t.node[x].prev
      BY <1>2, <2>1 DEF Leaf
    <3>2. nx[x] # 0 => v.node[nx[x]].prev = t.node[nx[x]].prev
      BY <1>2, <1>6, <2>1
    <3>3. IF t.node[x].leaf
          THEN /\ t.node[x].next = nx[x]
               /\ nx[x] # 0 => t.node[nx[x]].prev = x
               /\ t.node[x].prev # 0 => t.node[x].prev \in Nodes(t) /\ nx[t.node[x].prev] = x
          ELSE t.node[x].next = 0 /\ t.node[x].prev = 0
      BY <3>1 DEF Good, Linked
    <3>4. t.node[x].leaf /\ t.node[x].prev # 0 => t.node[x].prev # r
      <4>1. x # 0
        BY <1>1, <3>1, NodeFields
      <4>. QED
        BY <1>3, <3>3, <4>1
    <3>. QED
      BY <1>2, <3>1, <3>2, <3>3, <3>4
  <2>. QED
    BY <2>1 DEF Linked
<1>16. Placed(v, loose)
  <2>1. Placed(t, loose)
    BY DEF Good
  <2>2. \A x \in Nodes(v) : Leaf(v, x) => x \in Nodes(t) /\ Leaf(t, x) /\ Kids(v, x) = Kids(t, x)
    BY <1>2
  <2>3. \A x \in Nodes(t) : Leaf(t, x) => x \in Nodes(v) /\ Leaf(v, x) /\ Kids(v, x) = Kids(t, x)
    BY <1>2, <1>3
  <2>. QED
    BY <1>2, <2>1, <2>2, <2>3 DEF Placed
<1>. QED
  BY <1>2, <1>7, <1>8, <1>10, <1>11, <1>12, <1>13, <1>14, <1>15, <1>16 DEF Good

(***************************************************************************)
(* The lower bounds say what is in the tree, not what could be: they can   *)
(* be lowered to let a key in that is in nobody's bounds.                  *)
(***************************************************************************)
\* The bounds of the nodes in L can become k - 1.
Lowering(t, lo, nx, k, L) ==
  /\ L \subseteq Nodes(t) /\ \A x \in L : lo[x] >= k
  /\ \A x \in Nodes(t) : ~Leaf(t, x) => (x \in L <=> Kids(t, x)[1] \in L)
  /\ \A x \in Nodes(t) : ~Leaf(t, x) => \A i \in 2 .. Len(Kids(t, x)) :
       Kids(t, x)[i] \in L => Keys(t, x)[i - 1] < k
  /\ \A x \in L : \A y \in Nodes(t) : nx[y] = x => Top(t, y) < k

LEMMA Lowered ==
  ASSUME NEW t, NEW lv, NEW lo, NEW nx, NEW loose, NEW k \in Nat, NEW L, NEW lo2,
         Good(t, lv, lo, nx, loose, 0), Lowering(t, lo, nx, k, L),
         \A x \in Nodes(t) : lo2[x] = IF x \in L THEN k - 1 ELSE lo[x]
  PROVE  Good(t, lv, lo2, nx, loose, 0)
<1>1. Typed(t) /\ Bounds(t, lo, 0) /\ Filed(t, lo) /\ Ordered(t, lv, lo, nx)
  BY DEF Good
<1>2. ASSUME NEW x \in Nodes(t)
      PROVE  /\ lo[x] \in Int /\ lo[x] >= -1 /\ lo[x] < Top(t, x) /\ Top(t, x) \in Nat
             /\ lo2[x] \in Int /\ lo2[x] >= -1 /\ lo2[x] <= lo[x] /\ lo2[x] < Top(t, x)
  <2>1. lo[x] \in Int /\ lo[x] >= -1 /\ lo[x] < Top(t, x) /\ Top(t, x) \in Nat
    BY <1>1, GhostTypes, NodeFields
  <2>2. x \in L => lo2[x] = k - 1 /\ lo[x] >= k
    BY DEF Lowering
  <2>3. x \notin L => lo2[x] = lo[x]
    OBVIOUS
  <2>. QED
    BY <2>1, <2>2, <2>3
<1>3. Bounds(t, lo2, 0)
  <2>1. ASSUME NEW x \in Nodes(t), ~Leaf(t, x), NEW i \in 1 .. Len(Kids(t, x)), NEW c, c = Kids(t, x)[i]
        PROVE  /\ lo2[x] <= LoAt(t, lo2, x, i) /\ LoAt(t, lo2, x, i) <= lo2[c]
               /\ (c # 0 => Top(t, c) <= HiAt(t, x, i))
               /\ HiAt(t, x, i) <= Top(t, x)
               /\ (i = 1 => lo2[c] = lo2[x])
    <3>1. /\ lo[x] <= LoAt(t, lo, x, i) /\ LoAt(t, lo, x, i) <= lo[c]
          /\ (c # 0 => Top(t, c) <= HiAt(t, x, i))
          /\ HiAt(t, x, i) <= Top(t, x)
          /\ (i = 1 => lo[c] = lo[x])
      BY <1>1, <2>1 DEF Bounds
    <3>2. c \in Nodes(t)
      BY <2>1, GhostTypes
    <3>3. CASE i = 1
      <4>1. x \in L <=> c \in L
        BY <2>1, <3>3 DEF Lowering
      <4>2. lo2[x] = lo2[c]
        BY <3>1, <3>2, <3>3, <4>1
      <4>3. LoAt(t, lo2, x, i) = lo2[x]
        BY <3>3 DEF LoAt
      <4>4. lo2[x] \in Int /\ lo2[c] \in Int
        BY <1>2, <3>2
      <4>. QED
        BY <3>1, <4>2, <4>3, <4>4
    <3>4. CASE i # 1
      <4>1. LoAt(t, lo2, x, i) = Keys(t, x)[i - 1] /\ LoAt(t, lo, x, i) = Keys(t, x)[i - 1]
        BY <3>4 DEF LoAt
      <4>2. Keys(t, x)[i - 1] \in Int
        BY <4>1, <2>1, BoundTypes
      <4>3. lo2[x] <= Keys(t, x)[i - 1]
        BY <1>2, <3>1, <4>1, <4>2
      <4>4. Keys(t, x)[i - 1] <= lo2[c]
        <5>1. CASE c \in L
          <6>1. i \in 2 .. Len(Kids(t, x))
            BY <2>1, <3>4
          <6>2. Keys(t, x)[i - 1] < k
            BY <2>1, <5>1, <6>1 DEF Lowering
          <6>. QED
            BY <3>2, <4>2, <5>1, <6>2
        <5>2. CASE c \notin L
          BY <3>1, <3>2, <4>1, <5>2
        <5>. QED
          BY <5>1, <5>2
      <4>. QED
        BY <3>1, <3>4, <4>1, <4>3, <4>4
    <3>. QED
      BY <3>3, <3>4
  <2>. QED
    BY <1>2, <2>1 DEF Bounds
<1>4. Filed(t, lo2)
  <2>1. ASSUME NEW x \in Nodes(t), Leaf(t, x), NEW i \in 1 .. Len(Kids(t, x)), NEW pg, pg = Kids(t, x)[i]
        PROVE  /\ pg \in DOMAIN t.page
               /\ LoAt(t, lo2, x, i) < Keys(t, x)[i] /\ Keys(t, x)[i] <= Top(t, x)
               /\ \A j \in DOMAIN t.page[pg] : LoAt(t, lo2, x, i) < j /\ j <= Keys(t, x)[i]
    <3>1. /\ pg \in DOMAIN t.page
          /\ LoAt(t, lo, x, i) < Keys(t, x)[i] /\ Keys(t, x)[i] <= Top(t, x)
          /\ \A j \in DOMAIN t.page[pg] : LoAt(t, lo, x, i) < j /\ j <= Keys(t, x)[i]
      BY <1>1, <2>1 DEF Filed
    <3>2. LoAt(t, lo, x, i) \in Int
      BY <2>1, BoundTypes
    <3>3. LoAt(t, lo2, x, i) \in Int /\ LoAt(t, lo2, x, i) <= LoAt(t, lo, x, i)
      <4>1. CASE i = 1
        <5>1. LoAt(t, lo2, x, i) = lo2[x] /\ LoAt(t, lo, x, i) = lo[x]
          BY <4>1 DEF LoAt
        <5>. QED
          BY <1>2, <5>1
      <4>2. CASE i # 1
        <5>1. LoAt(t, lo2, x, i) = LoAt(t, lo, x, i)
          BY <4>2 DEF LoAt
        <5>. QED
          BY <3>2, <5>1
      <4>. QED
        BY <4>1, <4>2
    <3>4. i \in 1 .. Len(Keys(t, x))
      BY <2>1, GhostTypes
    <3>5. Keys(t, x)[i] \in Nat /\ \A j \in DOMAIN t.page[pg] : j \in Nat
      BY <1>1, <3>1, <3>4, NodeFields, PageFields
    <3>. QED
      BY <3>1, <3>2, <3>3, <3>5
  <2>. QED
    BY <2>1 DEF Filed
<1>5. Ordered(t, lv, lo2, nx)
  <2>1. ASSUME NEW x \in Nodes(t), nx[x] # 0 PROVE Top(t, x) <= lo2[nx[x]]
    <3>1. nx[x] \in Nodes(t) /\ Top(t, x) <= lo[nx[x]]
      BY <1>1, <2>1 DEF Ordered
    <3>2. CASE nx[x] \in L
      <4>1. Top(t, x) < k
        BY <3>2 DEF Lowering
      <4>2. Top(t, x) \in Nat
        BY <1>2
      <4>3. lo2[nx[x]] = k - 1
        BY <3>1, <3>2
      <4>. QED
        BY <4>1, <4>2, <4>3
    <3>3. CASE nx[x] \notin L
      BY <3>1, <3>3
    <3>. QED
      BY <3>2, <3>3
  <2>. QED
    BY <1>1, <2>1 DEF Ordered
<1>. QED
  BY <1>3, <1>4, <1>5 DEF Good

\* What follows the last child of a node is the first child of what follows it.
LEMMA FollowsFirst ==
  ASSUME NEW t, NEW lv, NEW lo, NEW nx, NEW loose, Good(t, lv, lo, nx, loose, 0),
         NEW z \in Nodes(t), ~Leaf(t, z), NEW y \in Nodes(t), nx[y] = Kids(t, z)[1]
  PROVE  \E p \in Nodes(t) : nx[p] = z /\ Top(t, y) <= Top(t, p)
<1>1. Typed(t) /\ Parents(t) /\ Arrays(t) /\ Children(t, lv) /\ Levels(t, lv)
  BY DEF Good
<1>2. 1 \in 1 .. Len(Kids(t, z)) /\ Kids(t, z)[1] \in Nodes(t) /\ Up(t, Kids(t, z)[1]) = z /\ Kids(t, z)[1] # 0
  <2>1. Len(Kids(t, z)) \in Nat /\ Len(Kids(t, z)) >= 1
    BY <1>1, NodeFields, GhostTypes
  <2>2. 1 \in 1 .. Len(Kids(t, z))
    BY <2>1
  <2>3. Kids(t, z)[1] \in Nodes(t) /\ Up(t, Kids(t, z)[1]) = z
    BY <2>2, GhostTypes
  <2>. QED
    BY <1>1, <2>2, <2>3, NodeFields
<1>3. y # t.root
  BY <1>2 DEF Good, Ordered
<1> DEFINE p == Up(t, y)
           m == Position(Kids(t, p), y)
<1>4. p \in Nodes(t) /\ ~Leaf(t, p) /\ m \in 1 .. Len(Kids(t, p)) /\ Kids(t, p)[m] = y
  BY <1>1, <1>3, ParentOf
<1>. HIDE DEF p, m
<1>5. nx[y] = IF m < Len(Kids(t, p)) THEN Kids(t, p)[m + 1]
              ELSE IF nx[p] = 0 THEN 0 ELSE Kids(t, nx[p])[1]
  BY <1>4 DEF Good, Following
<1>6. Len(Kids(t, p)) \in Nat
  BY <1>1, <1>4, NodeFields
<1>7. ~(m < Len(Kids(t, p)))
  <2>1. ASSUME m < Len(Kids(t, p)) PROVE FALSE
    <3>1. m + 1 \in 1 .. Len(Kids(t, p)) /\ m + 1 # 1 /\ Kids(t, p)[m + 1] = Kids(t, z)[1]
      BY <1>4, <1>5, <1>6, <2>1
    <3>2. Up(t, Kids(t, p)[m + 1]) = p
      BY <1>4, <3>1, GhostTypes
    <3>3. p = z
      BY <1>2, <3>1, <3>2
    <3>. QED
      BY <1>1, <1>2, <3>1, <3>3 DEF Arrays
  <2>. QED
    BY <2>1
<1>8. nx[p] # 0 /\ Kids(t, nx[p])[1] = Kids(t, z)[1]
  BY <1>2, <1>5, <1>7
<1>9. nx[p] = z
  <2>1. nx[p] \in Nodes(t) /\ ~Leaf(t, nx[p])
    BY <1>4, <1>8 DEF Good, Ordered, Levels
  <2>2. Len(Kids(t, nx[p])) \in Nat /\ Len(Kids(t, nx[p])) >= 1
    BY <1>1, <2>1, NodeFields, GhostTypes
  <2>3. Up(t, Kids(t, nx[p])[1]) = nx[p]
    BY <2>1, <2>2, GhostTypes
  <2>. QED
    BY <1>2, <1>8, <2>3
<1>10. Top(t, y) <= Top(t, p)
  <2>1. y # 0
    BY <1>1, NodeFields
  <2>2. Top(t, y) <= HiAt(t, p, m) /\ HiAt(t, p, m) <= Top(t, p)
    BY <1>4, <2>1 DEF Good, Bounds
  <2>3. HiAt(t, p, m) \in Nat
    BY <1>4, BoundTypes
  <2>4. Top(t, y) \in Nat /\ Top(t, p) \in Nat
    BY <1>1, <1>4, NodeFields
  <2>. QED
    BY <2>2, <2>3, <2>4
<1>. QED
  BY <1>4, <1>9, <1>10

\* A node's bound can become k - 1 when k is above what is before the node.
LEMMA LowerNode ==
  ASSUME NEW t, NEW lv, NEW lo, NEW nx, NEW loose, NEW k \in Nat, NEW c \in Nodes(t),
         Good(t, lv, lo, nx, loose, 0), lo[c] >= k, \A y \in Nodes(t) : nx[y] = c => Top(t, y) < k,
         \A x \in Nodes(t) : ~Leaf(t, x) => Kids(t, x)[1] # c,
         \A x \in Nodes(t) : ~Leaf(t, x) => \A i \in 2 .. Len(Kids(t, x)) :
           Kids(t, x)[i] = c => Keys(t, x)[i - 1] < k
  PROVE  \E lo2 : /\ Good(t, lv, lo2, nx, loose, 0) /\ lo2[c] = k - 1
                  /\ \A x \in Nodes(t) : lv[x] >= lv[c] /\ x # c => lo2[x] = lo[x]
<1> DEFINE n == lv[c]
           step == [i \in 1 .. n |-> [x \in Nodes(t) |-> IF Leaf(t, x) THEN x ELSE Kids(t, x)[1]]]
<1>1. Typed(t) /\ Arrays(t) /\ Levels(t, lv) /\ Children(t, lv) /\ Bounds(t, lo, 0) /\ n \in Nat
  BY DEF Good, Levels
<1>2. ASSUME NEW x \in Nodes(t), ~Leaf(t, x)
      PROVE  /\ 1 \in 1 .. Len(Kids(t, x)) /\ Kids(t, x)[1] \in Nodes(t) /\ Up(t, Kids(t, x)[1]) = x
             /\ lv[x] = lv[Kids(t, x)[1]] + 1 /\ lo[Kids(t, x)[1]] = lo[x]
  <2>1. Len(Kids(t, x)) \in Nat /\ Len(Kids(t, x)) >= 1
    BY <1>1, <1>2, NodeFields, GhostTypes
  <2>2. 1 \in 1 .. Len(Kids(t, x))
    BY <2>1
  <2>3. Kids(t, x)[1] \in Nodes(t) /\ Up(t, Kids(t, x)[1]) = x
    BY <1>2, <2>2, GhostTypes
  <2>4. lv[x] = lv[Kids(t, x)[1]] + 1 /\ lo[Kids(t, x)[1]] = lo[x]
    BY <1>1, <1>2, <2>2 DEF Children, Bounds
  <2>. QED
    BY <2>2, <2>3, <2>4
<1>3. PICK f : Runs(f, n, Nodes(t), c, step)
  <2>1. step \in Steps(n, Nodes(t))
    BY <1>2 DEF Steps
  <2>. HIDE DEF step, n
  <2>. QED
    BY <1>1, <2>1, Iteration
<1>4. /\ f \in [0 .. n -> Nodes(t)] /\ f[0] = c
      /\ \A i \in 1 .. n : f[i] = IF Leaf(t, f[i - 1]) THEN f[i - 1] ELSE Kids(t, f[i - 1])[1]
  BY <1>1, <1>3, \A i \in 1 .. n : i - 1 \in 0 .. n DEF Runs
<1> DEFINE Chained(i) == /\ lv[f[i]] = n - i /\ lo[f[i]] = lo[c]
                         /\ \A y \in Nodes(t) : nx[y] = f[i] => Top(t, y) < k
           T == {i \in 0 .. n : Chained(i)}
<1>. HIDE DEF step, n
<1>5. 0 \in T
  BY <1>1, <1>4 DEF n
<1>6. ASSUME NEW i \in 1 .. n, i - 1 \in T
      PROVE  /\ ~Leaf(t, f[i - 1]) /\ f[i - 1] \in Nodes(t) /\ f[i] = Kids(t, f[i - 1])[1] /\ i \in T
  <2> DEFINE z == f[i - 1]
  <2>1. z \in Nodes(t) /\ lv[z] = n - (i - 1) /\ lo[z] = lo[c] /\ \A y \in Nodes(t) : nx[y] = z => Top(t, y) < k
    BY <1>4, <1>6
  <2>. HIDE DEF z
  <2>2. ~Leaf(t, z)
    BY <1>1, <2>1 DEF Levels
  <2>3. f[i] = Kids(t, z)[1]
    BY <1>4, <2>2 DEF z
  <2>4. lv[f[i]] = n - i /\ lo[f[i]] = lo[c]
    <3>1. lv[z] = lv[f[i]] + 1 /\ lo[f[i]] = lo[z] /\ f[i] \in Nodes(t)
      BY <1>2, <2>1, <2>2, <2>3
    <3>2. lv[f[i]] \in Nat
      BY <1>1, <3>1 DEF Levels
    <3>. QED
      BY <1>1, <2>1, <3>1, <3>2
  <2>5. ASSUME NEW y \in Nodes(t), nx[y] = f[i] PROVE Top(t, y) < k
    <3>1. PICK p \in Nodes(t) : nx[p] = z /\ Top(t, y) <= Top(t, p)
      BY <2>1, <2>2, <2>3, <2>5, FollowsFirst
    <3>2. Top(t, p) < k
      BY <2>1, <3>1
    <3>3. Top(t, y) \in Nat /\ Top(t, p) \in Nat
      BY <1>1, NodeFields
    <3>. QED
      BY <3>1, <3>2, <3>3
  <2>. QED
    BY <2>1, <2>2, <2>3, <2>4, <2>5 DEF z
<1>7. 0 .. n \subseteq T
  <2>1. \A i \in 1 .. n : i - 1 \in T => i \in T
    BY <1>6
  <2>. HIDE DEF T
  <2>. QED
    BY <1>1, <1>5, <2>1, CountingUpTo
<1>8. \A i \in 0 .. n : Chained(i)
  BY <1>7
<1>9. \A i \in 1 .. n : ~Leaf(t, f[i - 1]) /\ f[i] = Kids(t, f[i - 1])[1]
  <2>1. \A i \in 1 .. n : i - 1 \in T
    BY <1>1, <1>7, \A i \in 1 .. n : i - 1 \in 0 .. n
  <2>. HIDE DEF T
  <2>. QED
    BY <1>6, <2>1
<1> DEFINE L == {f[i] : i \in 0 .. n}
           lo2 == [x \in Nodes(t) |-> IF x \in L THEN k - 1 ELSE lo[x]]
<1>. HIDE DEF T
<1>10. Lowering(t, lo, nx, k, L)
  <2>1. L \subseteq Nodes(t) /\ \A x \in L : lo[x] >= k
    BY <1>4, <1>8
  <2>2. ASSUME NEW x \in Nodes(t), ~Leaf(t, x) PROVE x \in L <=> Kids(t, x)[1] \in L
    <3>1. ASSUME x \in L PROVE Kids(t, x)[1] \in L
      <4>1. PICK i \in 0 .. n : x = f[i]
        BY <3>1
      <4>2. lv[f[i]] = n - i
        BY <1>8
      <4>3. lv[x] # 0
        BY <1>1, <2>2 DEF Levels
      <4>4. i # n
        BY <1>1, <4>1, <4>2, <4>3
      <4>5. i + 1 \in 1 .. n /\ (i + 1) - 1 = i /\ i + 1 \in 0 .. n
        BY <1>1, <4>4
      <4>6. f[i + 1] = Kids(t, x)[1]
        BY <1>9, <4>1, <4>5
      <4>. QED
        BY <4>5, <4>6
    <3>2. ASSUME Kids(t, x)[1] \in L PROVE x \in L
      <4>1. PICK i \in 0 .. n : Kids(t, x)[1] = f[i]
        BY <3>2
      <4>2. i # 0
        BY <1>4, <2>2, <4>1
      <4>3. i \in 1 .. n /\ i - 1 \in 0 .. n
        BY <1>1, <4>2
      <4>4. f[i - 1] \in Nodes(t) /\ ~Leaf(t, f[i - 1]) /\ f[i] = Kids(t, f[i - 1])[1]
        BY <1>4, <1>9, <4>3
      <4>5. Up(t, f[i]) = x /\ Up(t, f[i]) = f[i - 1]
        BY <1>2, <2>2, <4>1, <4>4
      <4>. QED
        BY <4>3, <4>5
    <3>. QED
      BY <3>1, <3>2
  <2>3. ASSUME NEW x \in Nodes(t), ~Leaf(t, x), NEW i \in 2 .. Len(Kids(t, x)), Kids(t, x)[i] \in L
        PROVE  Keys(t, x)[i - 1] < k
    <3>1. PICK j \in 0 .. n : Kids(t, x)[i] = f[j]
      BY <2>3
    <3>2. CASE j = 0
      BY <1>4, <2>3, <3>1, <3>2
    <3>3. CASE j # 0
      <4>1. j \in 1 .. n /\ j - 1 \in 0 .. n
        BY <1>1, <3>3
      <4>2. f[j - 1] \in Nodes(t) /\ ~Leaf(t, f[j - 1]) /\ f[j] = Kids(t, f[j - 1])[1]
        BY <1>4, <1>9, <4>1
      <4>3. Len(Kids(t, x)) \in Nat
        BY <1>1, NodeFields
      <4>4. i \in 1 .. Len(Kids(t, x)) /\ i # 1
        BY <4>3
      <4>5. Up(t, f[j]) = x /\ Up(t, f[j]) = f[j - 1]
        BY <1>2, <2>3, <3>1, <4>2, <4>4, GhostTypes
      <4>6. Kids(t, x)[i] = Kids(t, x)[1]
        BY <3>1, <4>2, <4>5
      <4>. QED
        BY <1>1, <1>2, <2>3, <4>4, <4>6 DEF Arrays
    <3>. QED
      BY <3>2, <3>3
  <2>4. \A x \in L : \A y \in Nodes(t) : nx[y] = x => Top(t, y) < k
    BY <1>8
  <2>. QED
    BY <2>1, <2>2, <2>3, <2>4 DEF Lowering
<1>11. \A x \in Nodes(t) : lo2[x] = IF x \in L THEN k - 1 ELSE lo[x]
  OBVIOUS
<1>12. c \in L
  BY <1>1, <1>4
<1>13. ASSUME NEW x \in Nodes(t), lv[x] >= lv[c], x # c PROVE x \notin L
  <2>1. ASSUME NEW i \in 0 .. n, x = f[i] PROVE FALSE
    <3>1. lv[f[i]] = n - i
      BY <1>8
    <3>2. i = 0
      BY <1>1, <1>13, <2>1, <3>1 DEF n
    <3>. QED
      BY <1>4, <1>13, <2>1, <3>2
  <2>. QED
    BY <2>1
<1>. HIDE DEF L, lo2
<1>14. Good(t, lv, lo2, nx, loose, 0)
  BY <1>10, <1>11, Lowered
<1>15. lo2[c] = k - 1
  BY <1>11, <1>12
<1>16. \A x \in Nodes(t) : lv[x] >= lv[c] /\ x # c => lo2[x] = lo[x]
  BY <1>11, <1>13
<1>. QED
  BY <1>14, <1>15, <1>16

(***************************************************************************)
(* The search for a key.                                                   *)
(***************************************************************************)
\* The key k belongs under the node at a: above its bound, and not above that
\* of what follows it.
OnTheWay(t, lo, nx, k, a) == a \in Nodes(t) /\ lo[a] < k /\ (nx[a] # 0 => k <= lo[nx[a]])

\* The child at i of the node at a is the one a search for k goes down to.
ChildIs(t, a, k, i) ==
  /\ i \in 1 .. Len(Kids(t, a)) /\ (i > 1 => Keys(t, a)[i - 1] < k)
  /\ (i < Len(Kids(t, a)) => Keys(t, a)[i] >= k)
  /\ ChildFor(t, a, k) = Kids(t, a)[i]

LEMMA FirstIndex ==
  ASSUME NEW t, NEW lv, NEW lo, NEW nx, NEW loose, Good(t, lv, lo, nx, loose, 0), NEW k \in Nat,
         NEW a \in Nodes(t), ~Leaf(t, a)
  PROVE  ChildIs(t, a, k, FirstNotBelow(Keys(t, a), k))
<1> DEFINE i == FirstNotBelow(Keys(t, a), k)
<1>1. Typed(t)
  BY DEF Good
<1>2. Keys(t, a) \in Seq(Nat) /\ Len(Keys(t, a)) = Len(Kids(t, a)) - 1 /\ Len(Kids(t, a)) \in Nat
  BY <1>1, NodeFields, GhostTypes
<1>3. /\ i \in 1 .. (Len(Keys(t, a)) + 1) /\ (i <= Len(Keys(t, a)) => Keys(t, a)[i] >= k)
      /\ \A j \in 1 .. Len(Keys(t, a)) : j < i => Keys(t, a)[j] < k
  <2>1. NotBelowAt(Keys(t, a), k, i)
    BY <1>2, FirstNotBelowIs
  <2>. HIDE DEF i
  <2>. QED
    BY <2>1 DEF NotBelowAt
<1>4. i \in 1 .. Len(Kids(t, a))
  BY <1>2, <1>3
<1>5. i > 1 => i - 1 \in 1 .. Len(Keys(t, a))
  BY <1>2, <1>4
<1>6. i < Len(Kids(t, a)) => i <= Len(Keys(t, a))
  BY <1>2, <1>4
<1>7. ChildFor(t, a, k) = Kids(t, a)[i]
  BY DEF ChildFor, Leaf, Kids, Keys
<1>. HIDE DEF i
<1>8. ChildIs(t, a, k, i)
  BY <1>3, <1>4, <1>5, <1>6, <1>7 DEF ChildIs
<1>. QED
  BY <1>8 DEF i

\* The search starts on the way.
LEMMA WayFromRoot ==
  ASSUME NEW t, NEW lv, NEW lo, NEW nx, NEW loose, Good(t, lv, lo, nx, loose, 0), NEW k \in Nat
  PROVE  \E lo2 : Good(t, lv, lo2, nx, loose, 0) /\ OnTheWay(t, lo2, nx, k, t.root)
<1>1. Typed(t) /\ Parents(t) /\ Children(t, lv) /\ Arrays(t) /\ t.root \in Nodes(t) /\ nx[t.root] = 0
  BY DEF Good, Typed, Ordered
<1>2. lo[t.root] \in Int
  BY <1>1, GhostTypes
<1>3. CASE lo[t.root] < k
  BY <1>1, <1>3 DEF OnTheWay
<1>4. CASE ~(lo[t.root] < k)
  <2>1. ASSUME NEW x \in Nodes(t), ~Leaf(t, x)
        PROVE  /\ Kids(t, x)[1] # t.root
               /\ \A i \in 2 .. Len(Kids(t, x)) : Kids(t, x)[i] # t.root
    <3>1. Len(Kids(t, x)) \in Nat /\ Len(Kids(t, x)) >= 1
      BY <1>1, <2>1, NodeFields, GhostTypes
    <3>2. \A i \in 1 .. Len(Kids(t, x)) : Kids(t, x)[i] # t.root
      BY <1>1, <2>1, RootIsNoChild
    <3>3. 1 \in 1 .. Len(Kids(t, x)) /\ \A i \in 2 .. Len(Kids(t, x)) : i \in 1 .. Len(Kids(t, x))
      BY <3>1
    <3>. QED
      BY <3>2, <3>3
  <2>2. ASSUME NEW y \in Nodes(t), nx[y] = t.root PROVE FALSE
    <3>1. t.root # 0
      BY <1>1, NodeFields
    <3>2. y # t.root
      BY <1>1, <2>2, <3>1
    <3>3. Up(t, y) \in Nodes(t) /\ lv[Up(t, y)] = lv[y] + 1
      BY <3>2, GoodParent
    <3>4. lv[t.root] = lv[y]
      BY <2>2, <3>1 DEF Good, Ordered
    <3>5. lv[Up(t, y)] <= lv[t.root] /\ lv[t.root] \in Nat
      BY <1>1, <3>3, Height DEF Good
    <3>. QED
      BY <3>3, <3>4, <3>5
  <2>3. lo[t.root] >= k
    BY <1>2, <1>4
  <2>4. PICK lo2 : Good(t, lv, lo2, nx, loose, 0) /\ lo2[t.root] = k - 1
    <3>1. \A y \in Nodes(t) : nx[y] = t.root => Top(t, y) < k
      BY <2>2
    <3>2. \A x \in Nodes(t) : ~Leaf(t, x) => Kids(t, x)[1] # t.root
      BY <2>1
    <3>3. \A x \in Nodes(t) : ~Leaf(t, x) => \A i \in 2 .. Len(Kids(t, x)) :
            Kids(t, x)[i] = t.root => Keys(t, x)[i - 1] < k
      BY <2>1
    <3>. QED
      BY <1>1, <2>3, <3>1, <3>2, <3>3, LowerNode
  <2>. QED
    BY <1>1, <2>4 DEF OnTheWay
<1>. QED
  BY <1>3, <1>4

\* A step down stays on the way.
LEMMA WayDown ==
  ASSUME NEW t, NEW lv, NEW lo, NEW nx, NEW loose, Good(t, lv, lo, nx, loose, 0), NEW k \in Nat, NEW a,
         OnTheWay(t, lo, nx, k, a), ~Leaf(t, a)
  PROVE  \E lo2 : /\ Good(t, lv, lo2, nx, loose, 0) /\ OnTheWay(t, lo2, nx, k, ChildFor(t, a, k))
                  /\ lv[a] = lv[ChildFor(t, a, k)] + 1
<1> DEFINE i == FirstNotBelow(Keys(t, a), k)
           c == Kids(t, a)[i]
<1>1. Typed(t) /\ Arrays(t) /\ Children(t, lv) /\ Bounds(t, lo, 0) /\ Levels(t, lv)
      /\ a \in Nodes(t) /\ lo[a] < k /\ (nx[a] # 0 => k <= lo[nx[a]])
  BY DEF Good, OnTheWay
<1>2. /\ i \in 1 .. Len(Kids(t, a)) /\ (i > 1 => Keys(t, a)[i - 1] < k)
      /\ (i < Len(Kids(t, a)) => Keys(t, a)[i] >= k)
      /\ ChildFor(t, a, k) = c
  <2>1. ChildIs(t, a, k, i)
    BY <1>1, FirstIndex
  <2>. HIDE DEF i
  <2>. QED
    BY <2>1 DEF ChildIs
<1>. HIDE DEF i
<1>3. Len(Kids(t, a)) \in Nat /\ c \in Nodes(t) /\ lv[a] = lv[c] + 1 /\ Up(t, c) = a
  <2>1. Len(Kids(t, a)) \in Nat
    BY <1>1, NodeFields
  <2>2. c \in Nodes(t) /\ lv[a] = lv[c] + 1 /\ Up(t, c) = a
    BY <1>1, <1>2 DEF Children
  <2>. QED
    BY <2>1, <2>2
<1>. HIDE DEF c
\* What follows the child.
<1>4. ASSUME nx[c] # 0 PROVE nx[c] \in Nodes(t) /\ nx[c] # c /\ k <= lo[nx[c]] /\ lv[nx[c]] = lv[c]
  <2>1. nx[c] \in Nodes(t) /\ lv[nx[c]] = lv[c]
    BY <1>3, <1>4 DEF Good, Ordered
  <2>2. nx[c] # c
    BY <1>3, NotBeforeItself
  <2>3. nx[c] = IF i < Len(Kids(t, a)) THEN Kids(t, a)[i + 1]
                ELSE IF nx[a] = 0 THEN 0 ELSE Kids(t, nx[a])[1]
    BY <1>1, <1>2 DEF Good, Following, c
  <2>4. CASE i < Len(Kids(t, a))
    <3>1. i + 1 \in 1 .. Len(Kids(t, a)) /\ i + 1 # 1
      BY <1>2, <1>3, <2>4
    <3>2. LoAt(t, lo, a, i + 1) = Keys(t, a)[i]
      BY <1>2, <3>1 DEF LoAt
    <3>3. LoAt(t, lo, a, i + 1) <= lo[Kids(t, a)[i + 1]] /\ LoAt(t, lo, a, i + 1) \in Int
      BY <1>1, <3>1, BoundTypes DEF Bounds
    <3>4. lo[nx[c]] \in Int
      BY <2>1, GhostTypes
    <3>5. k <= lo[nx[c]]
      BY <1>2, <2>3, <2>4, <3>2, <3>3, <3>4
    <3>. QED
      BY <2>1, <2>2, <3>5
  <2>5. CASE ~(i < Len(Kids(t, a)))
    <3>1. nx[a] # 0 /\ nx[c] = Kids(t, nx[a])[1]
      BY <1>4, <2>3, <2>5
    <3>2. nx[a] \in Nodes(t) /\ ~Leaf(t, nx[a])
      BY <1>1, <3>1 DEF Good, Ordered, Levels
    <3>3. Len(Kids(t, nx[a])) \in Nat /\ Len(Kids(t, nx[a])) >= 1
      BY <1>1, <3>2, NodeFields, GhostTypes
    <3>4. 1 \in 1 .. Len(Kids(t, nx[a]))
      BY <3>3
    <3>5. lo[Kids(t, nx[a])[1]] = lo[nx[a]]
      BY <1>1, <3>2, <3>4 DEF Bounds
    <3>. QED
      BY <1>1, <2>1, <2>2, <3>1, <3>5
  <2>. QED
    BY <2>4, <2>5
<1>5. lo[c] \in Int
  BY <1>3, GhostTypes
<1>6. CASE lo[c] < k
  <2>1. OnTheWay(t, lo, nx, k, c)
    BY <1>3, <1>4, <1>6 DEF OnTheWay
  <2>. QED
    BY <1>2, <1>3, <2>1
<1>7. CASE ~(lo[c] < k)
  <2>1. lo[c] >= k
    BY <1>5, <1>7
  <2>2. i # 1
    <3>1. i = 1 => lo[c] = lo[a]
      BY <1>1, <1>2 DEF Bounds, c
    <3>. QED
      BY <1>1, <1>7, <3>1
  <2>3. i > 1 /\ Keys(t, a)[i - 1] < k /\ i - 1 \in 1 .. Len(Kids(t, a)) /\ i - 1 < Len(Kids(t, a)) /\ (i - 1) + 1 = i
    BY <1>2, <1>3, <2>2
  <2>4. ASSUME NEW y \in Nodes(t), nx[y] = c PROVE Top(t, y) < k
    <3> DEFINE d == Kids(t, a)[i - 1]
    <3>1. nx[d] = c /\ d \in Nodes(t)
      <4>1. nx[Kids(t, a)[i - 1]] = IF i - 1 < Len(Kids(t, a)) THEN Kids(t, a)[(i - 1) + 1]
                                    ELSE IF nx[a] = 0 THEN 0 ELSE Kids(t, nx[a])[1]
        BY <1>1, <2>3 DEF Good, Following
      <4>2. d \in Nodes(t)
        BY <1>1, <2>3, GhostTypes
      <4>. QED
        BY <2>3, <4>1, <4>2 DEF c
    <3>2. c # 0
      BY <1>1, <1>3, NodeFields
    <3>3. y = d
      BY <2>4, <3>1, <3>2 DEF Good, Ordered
    <3>4. Top(t, d) <= HiAt(t, a, i - 1)
      <4>1. d # 0
        BY <1>1, <3>1, NodeFields
      <4>. QED
        BY <1>1, <2>3, <4>1 DEF Bounds
    <3>5. HiAt(t, a, i - 1) = Keys(t, a)[i - 1]
      <4>1. Len(Keys(t, a)) = Len(Kids(t, a)) - 1
        BY <1>1, GhostTypes
      <4>2. i - 1 <= Len(Keys(t, a))
        BY <1>2, <1>3, <4>1
      <4>. QED
        BY <4>2 DEF HiAt
    <3>6. HiAt(t, a, i - 1) \in Nat
      BY <1>1, <2>3, BoundTypes
    <3>7. Top(t, d) \in Nat
      BY <1>1, <3>1, NodeFields
    <3>. QED
      BY <2>3, <3>3, <3>4, <3>5, <3>6, <3>7
  <2>5. ASSUME NEW x \in Nodes(t), ~Leaf(t, x), NEW j \in 1 .. Len(Kids(t, x)), Kids(t, x)[j] = c
        PROVE  x = a /\ j = i
    <3>1. Up(t, c) = x
      BY <2>5, GhostTypes
    <3>2. x = a
      BY <1>3, <3>1
    <3>. QED
      BY <1>1, <1>2, <2>5, <3>2 DEF Arrays, c
  <2>6. ASSUME NEW x \in Nodes(t), ~Leaf(t, x)
        PROVE  /\ Kids(t, x)[1] # c
               /\ \A j \in 2 .. Len(Kids(t, x)) : Kids(t, x)[j] = c => Keys(t, x)[j - 1] < k
    <3>1. Len(Kids(t, x)) \in Nat /\ Len(Kids(t, x)) >= 1
      BY <1>1, <2>6, NodeFields, GhostTypes
    <3>2. 1 \in 1 .. Len(Kids(t, x)) /\ \A j \in 2 .. Len(Kids(t, x)) : j \in 1 .. Len(Kids(t, x))
      BY <3>1
    <3>3. Kids(t, x)[1] # c
      BY <2>2, <2>5, <2>6, <3>2
    <3>4. ASSUME NEW j \in 2 .. Len(Kids(t, x)), Kids(t, x)[j] = c PROVE Keys(t, x)[j - 1] < k
      <4>1. x = a /\ j = i
        BY <2>5, <2>6, <3>2, <3>4
      <4>. QED
        BY <2>3, <4>1
    <3>. QED
      BY <3>3, <3>4
  <2>7. PICK lo2 : /\ Good(t, lv, lo2, nx, loose, 0) /\ lo2[c] = k - 1
                   /\ \A x \in Nodes(t) : lv[x] >= lv[c] /\ x # c => lo2[x] = lo[x]
    <3>1. \A y \in Nodes(t) : nx[y] = c => Top(t, y) < k
      BY <2>4
    <3>2. \A x \in Nodes(t) : ~Leaf(t, x) => Kids(t, x)[1] # c
      BY <2>6
    <3>3. \A x \in Nodes(t) : ~Leaf(t, x) => \A j \in 2 .. Len(Kids(t, x)) :
            Kids(t, x)[j] = c => Keys(t, x)[j - 1] < k
      BY <2>6
    <3>. QED
      BY <1>3, <2>1, <3>1, <3>2, <3>3, LowerNode
  <2>8. ASSUME nx[c] # 0 PROVE k <= lo2[nx[c]]
    <3>1. lv[c] \in Nat
      BY <1>1, <1>3 DEF Levels
    <3>2. lo2[nx[c]] = lo[nx[c]]
      BY <1>4, <2>7, <2>8, <3>1
    <3>. QED
      BY <1>4, <2>8, <3>2
  <2>9. OnTheWay(t, lo2, nx, k, c)
    BY <1>3, <2>7, <2>8 DEF OnTheWay
  <2>. QED
    BY <1>2, <1>3, <2>7, <2>9
<1>. QED
  BY <1>6, <1>7

\* The search ends at a leaf, on the way.
LEMMA FoundLeaf ==
  ASSUME NEW t, NEW lv, NEW lo, NEW nx, NEW loose, Good(t, lv, lo, nx, loose, 0), NEW k \in Nat
  PROVE  /\ Leaf(t, FindLeaf(t, k)) /\ FindLeaf(t, k) \in Nodes(t)
         /\ \E lo2 : Good(t, lv, lo2, nx, loose, 0) /\ OnTheWay(t, lo2, nx, k, FindLeaf(t, k))
<1> DEFINE n == Cardinality(DOMAIN t.node)
<1>1. Typed(t) /\ Arrays(t) /\ Parents(t) /\ Levels(t, lv) /\ Children(t, lv)
  BY DEF Good
<1>2. n \in Nat /\ lv[t.root] \in Nat /\ lv[t.root] < n
  BY <1>1, Height DEF Nodes
<1>3. PICK f : /\ FindLeaf(t, k) = f[n]
               /\ f = [i \in 0 .. n |-> f[i]] /\ f[0] = t.root
               /\ \A i \in 1 .. n : f[i] = ChildFor(t, f[i - 1], k)
  BY <1>2, FindLeafRuns
<1>. HIDE DEF n
<1> DEFINE Way(i) == /\ \E lo2 : Good(t, lv, lo2, nx, loose, 0) /\ OnTheWay(t, lo2, nx, k, f[i])
                     /\ Leaf(t, f[i]) \/ lv[f[i]] + i = lv[t.root]
           T == {i \in 0 .. n : Way(i)}
<1>4. 0 \in T
  BY <1>2, <1>3, WayFromRoot
<1>5. ASSUME NEW i \in 1 .. n, i - 1 \in T PROVE i \in T
  <2> DEFINE a == f[i - 1]
  <2>1. PICK lo1 : Good(t, lv, lo1, nx, loose, 0) /\ OnTheWay(t, lo1, nx, k, a)
    BY <1>5
  <2>2. Leaf(t, a) \/ lv[a] + (i - 1) = lv[t.root]
    BY <1>5
  <2>3. f[i] = ChildFor(t, a, k)
    BY <1>3
  <2>. HIDE DEF a
  <2>4. CASE Leaf(t, a)
    <3>1. f[i] = a
      BY <2>3, <2>4 DEF ChildFor, Leaf
    <3>. QED
      BY <2>1, <2>4, <3>1
  <2>5. CASE ~Leaf(t, a)
    <3>1. PICK lo2 : /\ Good(t, lv, lo2, nx, loose, 0) /\ OnTheWay(t, lo2, nx, k, f[i])
                     /\ lv[a] = lv[f[i]] + 1
      BY <2>1, <2>3, <2>5, WayDown
    <3>2. lv[f[i]] \in Nat
      BY <1>1, <3>1 DEF OnTheWay, Levels
    <3>3. lv[f[i]] + i = lv[t.root]
      BY <2>2, <2>5, <3>1, <3>2
    <3>. QED
      BY <3>1, <3>3
  <2>. QED
    BY <2>4, <2>5
<1>6. 0 .. n \subseteq T
  <2>1. \A i \in 1 .. n : i - 1 \in T => i \in T
    BY <1>5
  <2>. HIDE DEF T
  <2>. QED
    BY <1>2, <1>4, <2>1, CountingUpTo
<1>7. Way(n)
  BY <1>2, <1>6
<1>8. f[n] \in Nodes(t)
  BY <1>7 DEF OnTheWay
<1>9. Leaf(t, f[n])
  <2>1. lv[f[n]] \in Nat
    BY <1>1, <1>8 DEF Levels
  <2>. QED
    BY <1>2, <1>7, <2>1
<1>. QED
  BY <1>3, <1>7, <1>8, <1>9

\* A key within a leaf's bounds leads to it.
LEMMA SearchLands ==
  ASSUME NEW t, NEW lv, NEW lo, NEW nx, NEW loose, Good(t, lv, lo, nx, loose, 0), NEW k \in Nat,
         NEW b \in Nodes(t), Leaf(t, b), lo[b] < k, k <= Top(t, b)
  PROVE  FindLeaf(t, k) = b
<1> DEFINE n == Cardinality(DOMAIN t.node)
           h == lv[t.root]
<1>1. Typed(t) /\ Arrays(t) /\ Parents(t) /\ Levels(t, lv) /\ Children(t, lv) /\ Bounds(t, lo, 0)
      /\ Filed(t, lo) /\ t.root \in Nodes(t)
  BY DEF Good, Typed
<1>2. n \in Nat /\ h \in Nat /\ h < n /\ \A x \in Nodes(t) : lv[x] <= h /\ lv[x] \in Nat
  BY <1>1, Height DEF Nodes, Levels
<1>3. PICK f : /\ FindLeaf(t, k) = f[n]
               /\ f = [i \in 0 .. n |-> f[i]] /\ f[0] = t.root
               /\ \A i \in 1 .. n : f[i] = ChildFor(t, f[i - 1], k)
  BY <1>2, FindLeafRuns
<1>4. PICK g : /\ Ancestors(t, b) = g
               /\ g = [i \in 0 .. n |-> g[i]] /\ g[0] = b
               /\ \A i \in 1 .. n : g[i] = (IF g[i - 1] = 0 THEN 0 ELSE t.node[g[i - 1]].parent)
  BY <1>2, AncestorsRun
<1>. HIDE DEF n, h
<1> DEFINE Above(j) == g[j] \in Nodes(t) /\ lv[g[j]] = j /\ lo[g[j]] < k /\ k <= Top(t, g[j])
           U == {j \in 0 .. h : Above(j)}
<1>5. ASSUME NEW x \in Nodes(t), x # t.root
      PROVE  /\ Up(t, x) \in Nodes(t) /\ ~Leaf(t, Up(t, x)) /\ lv[Up(t, x)] = lv[x] + 1
             /\ lo[Up(t, x)] <= lo[x] /\ Top(t, x) <= Top(t, Up(t, x))
             /\ lo[x] < k /\ k <= Top(t, x) => ChildFor(t, Up(t, x), k) = x
  <2> DEFINE p == Up(t, x)
             m == Position(Kids(t, p), x)
             i == FirstNotBelow(Keys(t, p), k)
  <2>1. p \in Nodes(t) /\ ~Leaf(t, p) /\ lv[p] = lv[x] + 1 /\ m \in 1 .. Len(Kids(t, p)) /\ Kids(t, p)[m] = x
    BY <1>1, <1>5, ParentOf
  <2>. HIDE DEF p, m
  <2>2. x # 0
    BY <1>1, NodeFields
  <2>3. /\ lo[p] <= LoAt(t, lo, p, m) /\ LoAt(t, lo, p, m) <= lo[x]
        /\ Top(t, x) <= HiAt(t, p, m) /\ HiAt(t, p, m) <= Top(t, p)
    BY <1>1, <2>1, <2>2 DEF Bounds
  <2>4. LoAt(t, lo, p, m) \in Int /\ HiAt(t, p, m) \in Nat
    BY <2>1, BoundTypes
  <2>5. lo[x] \in Int /\ lo[p] \in Int /\ Top(t, x) \in Nat /\ Top(t, p) \in Nat
    BY <1>1, <2>1, GhostTypes, NodeFields
  <2>6. ASSUME lo[x] < k, k <= Top(t, x) PROVE ChildFor(t, p, k) = x
    <3>1. /\ i \in 1 .. Len(Kids(t, p)) /\ (i > 1 => Keys(t, p)[i - 1] < k)
          /\ (i < Len(Kids(t, p)) => Keys(t, p)[i] >= k)
          /\ ChildFor(t, p, k) = Kids(t, p)[i]
      <4>1. ChildIs(t, p, k, i)
        BY <2>1, FirstIndex
      <4>. HIDE DEF i
      <4>. QED
        BY <4>1 DEF ChildIs
    <3>. HIDE DEF i
    <3>2. Len(Keys(t, p)) = Len(Kids(t, p)) - 1 /\ Len(Kids(t, p)) \in Nat
      BY <1>1, <2>1, NodeFields, GhostTypes
    <3>3. \A j, l \in 1 .. Len(Keys(t, p)) : j < l => Keys(t, p)[j] < Keys(t, p)[l]
      <4>1. \A j \in 1 .. Len(Keys(t, p)) : Kids(t, p)[j] # 0
        <5>1. \A j \in 1 .. Len(Keys(t, p)) : j \in 1 .. Len(Kids(t, p))
          BY <3>2
        <5>2. \A j \in 1 .. Len(Kids(t, p)) : Kids(t, p)[j] \in Nat \ {0}
          BY <1>1, <2>1, NodeFields
        <5>. QED
          BY <5>1, <5>2
      <4>. QED
        BY <1>1, <2>1, <4>1, KeysAscend
    <3>4. \A j \in 1 .. Len(Keys(t, p)) : Keys(t, p)[j] \in Nat
      BY <1>1, <2>1, NodeFields
    <3>5. ~(i < m)
      <4>1. ASSUME i < m PROVE FALSE
        <5>1. i \in 1 .. Len(Keys(t, p)) /\ m - 1 \in 1 .. Len(Keys(t, p)) /\ i <= m - 1 /\ m # 1 /\ i < Len(Kids(t, p))
          BY <2>1, <3>1, <3>2, <4>1
        <5>2. Keys(t, p)[i] <= Keys(t, p)[m - 1]
          <6>1. CASE i = m - 1
            BY <3>4, <5>1, <6>1
          <6>2. CASE i < m - 1
            <7>1. Keys(t, p)[i] < Keys(t, p)[m - 1]
              BY <3>3, <5>1, <6>2
            <7>. QED
              BY <3>4, <5>1, <7>1
          <6>. QED
            BY <2>1, <5>1, <6>1, <6>2
        <5>3. LoAt(t, lo, p, m) = Keys(t, p)[m - 1]
          BY <5>1 DEF LoAt
        <5>4. Keys(t, p)[i] \in Nat /\ Keys(t, p)[m - 1] \in Nat
          BY <3>4, <5>1
        <5>. QED
          BY <2>3, <2>4, <2>5, <2>6, <3>1, <5>1, <5>2, <5>3, <5>4
      <4>. QED
        BY <4>1
    <3>6. ~(i > m)
      <4>1. ASSUME i > m PROVE FALSE
        <5>1. i - 1 \in 1 .. Len(Keys(t, p)) /\ m \in 1 .. Len(Keys(t, p)) /\ m <= i - 1 /\ i > 1
          BY <2>1, <3>1, <3>2, <4>1
        <5>2. Keys(t, p)[m] <= Keys(t, p)[i - 1]
          <6>1. CASE m = i - 1
            BY <3>4, <5>1, <6>1
          <6>2. CASE m < i - 1
            <7>1. Keys(t, p)[m] < Keys(t, p)[i - 1]
              BY <3>3, <5>1, <6>2
            <7>. QED
              BY <3>4, <5>1, <7>1
          <6>. QED
            BY <2>1, <3>1, <5>1, <6>1, <6>2
        <5>3. HiAt(t, p, m) = Keys(t, p)[m]
          BY <5>1 DEF HiAt
        <5>4. Keys(t, p)[m] \in Nat /\ Keys(t, p)[i - 1] \in Nat
          BY <3>4, <5>1
        <5>. QED
          BY <2>3, <2>4, <2>5, <2>6, <3>1, <5>1, <5>2, <5>3, <5>4
      <4>. QED
        BY <4>1
    <3>7. i = m
      BY <2>1, <3>1, <3>5, <3>6
    <3>. QED
      BY <2>1, <3>1, <3>7
  <2>7. lo[p] <= lo[x] /\ Top(t, x) <= Top(t, p)
    BY <2>3, <2>4, <2>5
  <2>. QED
    BY <2>1, <2>6, <2>7 DEF p
<1>6. 0 \in U
  <2>1. lv[b] = 0
    BY <1>1 DEF Levels
  <2>. QED
    BY <1>2, <1>4, <2>1
<1>7. ASSUME NEW j \in 1 .. h, j - 1 \in U
      PROVE  /\ j \in U /\ g[j - 1] # t.root /\ Up(t, g[j - 1]) = g[j] /\ g[j - 1] \in Nodes(t)
  <2> DEFINE x == g[j - 1]
  <2>1. x \in Nodes(t) /\ lv[x] = j - 1 /\ lo[x] < k /\ k <= Top(t, x)
    BY <1>7
  <2>2. g[j] = Up(t, x)
    <3>1. j \in 1 .. n
      BY <1>2
    <3>2. x # 0
      BY <1>1, <2>1, NodeFields
    <3>3. g[j] = (IF x = 0 THEN 0 ELSE t.node[x].parent)
      BY <1>4, <3>1
    <3>. QED
      BY <3>2, <3>3 DEF Up
  <2>. HIDE DEF x
  <2>3. x # t.root
    BY <1>2, <2>1 DEF h
  <2>4. /\ Up(t, x) \in Nodes(t) /\ lv[Up(t, x)] = lv[x] + 1
        /\ lo[Up(t, x)] <= lo[x] /\ Top(t, x) <= Top(t, Up(t, x))
    BY <1>5, <2>1, <2>3
  <2>5. lo[x] \in Int /\ lo[Up(t, x)] \in Int /\ Top(t, x) \in Nat /\ Top(t, Up(t, x)) \in Nat
    BY <1>1, <2>1, <2>4, GhostTypes, NodeFields
  <2>6. lo[g[j]] < k /\ k <= Top(t, g[j]) /\ g[j] \in Nodes(t) /\ lv[g[j]] = j
    BY <2>1, <2>2, <2>4, <2>5
  <2>. QED
    BY <2>1, <2>2, <2>3, <2>6 DEF x
<1>8. 0 .. h \subseteq U
  <2>1. \A j \in 1 .. h : j - 1 \in U => j \in U
    BY <1>7
  <2>. HIDE DEF U
  <2>. QED
    BY <1>2, <1>6, <2>1, CountingUpTo
<1>9. \A j \in 0 .. h : Above(j)
  BY <1>8
<1>10. \A j \in 1 .. h : g[j - 1] # t.root /\ Up(t, g[j - 1]) = g[j] /\ g[j - 1] \in Nodes(t)
  <2>1. \A j \in 1 .. h : j - 1 \in 0 .. h
    BY <1>2
  <2>. HIDE DEF U
  <2>. QED
    BY <1>7, <1>8, <2>1
<1>. HIDE DEF U
<1>11. g[h] = t.root
  <2>1. g[h] \in Nodes(t) /\ lv[g[h]] = h
    BY <1>2, <1>9
  <2>2. ASSUME g[h] # t.root PROVE FALSE
    <3>1. Up(t, g[h]) \in Nodes(t) /\ lv[Up(t, g[h])] = h + 1
      BY <1>5, <2>1, <2>2
    <3>. QED
      BY <1>2, <3>1
  <2>. QED
    BY <2>2
<1> DEFINE V == {i \in 0 .. n : f[i] = IF i <= h THEN g[h - i] ELSE b}
<1>12. 0 \in V
  BY <1>2, <1>3, <1>11
<1>13. ASSUME NEW i \in 1 .. n, i - 1 \in V PROVE i \in V
  <2>1. f[i] = ChildFor(t, f[i - 1], k)
    BY <1>3
  <2>2. CASE i <= h
    <3>1. f[i - 1] = g[h - (i - 1)]
      BY <1>2, <1>13, <2>2
    <3>2. h - (i - 1) \in 1 .. h /\ (h - (i - 1)) - 1 = h - i /\ h - i \in 0 .. h
      BY <1>2, <2>2
    <3>3. g[h - i] # t.root /\ Up(t, g[h - i]) = g[h - (i - 1)] /\ g[h - i] \in Nodes(t)
      BY <1>10, <3>2
    <3>4. lo[g[h - i]] < k /\ k <= Top(t, g[h - i])
      BY <1>9, <3>2
    <3>5. ChildFor(t, Up(t, g[h - i]), k) = g[h - i]
      BY <1>5, <3>3, <3>4
    <3>. QED
      BY <2>1, <2>2, <3>1, <3>3, <3>5
  <2>3. CASE ~(i <= h)
    <3>1. f[i - 1] = b
      BY <1>2, <1>4, <1>13, <2>3
    <3>2. ChildFor(t, b, k) = b
      BY DEF ChildFor, Leaf
    <3>. QED
      BY <2>1, <2>3, <3>1, <3>2
  <2>. QED
    BY <2>2, <2>3
<1>14. 0 .. n \subseteq V
  <2>1. \A i \in 1 .. n : i - 1 \in V => i \in V
    BY <1>13
  <2>. HIDE DEF V
  <2>. QED
    BY <1>2, <1>12, <2>1, CountingUpTo
<1>15. f[n] = b
  BY <1>2, <1>14
<1>. QED
  BY <1>3, <1>15
=============================================================================
