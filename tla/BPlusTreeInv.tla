----------------------------- MODULE BPlusTreeInv ----------------------------
(***************************************************************************)
(* The inductive invariant of BPlusTree.  Three functions on the nodes say *)
(* what their fields leave open: lv is a node's height over the leaves,    *)
(* its keys lie above lo (and at most at its max), and nx is the node that *)
(* follows it at its height, for a leaf its next.                          *)
(***************************************************************************)
EXTENDS BPlusTree, Integers

Nodes(t) == DOMAIN t.node
Leaf(t, a) == t.node[a].leaf
Kids(t, a) == t.node[a].kids
Keys(t, a) == t.node[a].keys
Top(t, a) == t.node[a].max
Up(t, a) == t.node[a].parent

\* The bounds of what is filed at i in the node at a: above LoAt, at most HiAt.
LoAt(t, lo, a, i) == IF i = 1 THEN lo[a] ELSE Keys(t, a)[i - 1]
HiAt(t, a, i) == IF i <= Len(Keys(t, a)) THEN Keys(t, a)[i] ELSE Top(t, a)

NodeType == [leaf : BOOLEAN, kids : Seq(Nat \ {0}), keys : Seq(Key), max : Key,
             parent : Nat, prev : Nat, next : Nat]

\* A page: room by key.
PageType(p) == /\ p = [k \in DOMAIN p |-> p[k]] /\ IsFiniteSet(DOMAIN p)
               /\ DOMAIN p \subseteq Key /\ \A k \in DOMAIN p : p[k] \in Size

Formed(t) == t = [root |-> t.root, node |-> t.node, page |-> t.page]

Typed(t) ==
  /\ Formed(t)
  /\ t.node \in [Nodes(t) -> NodeType]
  /\ t.page = [pg \in DOMAIN t.page |-> t.page[pg]]
  /\ t.root \in Nodes(t)
  /\ IsFiniteSet(Nodes(t)) /\ Nodes(t) \subseteq Nat \ {0}
  /\ IsFiniteSet(DOMAIN t.page) /\ DOMAIN t.page \subseteq Nat \ {0}
  /\ \A pg \in DOMAIN t.page : PageType(t.page[pg])

\* The arrays of a node: as many keys as pages, one less than children, and
\* none of them twice.
Arrays(t) ==
  \A a \in Nodes(t) :
    /\ Len(Kids(t, a)) >= 1
    /\ Len(Keys(t, a)) = IF Leaf(t, a) THEN Len(Kids(t, a)) ELSE Len(Kids(t, a)) - 1
    /\ \A i, j \in 1 .. Len(Kids(t, a)) : Kids(t, a)[i] = Kids(t, a)[j] => i = j

\* Every node but the root is a child of its parent.
Parents(t) ==
  /\ Up(t, t.root) = 0
  /\ \A a \in Nodes(t) \ {t.root} :
       /\ Up(t, a) \in Nodes(t) /\ ~Leaf(t, Up(t, a))
       /\ \E i \in 1 .. Len(Kids(t, Up(t, a))) : Kids(t, Up(t, a))[i] = a

\* A child names its parent and is one level lower.
Children(t, lv) ==
  \A a \in Nodes(t) : ~Leaf(t, a) => \A i \in 1 .. Len(Kids(t, a)) :
    LET c == Kids(t, a)[i] IN
    c \in Nodes(t) /\ Up(t, c) = a /\ lv[a] = lv[c] + 1

Levels(t, lv) == \A a \in Nodes(t) : lv[a] \in Nat /\ (Leaf(t, a) <=> lv[a] = 0)

\* The bounds of a child are within those its parent has for it; the node at
\* over may have outgrown its parent's.
Bounds(t, lo, over) ==
  \A a \in Nodes(t) :
    /\ lo[a] \in Int /\ lo[a] >= -1 /\ lo[a] < Top(t, a)
    /\ ~Leaf(t, a) => \A i \in 1 .. Len(Kids(t, a)) :
         LET c == Kids(t, a)[i] IN
         /\ lo[a] <= LoAt(t, lo, a, i) /\ LoAt(t, lo, a, i) <= lo[c]
         /\ c # over => Top(t, c) <= HiAt(t, a, i)
         /\ HiAt(t, a, i) <= Top(t, a)
         /\ i = 1 => lo[c] = lo[a]

\* The keys of a leaf ascend, and each page's keys are between them.
Filed(t, lo) ==
  \A a \in Nodes(t) : Leaf(t, a) => \A i \in 1 .. Len(Kids(t, a)) :
    LET pg == Kids(t, a)[i] IN
    /\ pg \in DOMAIN t.page
    /\ LoAt(t, lo, a, i) < Keys(t, a)[i] /\ Keys(t, a)[i] <= Top(t, a)
    /\ \A k \in DOMAIN t.page[pg] : LoAt(t, lo, a, i) < k /\ k <= Keys(t, a)[i]

\* A child is followed by the next child of its parent, the last by the first
\* child of the node that follows the parent.
Following(t, nx) ==
  \A a \in Nodes(t) : ~Leaf(t, a) => \A i \in 1 .. Len(Kids(t, a)) :
    nx[Kids(t, a)[i]] = IF i < Len(Kids(t, a)) THEN Kids(t, a)[i + 1]
                        ELSE IF nx[a] = 0 THEN 0 ELSE Kids(t, nx[a])[1]

\* What follows a node is at its height, above it, and follows no other.
Ordered(t, lv, lo, nx) ==
  /\ nx[t.root] = 0
  /\ \A a \in Nodes(t) : nx[a] # 0 =>
       /\ nx[a] \in Nodes(t) /\ lv[nx[a]] = lv[a] /\ Top(t, a) <= lo[nx[a]]
       /\ \A b \in Nodes(t) : nx[b] = nx[a] => b = a

\* The links of the leaves; other nodes have none.
Linked(t, nx) ==
  \A a \in Nodes(t) : LET n == t.node[a] IN
    IF n.leaf
    THEN /\ n.next = nx[a]
         /\ nx[a] # 0 => t.node[nx[a]].prev = a
         /\ n.prev # 0 => n.prev \in Nodes(t) /\ nx[n.prev] = a
    ELSE n.next = 0 /\ n.prev = 0

\* A page is in one place of one leaf; one in loose is not filed (yet).
Placed(t, loose) ==
  /\ \A a, b \in Nodes(t) : Leaf(t, a) /\ Leaf(t, b) =>
       \A i \in 1 .. Len(Kids(t, a)), j \in 1 .. Len(Kids(t, b)) :
         Kids(t, a)[i] = Kids(t, b)[j] => a = b
  /\ \A pg \in DOMAIN t.page :
       (\E a \in Nodes(t) : Leaf(t, a) /\ \E i \in 1 .. Len(Kids(t, a)) : Kids(t, a)[i] = pg)
         <=> pg \notin loose

Good(t, lv, lo, nx, loose, over) ==
  /\ Typed(t) /\ Arrays(t) /\ Parents(t) /\ Levels(t, lv) /\ Children(t, lv)
  /\ Bounds(t, lo, over) /\ Filed(t, lo) /\ Following(t, nx)
  /\ Ordered(t, lv, lo, nx) /\ Linked(t, nx) /\ Placed(t, loose)

\* The nodes of v are those of t but for their keys and bounds.
Alike(t, v) ==
  /\ v.root = t.root /\ v.page = t.page /\ Nodes(v) = Nodes(t)
  /\ \A a \in Nodes(t) :
       /\ Leaf(v, a) = Leaf(t, a) /\ Kids(v, a) = Kids(t, a) /\ Up(v, a) = Up(t, a)
       /\ v.node[a].prev = t.node[a].prev /\ v.node[a].next = t.node[a].next
       /\ Len(Keys(v, a)) = Len(Keys(t, a))

\* All nodes but the one at p are the same, and that one has other keys.
SameBut(t, v, p) ==
  Typed(v) /\ Alike(t, v) /\ \A a \in Nodes(t) : a # p => v.node[a] = t.node[a]

ChildAt(t, p, i, a) == i \in 1 .. Len(Kids(t, p)) /\ Kids(t, p)[i] = a

\* Its i-th key is k, or its largest.
KeyAt(t, v, p, i, k) ==
  /\ Top(v, p) = Top(t, p)
  /\ \A j \in 1 .. Len(Keys(t, p)) : Keys(v, p)[j] = IF j = i THEN k ELSE Keys(t, p)[j]

TopIs(t, v, p, k) == Top(v, p) = k /\ Keys(v, p) = Keys(t, p)

\* Two trees, w and u, that differ in one node: the children the node at a has
\* in w after its c-th are in u those of a node at b, which follows it as child
\* i + 1 of their parent, at p, with s for a separator.
Apart(w, u, p, i, a, b, c) ==
  /\ Typed(w) /\ Typed(u) /\ u.root = w.root /\ u.page = w.page
  /\ b \in Nodes(u) /\ b \notin Nodes(w) /\ Nodes(u) = Nodes(w) \union {b}
  /\ a \in Nodes(w) /\ p \in Nodes(w) /\ a # p /\ ~Leaf(w, p)
  /\ ChildAt(w, p, i, a) /\ c \in 1 .. (Len(Kids(w, a)) - 1)
  /\ Leaf(u, b) = Leaf(w, a)
  /\ \A x \in Nodes(w) :
       /\ Leaf(u, x) = Leaf(w, x)
       /\ x # a /\ x # p => Kids(u, x) = Kids(w, x) /\ Keys(u, x) = Keys(w, x) /\ Top(u, x) = Top(w, x)

KidsApart(w, u, p, i, a, b, c) ==
  /\ Len(Kids(u, a)) = c /\ Len(Kids(u, b)) = Len(Kids(w, a)) - c
  /\ \A j \in 1 .. c : Kids(u, a)[j] = Kids(w, a)[j]
  /\ \A j \in 1 .. (Len(Kids(w, a)) - c) : Kids(u, b)[j] = Kids(w, a)[c + j]
  /\ Len(Kids(u, p)) = Len(Kids(w, p)) + 1
  /\ \A j \in 1 .. (Len(Kids(w, p)) + 1) :
       Kids(u, p)[j] = IF j <= i THEN Kids(w, p)[j] ELSE IF j = i + 1 THEN b ELSE Kids(w, p)[j - 1]

KeysApart(w, u, p, i, a, b, c, s) ==
  /\ Len(Keys(u, a)) = (IF Leaf(w, a) THEN c ELSE c - 1) /\ Len(Keys(u, b)) = Len(Keys(w, a)) - c
  /\ \A j \in 1 .. Len(Keys(u, a)) : Keys(u, a)[j] = Keys(w, a)[j]
  /\ \A j \in 1 .. (Len(Keys(w, a)) - c) : Keys(u, b)[j] = Keys(w, a)[c + j]
  /\ ~Leaf(w, a) => Keys(w, a)[c] = s
  /\ Len(Keys(u, p)) = Len(Keys(w, p)) + 1
  /\ \A j \in 1 .. (Len(Keys(w, p)) + 1) :
       Keys(u, p)[j] = IF j < i THEN Keys(w, p)[j] ELSE IF j = i THEN s ELSE Keys(w, p)[j - 1]
  /\ Top(u, p) = Top(w, p) /\ Top(u, b) = Top(w, a)

UpsApart(w, u, p, a, b, c) ==
  /\ Up(u, b) = p
  /\ ~Leaf(w, a) => \A j \in (c + 1) .. Len(Kids(w, a)) : Up(u, Kids(w, a)[j]) = b
  /\ \A x \in Nodes(w) :
       Leaf(w, a) \/ (\A j \in (c + 1) .. Len(Kids(w, a)) : Kids(w, a)[j] # x) => Up(u, x) = Up(w, x)

LinksApart(w, u, a, b) ==
  /\ u.node[a].prev = w.node[a].prev
  /\ \A x \in Nodes(w) : x # a => u.node[x].next = w.node[x].next
  /\ u.node[b].next = w.node[a].next
  /\ IF Leaf(w, a)
     THEN /\ u.node[a].next = b /\ u.node[b].prev = a
          /\ \A x \in Nodes(w) : x # a =>
               u.node[x].prev = IF x = w.node[a].next THEN b ELSE w.node[x].prev
     ELSE /\ u.node[a].next = w.node[a].next /\ u.node[b].prev = 0
          /\ \A x \in Nodes(w) : u.node[x].prev = w.node[x].prev

\* What is left below the cut is within s, what is above it over s.
CutAt(w, u, lo, lo2, a, b, c, s) ==
  /\ \A x \in Nodes(w) : lo2[x] = lo[x]
  /\ s \in Nat /\ Top(u, a) <= s
  /\ IF Leaf(w, a) THEN Keys(w, a)[c] = s /\ Top(u, a) = s /\ lo2[b] = s
     ELSE Top(w, Kids(w, a)[c]) <= Top(u, a) /\ lo2[b] = lo[Kids(w, a)[c + 1]]

\* The room in nodes; the node at "but" may have one child less than half.
Roomy(t, but) ==
  \A a \in Nodes(t) :
    /\ Len(Kids(t, a)) <= M
    /\ a # t.root => Len(Kids(t, a)) >= IF a = but THEN HalfM - 1 ELSE HalfM
    /\ a = t.root /\ ~Leaf(t, a) => Len(Kids(t, a)) >= IF a = but THEN 1 ELSE 2
=============================================================================
