------------------------------ MODULE BPlusTree -----------------------------
(***************************************************************************)
(* The B+ tree of one table: insertRecord, updateRecord and deleteRecord   *)
(* (bplus.c), with the splitting, borrowing and merging of nodes and the   *)
(* splitting of pages under them.  A call is one step: it runs inside one  *)
(* statement, and what a failed statement undoes is in TableStore.         *)
(*                                                                         *)
(* The code edits private copies of nodes (readNode copies out, markNode   *)
(* copies in), and a copy can be older than the node.  So an operator here *)
(* takes the tree and the caller's copy n of the node at address a, which  *)
(* may differ from tree.node[a], and reads every other node where the code *)
(* does.                                                                   *)
(*                                                                         *)
(* Simplifications: the arrays of a node are sequences as long as its      *)
(* childCount; a page is the sizes of its records by key (its slots are    *)
(* sorted), and a record is its size; a binary search is the first key not *)
(* below the one sought; an address is reused once its object was deleted  *)
(* (in the file it never is: the object stays there, marked as garbage).   *)
(***************************************************************************)
EXTENDS Naturals, SequencesExt

CONSTANTS
  Key,       \* ordering keys, numbers from 0, the smallest of their type
  Size,      \* room a record can take in a page (SPRecordBytes)
  Capacity,  \* room in a page (pageCapacity)
  M          \* most children a node can have (M_GLOBAL)

ASSUME KeyAssumption == Key \subseteq Nat /\ 0 \in Key
ASSUME SizeAssumption == Size \subseteq Nat \ {0}
ASSUME OrderAssumption == Capacity \in Nat /\ M \in Nat /\ M >= 4

VARIABLE tree   \* the root's address, the nodes and the pages

HalfM == M \div 2

-----------------------------------------------------------------------------

\* The lowest number from 1 that is not in S: a free address.
FreeAddress(S) ==
  CHOOSE a \in 1 .. (Cardinality(S) + 1) : a \notin S /\ 1 .. (a - 1) \subseteq S

\* The function f, but with v at x.
With(f, x, v) == [y \in DOMAIN f \union {x} |-> IF y = x THEN v ELSE f[y]]

MarkNode(t, a, n) == [t EXCEPT !.node = With(@, a, n)]

MarkPage(t, a, p) == [t EXCEPT !.page = With(@, a, p)]

DeleteNode(t, a) == [t EXCEPT !.node = Restrict(@, DOMAIN @ \ {a})]

DeletePageObject(t, a) == [t EXCEPT !.page = Restrict(@, DOMAIN @ \ {a})]

\* Variant: moved children keep the parent they had.
AdoptNone(t, A, a) == t

\* The nodes at addresses A get a as their parent.
Adopt(t, A, a) ==
  [t EXCEPT !.node = [b \in DOMAIN @ |->
     IF b \in A THEN [@[b] EXCEPT !.parent = a] ELSE @[b]]]

\* Where e is in sequence s, or 0.
Position(s, e) == IF e \in ToSet(s) THEN CHOOSE i \in DOMAIN s : s[i] = e ELSE 0

\* The first index of keys whose key is above k, or at least k; or one past.
FirstAbove(keys, k) ==
  Min({i \in DOMAIN keys : keys[i] > k} \union {Len(keys) + 1})

FirstNotBelow(keys, k) ==
  Min({i \in DOMAIN keys : keys[i] >= k} \union {Len(keys) + 1})

\* What s becomes in n rounds: a loop, or a climb through a tree of n nodes.
Rounds(Round(_), s, n) ==
  LET after[i \in 0 .. n] == IF i = 0 THEN s ELSE Round(after[i - 1])
  IN  after[n]

IsRoot(n) == n.parent = 0

IsFull(n) == Len(n.kids) >= M

\* newTree: one leaf and one empty page, filed under the smallest key.
NewTree ==
  [root |-> 1,
   node |-> [a \in {1} |-> [leaf |-> TRUE, kids |-> <<1>>, keys |-> <<0>>, max |-> 0,
                            parent |-> 0, prev |-> 0, next |-> 0]],
   page |-> [pg \in {1} |-> <<>>]]

Init == tree = NewTree

-----------------------------------------------------------------------------
(***************************************************************************)
(* Finding a key's page.                                                   *)
(***************************************************************************)
\* One step down from the node at a: a key above every key goes to the last
\* child.
ChildFor(t, a, k) ==
  LET n == t.node[a] IN IF n.leaf THEN a ELSE n.kids[FirstNotBelow(n.keys, k)]

FindLeaf(t, k) ==
  Rounds(LAMBDA a : ChildFor(t, a, k), t.root, Cardinality(DOMAIN t.node))

\* Variant: the binary search takes an equal key for a smaller one.
FindPageAbove(t, k) ==
  LET n == t.node[FindLeaf(t, k)]
      i == FirstAbove(n.keys, k)
  IN  IF i > Len(n.kids) THEN 0 ELSE n.kids[i]

\* findPage: 0 if k is above every key in the tree.
FindPage(t, k) ==
  LET n == t.node[FindLeaf(t, k)]
      i == FirstNotBelow(n.keys, k)
  IN  IF i > Len(n.kids) THEN 0 ELSE n.kids[i]

-----------------------------------------------------------------------------
(***************************************************************************)
(* Insertion into nodes.                                                   *)
(***************************************************************************)
\* The node at s.at has a new largest key: its parent's separator for it, or
\* the parent's own largest key.  At 0 there is no more to do.
RaiseParent(s, k) ==
  LET up == s.tree.node[s.at].parent
      p  == s.tree.node[up]
      i  == Position(p.kids, s.at)
  IN  IF s.at = 0 \/ up = 0 \/ i = 0 THEN [s EXCEPT !.at = 0]
      ELSE IF i < Len(p.kids)
      THEN [tree |-> MarkNode(s.tree, up, [p EXCEPT !.keys[i] = k]), at |-> 0]
      ELSE [tree |-> MarkNode(s.tree, up, [p EXCEPT !.max = k]), at |-> up]

PropagateMaxKeyUp(t, a, k) ==
  Rounds(LAMBDA s : RaiseParent(s, k), [tree |-> t, at |-> a],
         Cardinality(DOMAIN t.node)).tree

\* insertPageIntoChildren
InsertPage(t, n, a, k, pg) ==
  LET i == FirstAbove(n.keys, k)
      m == [n EXCEPT !.keys = InsertAt(@, i, k), !.kids = InsertAt(@, i, pg)]
  IN  IF i <= Len(n.kids) THEN MarkNode(t, a, m)
      ELSE PropagateMaxKeyUp(MarkNode(t, a, [m EXCEPT !.max = k]), a, k)

\* splitUpdateParent: balanceTreeAdd has made room in the parent (Occupancy
\* would show a parent that was full).
SplitUpdateParent(t, child, b, k) ==
  LET p == t.node[child.parent]
      i == FirstAbove(p.keys, k)
      q == [p EXCEPT !.keys = InsertAt(@, i, k),
                     !.kids = InsertAt(@, i + 1, b)]
  IN  IF i <= Len(p.keys) THEN MarkNode(t, child.parent, q)
      ELSE PropagateMaxKeyUp(MarkNode(t, child.parent, [q EXCEPT !.max = child.max]),
                             child.parent, child.max)

\* splitNode: the upper half of the node at a moves to a new node, at "new".
SplitNode(t, a) ==
  LET n     == t.node[a]
      keep  == Len(n.kids) - Len(n.kids) \div 2
      b     == FreeAddress(DOMAIN t.node)
      right == [n EXCEPT !.kids = SubSeq(n.kids, keep + 1, Len(n.kids)),
                         !.keys = SubSeq(n.keys, keep + 1, Len(n.keys)),
                         !.prev = IF n.leaf THEN a ELSE 0]
      left  == [n EXCEPT !.kids = SubSeq(n.kids, 1, keep),
                         !.keys = SubSeq(n.keys, 1, IF n.leaf THEN keep ELSE keep - 1),
                         !.next = IF n.leaf THEN b ELSE 0,
                         !.max  = IF n.leaf THEN n.keys[keep]
                                  ELSE t.node[n.kids[keep]].max]
      moved == IF n.leaf THEN t ELSE Adopt(t, ToSet(right.kids), b)
      chain == IF n.next = 0 THEN moved
               ELSE MarkNode(moved, n.next, [moved.node[n.next] EXCEPT !.prev = b])
      filed == SplitUpdateParent(chain, right, b, n.keys[keep])
  IN  [tree |-> MarkNode(MarkNode(filed, a, left), b, right), new |-> b]

\* newRoot: a root above the node at a, whose copy n gets it as its parent.
NewRoot(t, n, a) ==
  LET r == FreeAddress(DOMAIN t.node)
      u == MarkNode(MarkNode(t, a, [n EXCEPT !.parent = r]), r,
                    [leaf |-> FALSE, kids |-> <<a>>, keys |-> <<>>, max |-> n.max,
                     parent |-> 0, prev |-> 0, next |-> 0])
  IN  [u EXCEPT !.root = r]

\* The node at a, its parent, and so on; 0 above the root.
Ancestors(t, a) ==
  LET up[i \in 0 .. Cardinality(DOMAIN t.node)] ==
        IF i = 0 THEN a
        ELSE LET b == up[i - 1] IN IF b = 0 THEN 0 ELSE t.node[b].parent
  IN  up

\* balanceTreeAdd: splits the full node at a, whose copy the caller has stored.
\* Ancestors that are full are split first, from the topmost down; if that is
\* the root it gets a parent.
BalanceTreeAdd(t, a) ==
  LET up   == Ancestors(t, a)
      n(i) == t.node[up[i]]
      top  == Min({i \in DOMAIN up :
                     up[i] # 0 /\ (IsRoot(n(i)) \/ ~IsFull(t.node[n(i).parent]))})
      room == IF IsRoot(n(top)) THEN NewRoot(t, n(top), up[top]) ELSE t
      split[i \in 0 .. top + 1] ==
        IF i = 0 THEN [tree |-> room, new |-> 0]
        ELSE SplitNode(split[i - 1].tree, up[top + 1 - i])
  IN  split[top + 1]

\* addPage raises the root's largest key itself.
RaiseRootMax(t, k) ==
  IF k > t.node[t.root].max THEN [t EXCEPT !.node[t.root].max = k] ELSE t

\* Variant: the page goes in the new half, wherever its keys belong.
AddToNewHalf(s, a, k, pg) ==
  RaiseRootMax(InsertPage(s.tree, s.tree.node[s.new], s.new, k, pg), k)

\* The leaf at a has been split (s): page pg goes in the half k belongs in.
AddToHalf(s, a, k, pg) ==
  LET t == s.tree IN
  IF k <= t.node[a].max THEN InsertPage(t, t.node[a], a, k, pg)
  ELSE RaiseRootMax(InsertPage(t, t.node[s.new], s.new, k, pg), k)

\* addPage: files page pg under k in the leaf at a, or in its new neighbour.
AddPage(t, n, a, k, pg) ==
  IF IsFull(n) THEN AddToHalf(BalanceTreeAdd(t, a), a, k, pg)
  ELSE InsertPage(t, n, a, k, pg)

-----------------------------------------------------------------------------
(***************************************************************************)
(* Removal from nodes.                                                     *)
(***************************************************************************)
\* getNextInternal, getPrevInternal: siblings under the same parent, or 0.
NextSibling(t, n, a) ==
  IF IsRoot(n) THEN 0
  ELSE LET kids == t.node[n.parent].kids
           i    == Position(kids, a)
       IN  IF i \in 1 .. (Len(kids) - 1) THEN kids[i + 1] ELSE 0

PrevSibling(t, n, a) ==
  IF IsRoot(n) THEN 0
  ELSE LET kids == t.node[n.parent].kids
           i    == Position(kids, a)
       IN  IF i > 1 THEN kids[i - 1] ELSE 0

\* isValidBorrow, of the sibling at b (or none)
CanBorrow(t, n, b) ==
  b # 0 /\ Len(t.node[b].kids) > HalfM /\ t.node[b].parent = n.parent

\* Variant: the first child's separator is changed, or none is.
SetFirstSeparator(t, up, a, k) ==
  IF t.node[up].keys = <<>> THEN t ELSE [t EXCEPT !.node[up].keys[1] = k]

SetNoSeparator(t, up, a, k) == t

\* The separator of the child at a becomes k, unless it is the last child.
SetSeparator(t, up, a, k) ==
  LET p == t.node[up]
      i == Position(p.kids, a)
  IN  IF i \in DOMAIN p.keys THEN MarkNode(t, up, [p EXCEPT !.keys[i] = k]) ELSE t

\* borrowNext, borrowPrev: a page moves between leaves.
BorrowNext(t, n, a, b) ==
  LET next == t.node[b]
      k    == Head(next.keys)
      u    == MarkNode(t, a, [n EXCEPT !.kids = Append(@, Head(next.kids)),
                                       !.keys = Append(@, k), !.max = k])
      v    == MarkNode(u, b, [next EXCEPT !.kids = Tail(@), !.keys = Tail(@)])
  IN  SetSeparator(v, n.parent, a, k)

BorrowPrev(t, n, a, b) ==
  LET prev == t.node[b]
      k    == Last(Front(prev.keys))
      u    == MarkNode(t, a, [n EXCEPT !.kids = <<Last(prev.kids)>> \o @,
                                       !.keys = <<Last(prev.keys)>> \o @])
      v    == MarkNode(u, b, [prev EXCEPT !.kids = Front(@), !.keys = Front(@),
                                          !.max = k])
  IN  SetSeparator(v, n.parent, b, k)

\* borrowNextThroughParent, borrowPrevThroughParent: a child moves between
\* interior nodes, the separators turning through their parent.
BorrowNextThroughParent(t, n, a, b) ==
  LET next == t.node[b]
      c    == Head(next.kids)
      p    == t.node[n.parent]
      i    == Position(p.kids, a)
      u    == MarkNode(Adopt(t, {c}, a), a,
                [n EXCEPT !.kids = Append(@, c), !.keys = Append(@, p.keys[i]),
                          !.max = t.node[c].max])
      v    == MarkNode(u, b, [next EXCEPT !.kids = Tail(@), !.keys = Tail(@)])
  IN  MarkNode(v, n.parent, [p EXCEPT !.keys[i] = Head(next.keys)])

BorrowPrevThroughParent(t, n, a, b) ==
  LET prev == t.node[b]
      c    == Last(prev.kids)
      p    == t.node[n.parent]
      i    == Position(p.kids, b)
      u    == MarkNode(Adopt(t, {c}, a), a,
                [n EXCEPT !.kids = <<c>> \o @, !.keys = <<p.keys[i]>> \o @])
      v    == MarkNode(u, b, [prev EXCEPT !.kids = Front(@), !.keys = Front(@),
                                          !.max = Last(prev.keys)])
  IN  MarkNode(v, n.parent, [p EXCEPT !.keys[i] = Last(prev.keys)])

\* The two nodes a merge makes one: the lower one survives.
MergePair(t, n, a) ==
  LET b == PrevSibling(t, n, a)
      c == NextSibling(t, n, a)
  IN  IF b # 0 /\ t.node[b].parent = n.parent
      THEN [to |-> b, into |-> t.node[b], from |-> a, source |-> n]
      ELSE [to |-> a, into |-> n, from |-> c, source |-> t.node[c]]

\* Variant: the survivor keeps its link when the source was the last leaf.
AbsorbKeepsNext(into, source, bound) ==
  [into EXCEPT !.kids = @ \o source.kids, !.keys = @ \o bound \o source.keys,
               !.next = IF source.next = 0 THEN @ ELSE source.next, !.max = source.max]

Absorb(into, source, bound) ==
  [into EXCEPT !.kids = @ \o source.kids, !.keys = @ \o bound \o source.keys,
               !.next = source.next, !.max = source.max]

\* mergeNode's first half: everything moves to the survivor, and the source
\* is deleted.
MergeInto(t, n, a) ==
  LET p    == MergePair(t, n, a)
      bound == IF n.leaf THEN <<>>
               ELSE <<t.node[n.parent].keys[Position(t.node[n.parent].kids, p.to)]>>
      one  == Absorb(p.into, p.source, bound)
      kept == IF n.leaf
              THEN IF one.next = 0 THEN t
                   ELSE MarkNode(t, one.next, [t.node[one.next] EXCEPT !.prev = p.to])
              ELSE Adopt(t, ToSet(p.source.kids), p.to)
  IN  [tree |-> PropagateMaxKeyUp(DeleteNode(MarkNode(kept, p.to, one), p.from),
                                  p.to, one.max),
       to |-> p.to, from |-> p.from]

\* The root's only child becomes the root; the old one stays unmarked in the
\* file.
CollapseRoot(t, n) ==
  LET c == Head(n.kids)
      u == DeleteNode(t, t.root)
  IN  [Adopt(u, {c}, 0) EXCEPT !.root = c]

\* balanceTreeDelete and mergeNode call each other, a level up each time, as
\* their last step.  So rebalancing is a climb: s.node is the copy of the node
\* at s.at, and s.more says whether it is to be rebalanced.
Done(t, s) == [tree |-> t, node |-> s.node, at |-> s.at, more |-> FALSE]

\* A leaf has borrowed.  Its parent (the copy p read before) is rebalanced if
\* it is below the minimum.  It never is (Occupancy): a borrow leaves the
\* parent the children it had.
AfterBorrow(t, p, a) ==
  [tree |-> t, node |-> p, at |-> a, more |-> Len(p.kids) < HalfM /\ ~IsRoot(p)]

\* The merge m took the node at m.from from the parent at up, whose copy q has
\* lost a child and is stored or rebalanced.
Unlink(m, up) ==
  LET p == m.tree.node[up]
      i == Position(p.kids, m.from)
      q == [p EXCEPT !.kids = RemoveAt(@, i), !.keys = RemoveAt(@, i - 1)]
      more == IF IsRoot(q) THEN Len(q.kids) = 1 ELSE Len(q.kids) < HalfM
  IN  [tree |-> IF more THEN m.tree ELSE MarkNode(m.tree, up, q),
       node |-> q, at |-> up, more |-> more]

\* One level of balanceTreeDelete: a node at its minimum borrows or merges.
RebalanceLevel(s) ==
  LET t == s.tree
      n == s.node
      a == s.at
      next == NextSibling(t, n, a)
      prev == PrevSibling(t, n, a)
  IN  IF ~n.leaf /\ a = t.root /\ Len(n.kids) = 1
      THEN Done(CollapseRoot(t, n), s)
      ELSE IF CanBorrow(t, n, next)
      THEN IF n.leaf
           THEN AfterBorrow(BorrowNext(t, n, a, next), t.node[n.parent], n.parent)
           ELSE Done(BorrowNextThroughParent(t, n, a, next), s)
      ELSE IF CanBorrow(t, n, prev)
      THEN IF n.leaf
           THEN AfterBorrow(BorrowPrev(t, n, a, prev), t.node[n.parent], n.parent)
           ELSE Done(BorrowPrevThroughParent(t, n, a, prev), s)
      ELSE Unlink(MergeInto(t, n, a), n.parent)

\* balanceTreeDelete of the leaf at a; "at" is where its pages are afterwards.
BalanceTreeDelete(t, n, a) ==
  [tree |-> Rounds(LAMBDA s : IF s.more THEN RebalanceLevel(s) ELSE s,
                   [tree |-> t, node |-> n, at |-> a, more |-> TRUE],
                   Cardinality(DOMAIN t.node)).tree,
   at   |-> IF CanBorrow(t, n, NextSibling(t, n, a))
               \/ CanBorrow(t, n, PrevSibling(t, n, a))
            THEN a ELSE MergePair(t, n, a).to]

\* Variant: the key a page was filed under stays.
RemovePageNotKey(b, pg) ==
  LET n == b.tree.node[b.at]
      m == [n EXCEPT !.kids = RemoveAt(@, Position(n.kids, pg))]
  IN  DeletePageObject(MarkNode(b.tree, b.at, m), pg)

\* Variant: the page is not marked as deleted.
RemovePageNotObject(b, pg) ==
  LET n == b.tree.node[b.at]
      i == Position(n.kids, pg)
  IN  MarkNode(b.tree, b.at, [n EXCEPT !.kids = RemoveAt(@, i), !.keys = RemoveAt(@, i)])

RemovePage(b, pg) ==
  LET n == b.tree.node[b.at]
      i == Position(n.kids, pg)
      m == [n EXCEPT !.kids = RemoveAt(@, i), !.keys = RemoveAt(@, i)]
      w == IF i = Len(n.kids) /\ i > 1 THEN [m EXCEPT !.max = Last(m.keys)] ELSE m
  IN  DeletePageObject(MarkNode(b.tree, b.at, w), pg)

\* Variant: a leaf below its minimum, not at it, is rebalanced.
DeletePageLate(t, a, pg) ==
  LET n == t.node[a] IN
  RemovePage(IF Len(n.kids) < HalfM /\ ~IsRoot(n) THEN BalanceTreeDelete(t, n, a)
             ELSE [tree |-> t, at |-> a], pg)

\* deletePage: a leaf at its minimum is rebalanced before the page is removed.
DeletePage(t, a, pg) ==
  LET n == t.node[a] IN
  RemovePage(IF Len(n.kids) = HalfM /\ ~IsRoot(n) THEN BalanceTreeDelete(t, n, a)
             ELSE [tree |-> t, at |-> a], pg)

\* Where that leaves the children of the leaf at a: deleteRecord's leafOut.
LeafAfter(t, a) ==
  LET n == t.node[a]
  IN  IF Len(n.kids) = HalfM /\ ~IsRoot(n) THEN BalanceTreeDelete(t, n, a).at ELSE a

-----------------------------------------------------------------------------
(***************************************************************************)
(* Splitting a page.                                                       *)
(***************************************************************************)
\* The room the records with keys below k take, added up from the first.
UsedBelow(p, k) ==
  LET used[j \in 0 .. k] ==
        IF j = 0 THEN 0
        ELSE used[j - 1] + (IF j - 1 \in DOMAIN p THEN p[j - 1] ELSE 0)
  IN  used[k]

Used(p) == IF DOMAIN p = {} THEN 0 ELSE UsedBelow(p, Max(DOMAIN p) + 1)

MaxKey(p) == IF DOMAIN p = {} THEN 0 ELSE Max(DOMAIN p)

\* SPSplit: the records that stay, and the ones that move.
Below(p, k) == Restrict(p, {j \in DOMAIN p : j < k})

From(p, k) == Restrict(p, {j \in DOMAIN p : j >= k})

\* Variant: only the lower part is held to the capacity.
DivisionsByLower(p) ==
  {k \in DOMAIN p : Below(p, k) # <<>> /\ Used(Below(p, k)) <= Capacity}

\* The divisions chooseSplit weighs: both parts not empty and within capacity.
Divisions(p) ==
  {k \in DOMAIN p : /\ Below(p, k) # <<>>
                    /\ Used(Below(p, k)) <= Capacity
                    /\ Used(From(p, k)) <= Capacity}

Difference(p, k) ==
  LET l == Used(Below(p, k))
      u == Used(From(p, k))
  IN  IF l > u THEN l - u ELSE u - l

\* chooseSplit: the most even one, the lowest of equals, given by the least key
\* of the upper part.  new is the key about to be inserted (already in p): put
\* first in the upper part or last in the lower one, the latter wins a tie.
ChooseSplit(p, new) ==
  LET best == {k \in Divisions(p) :
                 \A j \in Divisions(p) : Difference(p, k) <= Difference(p, j)}
      low  == Min(best)
      next == {k \in best : \A j \in DOMAIN p : j > new => k <= j}
  IN  IF low = new /\ next \ {new} # {} THEN Max(next) ELSE low

\* addPageAfter: pg keeps keys up to lower; the new page takes over its bound.
AddPageAfter(t, pg, lower, new, upper) ==
  LET a == FindLeaf(t, lower)
      i == FirstNotBelow(t.node[a].keys, lower)
      n == [t.node[a] EXCEPT !.keys[i] = lower]
      bound == t.node[a].keys[i]
  IN  AddPage(MarkNode(t, a, n), n, a, IF upper > bound THEN upper ELSE bound, new)

\* The page at pg becomes lower, and upper becomes a new page after it.
SplitPage(t, pg, lower, upper) ==
  LET b == FreeAddress(DOMAIN t.page)
  IN  AddPageAfter(MarkPage(MarkPage(t, pg, lower), b, upper),
                   pg, MaxKey(lower), b, MaxKey(upper))

\* Where a page with too many records is divided: evenly if two parts are
\* enough, else keeping as many records as there is room for.
DivideAt(p) ==
  IF Divisions(p) # {} THEN ChooseSplit(p, 0)
  ELSE Min({j \in DOMAIN p : UsedBelow(p, j + 1) > Capacity})

\* One round of storePage's loop: the page s.page, at s.at, is divided.
StoreRest(s) ==
  LET k == DivideAt(s.page) IN
  IF Used(s.page) <= Capacity THEN s
  ELSE [tree |-> SplitPage(s.tree, s.at, Below(s.page, k), From(s.page, k)),
        page |-> From(s.page, k), at |-> FreeAddress(DOMAIN s.tree.page)]

\* storePage: a page made larger is divided until every part fits.
StorePage(t, p, pg) ==
  LET s == Rounds(StoreRest, [tree |-> t, page |-> p, at |-> pg], Cardinality(DOMAIN p))
  IN  MarkPage(s.tree, s.at, s.page)

-----------------------------------------------------------------------------
(***************************************************************************)
(* The calls.  insertRecord tries again after dividing a full page where   *)
(* the record belongs, three times at most.                                *)
(***************************************************************************)
Result(t, r) == [tree |-> t, reply |-> r]

\* One attempt to insert a record.
TryInsert(t, k, z) ==
  LET a    == FindLeaf(t, k)
      n    == t.node[a]
      i    == FirstNotBelow(n.keys, k)
      past == i > Len(n.kids)
      pg   == IF past THEN Last(n.kids) ELSE n.kids[i]
      p    == t.page[pg]
      q    == With(p, k, z)
      filed == MarkNode(t, a, [n EXCEPT !.keys[Len(n.keys)] = k, !.max = k])
      atEnd == \A j \in DOMAIN p : j < k
      cut  == ChooseSplit(q, k)
  IN  IF z > Capacity THEN Result(t, "too large")
      ELSE IF k \in DOMAIN p THEN Result(t, "key exists")
      ELSE IF Used(q) <= Capacity
      THEN Result(IF past THEN PropagateMaxKeyUp(MarkPage(filed, pg, q), a, k)
                  ELSE MarkPage(t, pg, q), "inserted")
      ELSE IF atEnd THEN Result(SplitPage(t, pg, p, [j \in {k} |-> z]), "inserted")
      ELSE IF Divisions(q) # {}
      THEN Result(SplitPage(t, pg, Below(q, cut), From(q, cut)), "inserted")
      ELSE Result(SplitPage(t, pg, Below(p, k), From(p, k)), "again")

InsertRecord(t, k, z) ==
  LET r == Rounds(LAMBDA r : IF r.reply = "again" THEN TryInsert(r.tree, k, z) ELSE r,
                  Result(t, "again"), 3)
  IN  IF r.reply = "again" THEN Result(r.tree, "failed") ELSE r

UpdateRecord(t, k, z) ==
  LET pg == FindPage(t, k) IN
  IF pg = 0 \/ k \notin DOMAIN t.page[pg] \/ z > Capacity THEN Result(t, "refused")
  ELSE Result(StorePage(t, [t.page[pg] EXCEPT ![k] = z], pg), "updated")

DeleteRecord(t, k) ==
  LET a  == FindLeaf(t, k)
      pg == FindPage(t, k)
      p  == Restrict(t.page[pg], DOMAIN t.page[pg] \ {k})
      only == IsRoot(t.node[a]) /\ Len(t.node[a].kids) = 1
  IN  IF pg = 0 THEN Result(t, "deleted")
      ELSE IF k \notin DOMAIN t.page[pg] THEN Result(t, "refused")
      ELSE IF p = <<>> /\ ~only THEN Result(DeletePage(t, a, pg), "deleted")
      ELSE Result(MarkPage(t, pg, p), "deleted")

-----------------------------------------------------------------------------
(***************************************************************************)
(* The tree as a scan sees it: the leaves from the leftmost by next, their *)
(* pages in order, the records of each in key order.                       *)
(***************************************************************************)
LeftmostLeaf(t) ==
  Rounds(LAMBDA a : IF t.node[a].leaf THEN a ELSE Head(t.node[a].kids),
         t.root, Cardinality(DOMAIN t.node))

\* What each node's next is; after none there is none.
NextOf(t) == [a \in DOMAIN t.node \union {0} |-> IF a = 0 THEN 0 ELSE t.node[a].next]

\* The leaves from the one at a on, by next; none if a is 0.
Chain(t, a) ==
  LET at[i \in 0 .. Cardinality(DOMAIN t.node)] == IF i = 0 THEN a ELSE NextOf(t)[at[i - 1]]
  IN  [i \in 1 .. Cardinality({j \in DOMAIN at : at[j] # 0}) |-> at[i - 1]]

Scan(t) == Chain(t, LeftmostLeaf(t))

\* The pages a scan meets.
ScannedPages(t) == UNION {ToSet(t.node[a].kids) : a \in ToSet(Scan(t))}

Rows(t) ==
  LET pages == ScannedPages(t) IN
  [k \in UNION {DOMAIN t.page[pg] : pg \in pages} |->
     t.page[CHOOSE pg \in pages : k \in DOMAIN t.page[pg]][k]]

Insert(k, z) == tree' = InsertRecord(tree, k, z).tree

\* The VM updates and deletes rows it has just read.
Update(k, z) == k \in DOMAIN Rows(tree) /\ tree' = UpdateRecord(tree, k, z).tree

Delete(k) == k \in DOMAIN Rows(tree) /\ tree' = DeleteRecord(tree, k).tree

Next ==
  \/ \E k \in Key, z \in Size : Insert(k, z) \/ Update(k, z)
  \/ \E k \in Key : Delete(k)

Spec == Init /\ [][Next]_tree

-----------------------------------------------------------------------------

\* The tree keeps its types: a leaf has a key for each page, another node one
\* less than it has children, and links lead to nodes there are.
TypeOK ==
  /\ tree.root \in DOMAIN tree.node
  /\ \A a \in DOMAIN tree.node : LET n == tree.node[a] IN
       /\ n.leaf \in BOOLEAN
       /\ n.kids \in Seq(IF n.leaf THEN DOMAIN tree.page ELSE DOMAIN tree.node)
       /\ n.keys \in Seq(Key)
       /\ Len(n.keys) = IF n.leaf THEN Len(n.kids) ELSE Len(n.kids) - 1
       /\ n.max \in Key
       /\ {n.parent, n.prev, n.next} \subseteq DOMAIN tree.node \union {0}
  /\ \A pg \in DOMAIN tree.page :
       /\ DOMAIN tree.page[pg] \subseteq Key
       /\ \A k \in DOMAIN tree.page[pg] : tree.page[pg][k] \in Size

\* The nodes of the subtree at a.
Subtree(t, a) ==
  Rounds(LAMBDA S : S \union UNION {ToSet(t.node[b].kids) : b \in {c \in S : ~t.node[c].leaf}},
         {a}, Cardinality(DOMAIN t.node))

Reachable == Subtree(tree, tree.root)

(***************************************************************************)
(* A lookup and a scan agree: the page the search for a key leads to holds *)
(* it exactly when a scan meets it ("no other page can hold key",          *)
(* findPageInLeaf), whatever splits, borrows and merges came before.       *)
(***************************************************************************)
SearchFindsRows ==
  LET rows == Rows(tree) IN
  \A k \in Key :
    LET pg == FindPage(tree, k) IN
    k \in DOMAIN rows <=> pg # 0 /\ k \in DOMAIN tree.page[pg]

(***************************************************************************)
(* A scan along the leaves meets every leaf of the tree, each leaf's next  *)
(* is the one whose keys follow its own, and prev is the inverse of next   *)
(* (README: rows come back in primary-key order; the leaves link           *)
(* bidirectionally).                                                       *)
(***************************************************************************)
Leaves == {a \in Subtree(tree, tree.root) : tree.node[a].leaf}

Before(a, b) == Last(tree.node[a].keys) < Head(tree.node[b].keys)

LeavesAreLinked ==
  LET leaves == Leaves IN
  /\ ToSet(Scan(tree)) = leaves
  /\ \A a \in leaves : LET n == tree.node[a] IN
       /\ n.prev # 0 => n.prev \in leaves /\ tree.node[n.prev].next = a
       /\ n.next # 0 => n.next \in leaves /\ tree.node[n.next].prev = a
       /\ \A b \in leaves \ {a} :
            IF Before(a, b) THEN b = n.next \/ (n.next # 0 /\ Before(n.next, b))
            ELSE b = n.prev \/ (n.prev # 0 /\ Before(b, n.prev))

\* A scan meets keys in ascending order, each page's above the page before.
ScanIsOrdered ==
  LET leaves == Scan(tree)
      Keys(i, j) == DOMAIN tree.page[tree.node[leaves[i]].kids[j]]
  IN  \A i1, i2 \in DOMAIN leaves :
        \A j1 \in DOMAIN tree.node[leaves[i1]].kids,
           j2 \in DOMAIN tree.node[leaves[i2]].kids :
          i1 < i2 \/ (i1 = i2 /\ j1 < j2) =>
            \A k1 \in Keys(i1, j1), k2 \in Keys(i2, j2) : k1 < k2

(***************************************************************************)
(* Every node but the root is at least half full and none is over full     *)
(* (README: nodes split, borrow and merge to stay at least half full).     *)
(***************************************************************************)
Occupancy ==
  \A a \in Reachable :
    /\ Len(tree.node[a].kids) <= M
    /\ a # tree.root => Len(tree.node[a].kids) >= HalfM
    /\ a = tree.root /\ ~tree.node[a].leaf => Len(tree.node[a].kids) >= 2

(***************************************************************************)
(* Each node names its parent, though splitting, borrowing and merging     *)
(* interior nodes moves children between parents.                          *)
(***************************************************************************)
ParentsAgree ==
  /\ tree.node[tree.root].parent = 0
  /\ \A a \in Reachable : ~tree.node[a].leaf =>
       \A c \in ToSet(tree.node[a].kids) : tree.node[c].parent = a

(***************************************************************************)
(* The bounds nodes keep are true (bplus.c, "Keys"): each page's keys are  *)
(* at most the key it is filed under and above the one before; each        *)
(* separator bounds the subtrees beside it; max is at least every key.     *)
(***************************************************************************)
KeysBelow(a) ==
  UNION {UNION {DOMAIN tree.page[pg] : pg \in ToSet(tree.node[l].kids)} :
         l \in {b \in Subtree(tree, a) : tree.node[b].leaf}}

KeysOf(n, i) ==
  IF n.leaf THEN DOMAIN tree.page[n.kids[i]] ELSE KeysBelow(n.kids[i])

BoundsHold ==
  \A a \in Reachable : LET n == tree.node[a] IN
    /\ \A i, j \in DOMAIN n.keys : i < j => n.keys[i] < n.keys[j]
    /\ \A i \in DOMAIN n.kids : \A k \in KeysOf(n, i) :
         /\ i \in DOMAIN n.keys => k <= n.keys[i]
         /\ i > 1 => k > n.keys[i - 1]
         /\ k <= n.max

\* Every object of the table is in the tree, or was marked deleted.
NothingIsLost ==
  /\ DOMAIN tree.node = Reachable
  /\ DOMAIN tree.page = ScannedPages(tree)

\* Every page fits in its place in the file.
PagesFit == \A pg \in DOMAIN tree.page : Used(tree.page[pg]) <= Capacity

(***************************************************************************)
(* The results of the calls are true: a record no larger than a page finds *)
(* a place within insertRecord's three attempts, and only a key the table  *)
(* holds is refused as a duplicate, updated or deleted.                    *)
(***************************************************************************)
ResultsAreTrue ==
  LET rows == Rows(tree) IN
  \A k \in Key :
    /\ \A z \in Size :
         /\ InsertRecord(tree, k, z).reply =
              IF z > Capacity THEN "too large"
              ELSE IF k \in DOMAIN rows THEN "key exists"
              ELSE "inserted"
         /\ UpdateRecord(tree, k, z).reply = "updated" <=>
              k \in DOMAIN rows /\ z <= Capacity
    /\ k \in DOMAIN rows => DeleteRecord(tree, k).reply = "deleted"
=============================================================================
