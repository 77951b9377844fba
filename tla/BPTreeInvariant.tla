-------------------------- MODULE BPTreeInvariant --------------------------
(***************************************************************************)
(* The invariant of BPTree while no two insertions or deletions hold       *)
(* latches of the tree at once, and that the steps of readers and of an    *)
(* insertion keep it.                                                      *)
(***************************************************************************)
EXTENDS BPTree, BPTreeShape

-----------------------------------------------------------------------------
(* Any thread may insert and delete, and any number may be at it, but only *)
(* one at a time is in the tree: between the latch of the root and the     *)
(* return of the call.  wr is its name in what follows, and the name of    *)
(* any thread while there is none.                                         *)
Outside == {"root", "return"}
Inside(t) == Writer(t) /\ th[t].pc \notin Outside
Apart == \A t, u \in Threads : Inside(t) /\ Inside(u) => t = u

-----------------------------------------------------------------------------
(* What is in a page n, and what the writer is about to make of it: N are  *)
(* the pages, r is the root, F the free pages, H what the threads know and *)
(* l what one of them knows, the writer as a rule.                         *)
Upto(n, k) == Cardinality({i \in 1..n.count : n.ent[i] <= k}) + 1
Below(n, k) == Cardinality({i \in 1..n.count : n.ent[i] < k}) + 1
PlaceIn(n, q) == CHOOSE j \in DOMAIN n.child : n.child[j] = q
Most(n) == IF n.type = "leaf" THEN MaxLeaf ELSE MaxInternal
Fewest(n) == IF n.type = "leaf" THEN MinLeaf ELSE MinInternal

Plain(n) ==
  [keys |-> IF n.type = "internal" THEN n.ent ELSE SubSeq(n.ent, 1, n.count),
   kids |-> n.child, next |-> n.next]
Grown(n, j, s, q) ==
  [keys |-> InsertAt(n.ent, j, s), kids |-> InsertAt(n.child, j + 1, q), next |-> n.next]
Shorn(n, j) ==
  [keys |-> RemoveAt(n.ent, j - 1), kids |-> RemoveAt(n.child, j), next |-> n.next]

Growing(l) == l.pc = "up" /\ l.level > 0
Orphan(l) == l.pc = "up" /\ l.level = 0
View(N, l, p) ==
  IF Growing(l) /\ p = l.held[l.level]
  THEN Grown(N[p], Upto(N[p], l.sep), l.sep, l.right)
  ELSE IF l.pc = "unlink" /\ p = l.held[l.level - 1]
  THEN Shorn(N[p], PlaceIn(N[p], l.gone))
  ELSE Plain(N[p])

Loose(l) == IF l.pc = "split" THEN {l.right}
            ELSE IF l.pc = "unlink" THEN {l.gone} ELSE {}

IsNode(n) ==
  IF n.type = "internal" THEN n.count = Len(n.ent) /\ n.count <= MaxInternal
  ELSE Len(n.ent) = MaxLeaf /\ n.child = << >> /\ n.count <= MaxLeaf
Nodes(N, r, F) ==
  /\ N \in [Pages -> NodeType]
  /\ \A p \in Pages : IsNode(N[p])
  /\ F = {p \in Pages : N[p].type = "free"}
  /\ r \in Pages

Shaped(N, r, F, l, T, v, lo, hi, lev, top) ==
  /\ T = (Pages \ F) \ Loose(l)
  /\ Tree(T, v, lo, hi, lev, lev[r], top)
  /\ \A p \in T : /\ v[p] = View(N, l, p)
                  /\ N[p].type = IF lev[p] = 0 THEN "leaf" ELSE "internal"
  /\ r \in T /\ lo[r] = 0 /\ hi[r] = IF Orphan(l) THEN l.sep ELSE top

\* The node under repair may have one key less than the others must have.
Repairing == {"borrow_right", "borrow_left", "merge"}
Weak(l, p) == l.pc \in Repairing \cup {"parent"} /\ p = l.held[l.level]
Filled(N, r, l, T) ==
  \A p \in T :
    IF p = r THEN N[p].type = "internal" /\ ~Weak(l, p) => N[p].count >= 1
    ELSE IF Weak(l, p) THEN N[p].count + 1 >= Fewest(N[p])
    ELSE N[p].count >= Fewest(N[p])

-----------------------------------------------------------------------------
(* What the threads know.                                                  *)
ReaderPcs == {"idle", "root", "child", "leaf", "next", "more", "return"}
Pcs == ReaderPcs \cup Repairing \cup {"split", "up", "unlink", "parent"}
Locals ==
  [pc : Pcs, request : Requests, want : PageNo, held : Seq(Pages), level : Nat,
   sep : Nat, right : PageNo, left : Seq(Nat), gone : PageNo,
   header : [page : PageNo, count : Nat, next : PageNo],
   got : Seq(Nat), result : {"none", "found", "missing"}]
Writes(l) == l.request.op \in {"insert", "delete"}

\* The last page of its stack: where a thread is.
Here(l) == l.held[Len(l.held)]

\* A thread on its way down or along the leaves.
OnItsWay(N, l, T, lo, hi) ==
  /\ l.pc \in {"idle", "root", "return"} => l.held = << >>
  /\ l.pc = "root" => l.want \in Pages
  /\ l.pc \in {"child", "leaf"} =>
       /\ Len(l.held) >= 1 /\ Here(l) \in T
       /\ lo[Here(l)] <= l.request.low /\ l.request.low < hi[Here(l)]
       /\ l.pc = "child" =>
            /\ N[Here(l)].type = "internal"
            /\ l.want = N[Here(l)].child[Upto(N[Here(l)], l.request.low)]
       /\ l.pc = "leaf" => N[Here(l)].type = "leaf"
  /\ l.pc \in {"next", "more"} =>
       /\ Len(l.held) = 1 /\ Here(l) \in T /\ N[Here(l)].type = "leaf"
       /\ l.pc = "next" => l.want = N[Here(l)].next /\ l.want # 0
  /\ ~Writes(l) => l.pc \in ReaderPcs /\ Len(l.held) <= 1
  /\ l.pc \in {"next", "more"} => ~Writes(l)

Asked(l, t) ==
  IF l.pc = "idle" THEN l.request.op = "none" ELSE l.request \in Workload[t]

Threading(N, H, T, lo, hi) ==
  /\ H \in [Threads -> Locals]
  /\ \A t \in Threads : Asked(H[t], t) /\ OnItsWay(N, H[t], T, lo, hi)

\* The other threads read, or wait for the root, or are about to return.
Alone(wr, H) == \A t \in Threads \ {wr} : Writes(H[t]) => H[t].pc \in Outside

\* No other thread has a latch on a page the writer has latched.
Elsewhere(wr, H, p) == \A u \in Threads \ {wr} : p \notin ToSet(H[u].held)
Latched(wr, H) == Writes(H[wr]) => \A p \in ToSet(H[wr].held) : Elsewhere(wr, H, p)

-----------------------------------------------------------------------------
(* The writer on its way down and up again.                                *)
SafeFor(op, n) == IF op = "insert" THEN n.count < Most(n) ELSE n.count > Fewest(n)
Ready(N, r, l) == l.held[1] = r \/ SafeFor(l.request.op, N[l.held[1]])

\* The first n pages of the stack are a path in the tree.
Stacked(N, l, n, T, lev) ==
  /\ n \in 1..Len(l.held)
  /\ \A i \in 1..n : l.held[i] \in T /\ lev[l.held[i]] + i = lev[l.held[1]] + 1
  /\ \A i \in 1..(n - 1) :
       \E j \in 1..Len(N[l.held[i]].child) : N[l.held[i]].child[j] = l.held[i + 1]

\* A header that was read is still what is in the page.
Fresh(N, h) == h.page # 0 => h.count = N[h.page].count /\ h.next = N[h.page].next

Descending(N, r, l, T, lev) ==
  l.pc \in {"child", "leaf"} /\ Writes(l) =>
    Stacked(N, l, Len(l.held), T, lev) /\ Ready(N, r, l)

Splitting(N, r, l, T, lo, hi, lev) ==
  l.pc = "split" =>
    LET p == Here(l)  x == N[l.right] IN
    /\ l.request.op = "insert" /\ Stacked(N, l, Len(l.held), T, lev) /\ Ready(N, r, l)
    /\ lev[p] = 0 /\ (Len(l.held) = 1 => p = r)
    /\ l.right \in Pages /\ x.type = "leaf" /\ x.next = N[p].next /\ Fresh(N, l.header)
    /\ lo[p] < l.sep /\ l.sep < hi[p]
    /\ InRange(l.left, lo[p], l.sep)
    /\ InRange(SubSeq(x.ent, 1, x.count), l.sep, hi[p])
    /\ MinLeaf <= Len(l.left) /\ Len(l.left) <= MaxLeaf /\ x.count >= MinLeaf

Rising(N, r, l, T, lo, hi, lev, top) ==
  l.pc = "up" =>
    LET p == l.held[l.level + 1] IN
    /\ l.request.op = "insert" /\ Stacked(N, l, l.level + 1, T, lev)
    /\ (l.level > 0 => Ready(N, r, l))
    /\ (l.level = 0 => p = r /\ N[p].count >= Fewest(N[p]) /\ hi[l.right] = top)
    /\ l.right \in T /\ lev[l.right] = lev[p] /\ hi[p] = l.sep /\ lo[l.right] = l.sep

Mending(N, r, l, T, lev) ==
  l.pc \in Repairing =>
    LET n == l.held[l.level]  u == N[l.held[l.level - 1]]  i == PlaceIn(u, n) IN
    /\ l.request.op = "delete" /\ l.level > 1
    /\ Stacked(N, l, l.level, T, lev) /\ Ready(N, r, l)
    /\ N[n].count < Fewest(N[n])
    /\ (l.pc # "borrow_right" /\ i <= u.count => N[u.child[i + 1]].count <= Fewest(N[n]))
    /\ (l.pc = "merge" /\ i > 1 => N[u.child[i - 1]].count <= Fewest(N[n]))

Unlinking(N, r, l, T, lev) ==
  l.pc = "unlink" =>
    LET u == N[l.held[l.level - 1]]  i == PlaceIn(u, l.gone) IN
    /\ l.request.op = "delete" /\ l.level > 1
    /\ Stacked(N, l, l.level - 1, T, lev) /\ Ready(N, r, l) /\ Fresh(N, l.header)
    /\ l.gone \in Pages /\ N[l.gone].type # "free"
    /\ Len(u.child) = u.count + 1
    /\ i \in 2..Len(u.child) /\ u.child[i] = l.gone

Settling(N, r, l, T, lev) ==
  l.pc = "parent" =>
    LET n == l.held[l.level] IN
    /\ l.request.op = "delete" /\ Stacked(N, l, l.level, T, lev)
    /\ N[n].type = "internal"
    /\ (l.level > 1 => Ready(N, r, l))
    /\ (l.level = 1 => n = r \/ N[n].count >= Fewest(N[n]))

Writing(N, r, l, T, lo, hi, lev, top) ==
  /\ Descending(N, r, l, T, lev) /\ Splitting(N, r, l, T, lo, hi, lev)
  /\ Rising(N, r, l, T, lo, hi, lev, top) /\ Mending(N, r, l, T, lev)
  /\ Unlinking(N, r, l, T, lev) /\ Settling(N, r, l, T, lev)

-----------------------------------------------------------------------------
Bound(top) == top \in Nat /\ \A t \in Threads : \A q \in Workload[t] : q.low < top

Whole(wr, N, r, F, H, T, v, lo, hi, lev, top) ==
  /\ Bound(top) /\ Nodes(N, r, F)
  /\ Shaped(N, r, F, H[wr], T, v, lo, hi, lev, top) /\ Filled(N, r, H[wr], T)
  /\ Threading(N, H, T, lo, hi) /\ Alone(wr, H) /\ Latched(wr, H)
  /\ Writing(N, r, H[wr], T, lo, hi, lev, top)

InvOf(wr) ==
  \E T, v, lo, hi, lev, top : Whole(wr, node, root, free, th, T, v, lo, hi, lev, top)
Inv == \E wr \in Threads : InvOf(wr)
-----------------------------------------------------------------------------
(* The pages.                                                              *)
USE DEF PageNo

LEMMA Sizes ==
  /\ MaxLeaf \in Nat /\ MaxLeaf >= 2 /\ MaxInternal \in Nat /\ MaxInternal >= 2
  /\ MinLeaf \in Nat /\ 1 <= MinLeaf /\ 2 * MinLeaf <= MaxLeaf
  /\ MinInternal \in Nat /\ 1 <= MinInternal /\ 2 * MinInternal <= MaxInternal
  /\ MaxLeaf <= 2 * MinLeaf + 1 /\ MaxInternal <= 2 * MinInternal + 1
  /\ Pages \subseteq Nat /\ 0 \notin Pages /\ IsFiniteSet(Pages)
PROOF
  <1>1. /\ MaxLeaf \in Nat /\ MaxLeaf >= 2 /\ MaxInternal \in Nat /\ MaxInternal >= 2
        /\ Pages \subseteq Nat \ {0} /\ IsFiniteSet(Pages)
    BY BPTreeAssumption DEF BPTreeAssumption
  <1>2. \A n \in Nat : n >= 2 =>
          /\ n \div 2 \in Nat /\ 1 <= n \div 2 /\ 2 * (n \div 2) <= n
          /\ n <= 2 * (n \div 2) + 1
    OBVIOUS
  <1> QED BY <1>1, <1>2 DEF MinLeaf, MinInternal

\* The arithmetic of counts and places.
LEMMA OneMore == \A a, b \in Nat : a < b => a + 1 <= b
PROOF OBVIOUS

LEMMA Topmost == \A a, b \in Nat : a <= b /\ ~(a < b) => a = b
PROOF OBVIOUS

LEMMA Compared == \A a, b \in Nat : (a > b => ~(a <= b)) /\ (~(a > b) => a <= b)
PROOF OBVIOUS

LEMMA OneUp == \A n \in Nat : n > 0 => n \in 1..n
PROOF OBVIOUS

LEMMA OneDown ==
  \A n \in Nat : n > 1 => n - 1 \in Nat /\ n - 1 >= 1 /\ n = (n - 1) + 1
PROOF OBVIOUS

LEMMA NotLastPlace ==
  \A c \in Nat : \A i \in 1..(c + 1) : i <= c => i \in Nat /\ i >= 1
PROOF OBVIOUS

LEMMA NotFirstPlace ==
  \A c \in Nat : \A i \in 1..(c + 1) : i > 1 =>
    i - 1 \in Nat /\ i - 1 >= 1 /\ i - 1 <= c /\ (i - 1) + 1 = i
PROOF OBVIOUS

LEMMA NoneEmpty == \A n \in Nat : n >= MinInternal => n >= 1
PROOF BY Sizes

LEMMA OneMoreKey ==
  \A n \in Nat : (n >= 1 => n + 1 >= 1) /\ (n >= MinInternal => n + 1 >= MinInternal)
PROOF BY Sizes

\* A key moves from a node of j keys with some to spare to one of i keys, which had too few.
LEMMA KeyMoved ==
  \A i, j, a, b \in Nat :
    /\ i < MinInternal /\ i + 1 >= MinInternal /\ j > MinInternal /\ j <= MaxInternal
    /\ a + 1 = j /\ b = i + 1
    => /\ a >= MinInternal /\ a <= MaxInternal
       /\ b >= MinInternal /\ b <= MaxInternal
PROOF BY Sizes

LEMMA ZerosIs ==
  ASSUME NEW n \in Nat
  PROVE  Zeros(n) \in Seq(Nat) /\ Len(Zeros(n)) = n
PROOF BY DEF Zeros

\* A leaf made of the keys ks.
IsLeaf(n, ks, nx) ==
  /\ n \in NodeType /\ n.type = "leaf" /\ n.count = Len(ks) /\ n.next = nx
  /\ n.child = << >> /\ Len(n.ent) = MaxLeaf
  /\ SubSeq(n.ent, 1, n.count) = ks

LEMMA PaddedIs ==
  ASSUME NEW ks \in Seq(Nat), Len(ks) <= MaxLeaf
  PROVE  LET e == ks \o Zeros(MaxLeaf - Len(ks)) IN
         e \in Seq(Nat) /\ Len(e) = MaxLeaf /\ SubSeq(e, 1, Len(ks)) = ks
PROOF
  <1>1. PICK n \in Nat : n = Len(ks) OBVIOUS
  <1>2. PICK z : z = Zeros(MaxLeaf - n) OBVIOUS
  <1>3. MaxLeaf - n \in Nat BY <1>1, Sizes
  <1>4. z \in Seq(Nat) /\ Len(z) = MaxLeaf - n BY <1>2, <1>3, ZerosIs
  <1>5. PICK e : e = ks \o z OBVIOUS
  <1>6. e \in Seq(Nat) /\ Len(e) = MaxLeaf /\ \A i \in 1..n : e[i] = ks[i]
    BY <1>1, <1>4, <1>5, Sizes
  <1>7. SubSeq(e, 1, n) = ks
    <2>1. PICK s : s = SubSeq(e, 1, n) OBVIOUS
    <2>2. s \in Seq(Nat) /\ Len(s) = n /\ \A i \in 1..n : s[i] = e[i]
      BY <1>1, <1>6, <2>1, Sizes
    <2>3. s = [i \in 1..n |-> s[i]] BY <2>2
    <2>4. ks = [i \in 1..n |-> ks[i]] BY <1>1
    <2>5. \A i \in 1..n : s[i] = ks[i] BY <2>2, <1>6
    <2>6. s = ks BY <2>3, <2>4, <2>5, Zenon
    <2> QED BY <2>1, <2>6
  <1> QED BY <1>1, <1>2, <1>5, <1>6, <1>7

LEMMA LeafIs ==
  ASSUME NEW ks \in Seq(Nat), Len(ks) <= MaxLeaf, NEW nx \in PageNo
  PROVE  IsLeaf(Leaf(ks, nx), ks, nx)
PROOF
  <1>1. PICK e : e = ks \o Zeros(MaxLeaf - Len(ks)) OBVIOUS
  <1>2. e \in Seq(Nat) /\ Len(e) = MaxLeaf /\ SubSeq(e, 1, Len(ks)) = ks
    BY <1>1, PaddedIs
  <1>3. Leaf(ks, nx) =
          [type |-> "leaf", count |-> Len(ks), next |-> nx, child |-> << >>, ent |-> e]
    BY <1>1 DEF Leaf
  <1> QED BY <1>2, <1>3 DEF IsLeaf, NodeType

LEMMA WithKeysIs ==
  ASSUME NEW n \in NodeType, n.type = "leaf", n.child = << >>,
         NEW ks \in Seq(Nat), Len(ks) <= MaxLeaf
  PROVE  IsLeaf(WithKeys(n, ks), ks, n.next)
PROOF
  <1>1. PICK e : e = ks \o Zeros(MaxLeaf - Len(ks)) OBVIOUS
  <1>2. e \in Seq(Nat) /\ Len(e) = MaxLeaf /\ SubSeq(e, 1, Len(ks)) = ks
    BY <1>1, PaddedIs
  <1>3. WithKeys(n, ks) = [n EXCEPT !.count = Len(ks), !.ent = e]
    BY <1>1 DEF WithKeys
  <1>4. PICK r : r = WithKeys(n, ks) OBVIOUS
  <1>5. /\ n = [type |-> n.type, count |-> n.count, next |-> n.next, child |-> n.child,
                 ent |-> n.ent]
        /\ n.next \in PageNo
    BY DEF NodeType
  <1>6. r = [type |-> "leaf", count |-> Len(ks), next |-> n.next, child |-> << >>,
             ent |-> e]
    BY <1>3, <1>4, <1>5
  <1>7. Len(ks) \in Nat /\ << >> \in Seq(Pages) OBVIOUS
  <1>8. r \in NodeType BY <1>2, <1>5, <1>6, <1>7 DEF NodeType
  <1> QED BY <1>2, <1>4, <1>6, <1>8 DEF IsLeaf

LEMMA LeafPlain ==
  ASSUME NEW n, NEW ks \in Seq(Nat), Len(ks) <= MaxLeaf, NEW nx, IsLeaf(n, ks, nx)
  PROVE  /\ Plain(n).keys = ks /\ Plain(n).kids = << >> /\ Plain(n).next = nx
         /\ n \in NodeType /\ IsNode(n) /\ n.type = "leaf" /\ n.count = Len(ks)
         /\ n.next = nx /\ n.count \in Nat
PROOF BY DEF IsLeaf, Plain, IsNode

LeafData(n, ks, nx) ==
  /\ Plain(n).keys = ks /\ Plain(n).kids = << >>
  /\ n \in NodeType /\ IsNode(n) /\ n.type = "leaf" /\ n.count = Len(ks) /\ n.next = nx

LEMMA LeafDataIs ==
  ASSUME NEW n, NEW ks \in Seq(Nat), Len(ks) <= MaxLeaf, NEW nx, IsLeaf(n, ks, nx)
  PROVE  LeafData(n, ks, nx)
PROOF
  <1>1. /\ Plain(n).keys = ks /\ Plain(n).kids = << >>
        /\ n \in NodeType /\ IsNode(n) /\ n.type = "leaf" /\ n.count = Len(ks) /\ n.next = nx
    BY LeafPlain
  <1> QED BY <1>1, Zenon DEF LeafData

LEMMA InternalIs ==
  ASSUME NEW ks \in Seq(Nat), Len(ks) <= MaxInternal, NEW cs \in Seq(Pages)
  PROVE  LET n == Internal(ks, cs) IN
         /\ n \in NodeType /\ IsNode(n) /\ n.type = "internal" /\ n.count = Len(ks)
         /\ n.ent = ks /\ n.child = cs /\ n.count \in Nat /\ n.next = 0
         /\ Plain(n).keys = ks /\ Plain(n).kids = cs
PROOF
  <1>1. Len(ks) \in Nat OBVIOUS
  <1>2. Internal(ks, cs) =
          [type |-> "internal", count |-> Len(ks), next |-> 0, child |-> cs, ent |-> ks]
    BY DEF Internal
  <1> QED BY <1>1, <1>2 DEF IsNode, NodeType, Plain

LEMMA FreePageIs ==
  FreePage \in NodeType /\ IsNode(FreePage) /\ FreePage.type = "free"
PROOF
  <1>1. << >> \in Seq(Nat) /\ Len(<< >>) = 0 OBVIOUS
  <1>2. IsLeaf(Leaf(<< >>, 0), << >>, 0)
    <2>1. Len(<< >>) <= MaxLeaf /\ 0 \in PageNo BY <1>1, Sizes
    <2> QED BY <1>1, <2>1, LeafIs
  <1>3. PICK l : l = Leaf(<< >>, 0) OBVIOUS
  <1>4. l \in NodeType /\ l.child = << >> /\ Len(l.ent) = MaxLeaf /\ l.count = 0
    BY <1>1, <1>2, <1>3 DEF IsLeaf
  <1>5. FreePage = [l EXCEPT !.type = "free"] BY <1>3 DEF FreePage
  <1>6. PICK r : r = FreePage OBVIOUS
  <1>7. /\ r.type = "free" /\ r.count = 0 /\ r.child = << >> /\ r.ent = l.ent
        /\ r \in NodeType
    BY <1>4, <1>5, <1>6 DEF NodeType
  <1>8. Len(r.ent) = MaxLeaf BY <1>4, <1>7
  <1> QED BY <1>6, <1>7, <1>8, Sizes DEF IsNode

-----------------------------------------------------------------------------
(* The keys of a page.                                                     *)
\* The keys of a page and the places of a key among them.
LEMMA KeysAre ==
  ASSUME NEW n \in NodeType, IsNode(n)
  PROVE  /\ n.count \in Nat /\ n.count <= Len(n.ent) /\ n.ent \in Seq(Nat)
         /\ n.child \in Seq(Pages) /\ n.next \in PageNo
         /\ SubSeq(n.ent, 1, n.count) \in Seq(Nat)
         /\ Len(SubSeq(n.ent, 1, n.count)) = n.count
         /\ \A i \in 1..n.count : SubSeq(n.ent, 1, n.count)[i] = n.ent[i]
         /\ Plain(n).keys = SubSeq(n.ent, 1, n.count)
         /\ Plain(n).kids = n.child /\ Plain(n).next = n.next
PROOF
  <1>1. PICK c \in Nat, e \in Seq(Nat) : c = n.count /\ e = n.ent BY DEF NodeType
  <1>2. n.child \in Seq(Pages) /\ n.next \in PageNo BY DEF NodeType
  <1>3. c <= Len(e)
    <2>1. n.type = "internal" => c = Len(e) BY <1>1 DEF IsNode
    <2>2. n.type # "internal" => Len(e) = MaxLeaf /\ c <= MaxLeaf BY <1>1 DEF IsNode
    <2> QED BY <1>1, <2>1, <2>2, Sizes
  <1>4. /\ SubSeq(e, 1, c) \in Seq(Nat) /\ Len(SubSeq(e, 1, c)) = c
        /\ \A i \in 1..c : SubSeq(e, 1, c)[i] = e[i]
    BY <1>1, <1>3
  <1>5. n.type = "internal" => SubSeq(e, 1, c) = e
    <2>1. SUFFICES ASSUME n.type = "internal" PROVE SubSeq(e, 1, c) = e OBVIOUS
    <2>2. c = Len(e) BY <1>1, <2>1 DEF IsNode
    <2>3. PICK s : s = SubSeq(e, 1, c) OBVIOUS
    <2>4. s = [i \in 1..c |-> s[i]] BY <1>4, <2>3
    <2>5. e = [i \in 1..c |-> e[i]] BY <1>1, <2>2
    <2>6. \A i \in 1..c : s[i] = e[i] BY <1>4, <2>3
    <2>7. s = e BY <2>4, <2>5, <2>6, Zenon
    <2> QED BY <2>3, <2>7
  <1>6. Plain(n).keys = SubSeq(e, 1, c) BY <1>1, <1>5 DEF Plain
  <1> QED BY <1>1, <1>2, <1>3, <1>4, <1>6 DEF Plain

\* Where leaf_find puts a key among the keys of a leaf.
LEMMA BelowIs ==
  ASSUME NEW n \in NodeType, IsNode(n), NEW l, NEW h, NEW ks,
         ks = SubSeq(n.ent, 1, n.count), InRange(ks, l, h), NEW k \in Nat
  PROVE  /\ Below(n, k) \in 1..(n.count + 1)
         /\ \A i \in 1..n.count : (i < Below(n, k) => ks[i] < k)
                                   /\ (i >= Below(n, k) => k <= ks[i])
PROOF
  <1>1. PICK c \in Nat : c = n.count BY KeysAre
  <1>2. /\ ks \in Seq(Nat) /\ Len(ks) = c /\ \A i \in 1..c : ks[i] = n.ent[i] /\ ks[i] \in Nat
    BY <1>1, KeysAre
  <1>3. \A i, j \in 1..c : i < j => ks[i] < ks[j] BY <1>2 DEF InRange, Ordered
  <1>4. PICK S : S = {i \in 1..(c + 1) : i = c + 1 \/ k <= ks[i]} OBVIOUS
  <1>5. S \subseteq Nat /\ S # {} BY <1>1, <1>4
  <1>6. PICK m \in S : \A x \in S : m <= x BY <1>5, Least
  <1>7. m \in 1..(c + 1) BY <1>4
  <1>8. ASSUME NEW i \in 1..c PROVE (i < m => ks[i] < k) /\ (i >= m => k <= ks[i])
    <2>1. i \in 1..(c + 1) OBVIOUS
    <2>2. i < m => i \notin S BY <2>1, <1>6, <1>7
    <2>3. i < m => ks[i] < k BY <2>1, <2>2, <1>2, <1>4
    <2>4. ASSUME i >= m PROVE k <= ks[i]
      <3>1. m \in 1..c BY <2>4, <1>7
      <3>4. m # c + 1 BY <3>1
      <3>2. k <= ks[m] BY <3>4, <1>4
      <3>3. m < i => ks[m] < ks[i] BY <3>1, <1>3
      <3> QED BY <3>1, <3>2, <3>3, <2>4, <1>2
    <2> QED BY <2>3, <2>4
  <1>9. {i \in 1..n.count : n.ent[i] < k} = 1..(m - 1)
    <2>1. ASSUME NEW i \in 1..c PROVE n.ent[i] < k <=> i \in 1..(m - 1)
      <3>1. PICK x \in Nat : x = ks[i] /\ x = n.ent[i] BY <1>2
      <3>2. i < m => x < k BY <1>8, <3>1
      <3>3. i >= m => k <= x BY <1>8, <3>1
      <3>4. x < k <=> i < m BY <3>2, <3>3, <1>7
      <3>5. i < m <=> i \in 1..(m - 1) BY <1>7
      <3> QED BY <3>1, <3>4, <3>5
    <2>2. 1..(m - 1) \subseteq 1..c BY <1>7
    <2> QED BY <2>1, <2>2, <1>1
  <1>10. m - 1 \in Nat BY <1>7
  <1>11. Cardinality(1..(m - 1)) = m - 1
    <2>1. PICK x \in Nat : x = m - 1 BY <1>10
    <2>2. Cardinality(1..x) = x BY FS_Interval, <2>1
    <2> QED BY <2>1, <2>2
  <1>12. Below(n, k) = m
    <2>1. Cardinality({i \in 1..n.count : n.ent[i] < k}) = m - 1 BY <1>9, <1>11, Zenon
    <2> QED BY <2>1, <1>7 DEF Below
  <1> QED BY <1>1, <1>7, <1>8, <1>12

\* The keys of a leaf, and those with one more.
Has(n, k) == k \in ToSet(SubSeq(n.ent, 1, n.count))
Within(n, l, h) == InRange(SubSeq(n.ent, 1, n.count), l, h)
Put(n, k) == InsertAt(SubSeq(n.ent, 1, n.count), Below(n, k), k)

\* A key that is not in a leaf goes where leaf_find says.
LEMMA PutIs ==
  ASSUME NEW n \in NodeType, IsNode(n), NEW l \in Nat, NEW h \in Nat, Within(n, l, h),
         NEW k \in Nat, l <= k, k < h, ~Has(n, k)
  PROVE  InRange(Put(n, k), l, h) /\ Len(Put(n, k)) = n.count + 1
PROOF
  <1>0. PICK ks : ks = SubSeq(n.ent, 1, n.count) OBVIOUS
  <1>1. PICK c \in Nat : c = n.count /\ Len(ks) = c /\ ks \in Seq(Nat) BY <1>0, KeysAre
  <1>2. PICK b : b = Below(n, k) OBVIOUS
  <1>3. /\ b \in 1..(c + 1) /\ InRange(ks, l, h) /\ k \notin ToSet(ks)
        /\ \A i \in 1..c : (i < b => ks[i] < k) /\ (i >= b => k <= ks[i])
    BY <1>0, <1>1, <1>2, BelowIs DEF Within, Has
  <1>4. \A i \in 1..c : ks[i] # k /\ ks[i] \in Nat
    <2>1. DOMAIN ks = 1..c BY <1>1
    <2>2. \A i \in DOMAIN ks : ks[i] # k BY <1>3, Zenon DEF ToSet
    <2>3. \A i \in 1..c : ks[i] # k BY <2>1, <2>2, Zenon
    <2>4. \A i \in 1..c : ks[i] \in Nat BY <1>1
    <2> QED BY <2>3, <2>4
  <1>5. \A i \in 1..Len(ks) : (i < b => ks[i] < k) /\ (i >= b => k < ks[i])
    BY <1>1, <1>3, <1>4
  <1>6. b \in 1..(Len(ks) + 1) BY <1>1, <1>3
  <1>7. InRange(InsertAt(ks, b, k), l, h) /\ Len(InsertAt(ks, b, k)) = Len(ks) + 1
    BY <1>3, <1>5, <1>6, InsertInRange
  <1> QED BY <1>0, <1>1, <1>2, <1>7 DEF Put

\* A key that is in a leaf is where leaf_find says.
LEMMA LeafHas ==
  ASSUME NEW n \in NodeType, IsNode(n), NEW l, NEW h, NEW ks,
         ks = SubSeq(n.ent, 1, n.count), InRange(ks, l, h),
         NEW k \in Nat, k \in ToSet(ks)
  PROVE  Below(n, k) \in 1..n.count
PROOF
  <1>1. PICK c \in Nat : c = n.count /\ Len(ks) = c /\ ks \in Seq(Nat) BY KeysAre
  <1>2. PICK b : b = Below(n, k) OBVIOUS
  <1>3. /\ b \in 1..(c + 1)
        /\ \A i \in 1..c : (i < b => ks[i] < k) /\ (i >= b => k <= ks[i])
    BY <1>1, <1>2, BelowIs
  <1>4. PICK i \in 1..c : ks[i] = k BY <1>1 DEF ToSet
  <1>5. ~(i < b)
    <2>1. ~(ks[i] < k) BY <1>1, <1>4
    <2> QED BY <2>1, <1>3
  <1> QED BY <1>1, <1>2, <1>3, <1>5

LEMMA StackIs ==
  /\ ToSet(<< >>) = {}
  /\ \A p : ToSet(<<p>>) = {p}
  /\ \A s \in Seq(Pages) : \A i \in 1..Len(s) : s[i] \in ToSet(s) /\ s[i] \in Pages
  /\ \A s \in Seq(Pages) : \A p \in ToSet(s) : \E i \in 1..Len(s) : s[i] = p
PROOF BY DEF ToSet
-----------------------------------------------------------------------------
(* What a page of the tree holds.                                          *)
LEMMA PlainView ==
  ASSUME NEW N, NEW l, NEW p, ~(Growing(l) /\ p = l.held[l.level]),
         ~(l.pc = "unlink" /\ p = l.held[l.level - 1])
  PROVE  View(N, l, p) = Plain(N[p])
PROOF BY Zenon DEF View

\* The pages of the tree hold what the keys they stand for call for.
Page(N, p, T, lo, hi, lev, top) ==
  /\ p \in Pages /\ N[p] \in NodeType /\ IsNode(N[p]) /\ N[p].count \in Nat
  /\ lo[p] \in Nat /\ hi[p] \in Nat /\ lev[p] \in Nat /\ lo[p] < hi[p] /\ hi[p] <= top
  /\ lev[p] = 0 => N[p].type = "leaf"
  /\ lev[p] # 0 => N[p].type = "internal"

LEMMA PageIs ==
  ASSUME NEW N, NEW r, NEW F, NEW l, NEW T, NEW v, NEW lo, NEW hi, NEW lev, NEW top,
         Nodes(N, r, F), Shaped(N, r, F, l, T, v, lo, hi, lev, top), NEW p \in T
  PROVE  Page(N, p, T, lo, hi, lev, top)
PROOF
  <1>1. p \in Pages BY DEF Shaped
  <1>2. N[p] \in NodeType /\ IsNode(N[p]) BY <1>1 DEF Nodes
  <1>3. N[p].count \in Nat BY <1>2, KeysAre
  <1>4. Ranges(T, lo, hi, lev, lev[r], top) BY DEF Shaped, Tree
  <1>5. /\ lo[p] \in Nat /\ hi[p] \in Nat /\ lev[p] \in 0..lev[r]
        /\ lo[p] < hi[p] /\ hi[p] <= top
    BY <1>4 DEF Ranges
  <1>6. N[p].type = IF lev[p] = 0 THEN "leaf" ELSE "internal" BY DEF Shaped
  <1> QED BY <1>1, <1>2, <1>3, <1>5, <1>6 DEF Page

LEMMA InnerPage ==
  ASSUME NEW N, NEW r, NEW F, NEW l, NEW T, NEW v, NEW lo, NEW hi, NEW lev, NEW top,
         Nodes(N, r, F), Shaped(N, r, F, l, T, v, lo, hi, lev, top), NEW p \in T,
         View(N, l, p) = Plain(N[p]), N[p].type = "internal"
  PROVE  /\ InnerFits(N[p].ent, N[p].child, lo[p], hi[p], lev[p], T, lo, hi, lev)
         /\ v[p].keys = N[p].ent /\ v[p].kids = N[p].child
         /\ N[p].count = Len(N[p].ent) /\ Len(N[p].child) = N[p].count + 1
         /\ N[p].count <= MaxInternal /\ lev[p] # 0
PROOF
  <1>1. Page(N, p, T, lo, hi, lev, top) BY PageIs
  <1>2. lev[p] # 0 BY <1>1 DEF Page
  <1>3. Tree(T, v, lo, hi, lev, lev[r], top) /\ v[p] = Plain(N[p]) BY DEF Shaped
  <1>4. Fits(v[p], p, T, lo, hi, lev, top) BY <1>3 DEF Tree
  <1>5. InnerFits(v[p].keys, v[p].kids, lo[p], hi[p], lev[p], T, lo, hi, lev)
    BY <1>2, <1>4 DEF Fits
  <1>6. v[p].keys = N[p].ent /\ v[p].kids = N[p].child BY <1>3 DEF Plain
  <1>7. N[p].count = Len(N[p].ent) /\ N[p].count <= MaxInternal BY <1>1 DEF Page, IsNode
  <1>8. Len(v[p].kids) = Len(v[p].keys) + 1 BY <1>5 DEF InnerFits
  <1>9. InnerFits(N[p].ent, N[p].child, lo[p], hi[p], lev[p], T, lo, hi, lev)
    BY <1>5, <1>6, Zenon
  <1> QED BY <1>2, <1>6, <1>7, <1>8, <1>9

LEMMA LeafPage ==
  ASSUME NEW N, NEW r, NEW F, NEW l, NEW T, NEW v, NEW lo, NEW hi, NEW lev, NEW top,
         Nodes(N, r, F), Shaped(N, r, F, l, T, v, lo, hi, lev, top), NEW p \in T,
         View(N, l, p) = Plain(N[p]), N[p].type = "leaf"
  PROVE  /\ InRange(SubSeq(N[p].ent, 1, N[p].count), lo[p], hi[p]) /\ lev[p] = 0
         /\ hi[p] = top => N[p].next = 0
         /\ hi[p] # top => N[p].next \in T /\ lev[N[p].next] = 0 /\ lo[N[p].next] = hi[p]
         /\ v[p].keys = SubSeq(N[p].ent, 1, N[p].count) /\ v[p].kids = << >>
         /\ v[p].next = N[p].next /\ N[p].child = << >> /\ Len(N[p].ent) = MaxLeaf
         /\ N[p].count <= MaxLeaf
PROOF
  <1>1. Page(N, p, T, lo, hi, lev, top) BY PageIs
  <1>2. lev[p] = 0 BY <1>1 DEF Page
  <1>3. Tree(T, v, lo, hi, lev, lev[r], top) /\ v[p] = Plain(N[p]) BY DEF Shaped
  <1>4. Fits(v[p], p, T, lo, hi, lev, top) BY <1>3 DEF Tree
  <1>5. LeafFits(v[p], lo[p], hi[p], T, lo, lev, top) BY <1>2, <1>4 DEF Fits
  <1>6. N[p].child = << >> /\ Len(N[p].ent) = MaxLeaf /\ N[p].count <= MaxLeaf
    BY <1>1 DEF Page, IsNode
  <1>7. /\ v[p].keys = SubSeq(N[p].ent, 1, N[p].count) /\ v[p].kids = << >>
        /\ v[p].next = N[p].next
    <2>1. PICK n : n = N[p] OBVIOUS
    <2>2. n.type = "leaf" /\ n.child = << >> BY <2>1, <1>6
    <2>3. /\ Plain(n).keys = SubSeq(n.ent, 1, n.count) /\ Plain(n).kids = << >>
          /\ Plain(n).next = n.next
      BY <2>2 DEF Plain
    <2> QED BY <2>1, <2>3, <1>3
  <1>8. InRange(v[p].keys, lo[p], hi[p]) BY <1>5 DEF LeafFits
  <1>9. /\ hi[p] = top => v[p].next = 0
        /\ hi[p] # top => v[p].next \in T /\ lev[v[p].next] = 0 /\ lo[v[p].next] = hi[p]
    BY <1>5 DEF LeafFits
  <1>10. InRange(SubSeq(N[p].ent, 1, N[p].count), lo[p], hi[p]) BY <1>7, <1>8, Zenon
  <1> QED BY <1>2, <1>6, <1>7, <1>9, <1>10

-----------------------------------------------------------------------------
(* Steps of the threads.                                                   *)
Moves(H, t, l2, H2) == H2 = [H EXCEPT ![t] = l2]

LEMMA MovesIs ==
  ASSUME NEW N, NEW H, NEW T, NEW lo, NEW hi, Threading(N, H, T, lo, hi),
         NEW t \in Threads, NEW l2 \in Locals, NEW H2, Moves(H, t, l2, H2)
  PROVE  /\ H2 \in [Threads -> Locals] /\ H2[t] = l2
         /\ \A u \in Threads \ {t} : H2[u] = H[u]
PROOF
  <1>1. H \in [Threads -> Locals] BY DEF Threading
  <1> QED BY <1>1 DEF Moves

\* A step of another thread than the writer.
LEMMA ReaderStep ==
  ASSUME NEW wr \in Threads, NEW N, NEW r, NEW F, NEW H, NEW T, NEW v, NEW lo, NEW hi, NEW lev,
         NEW top, Whole(wr, N, r, F, H, T, v, lo, hi, lev, top),
         NEW t \in Threads \ {wr}, NEW l2 \in Locals, NEW H2, Moves(H, t, l2, H2),
         Asked(l2, t), OnItsWay(N, l2, T, lo, hi), Writes(l2) => l2.pc \in Outside,
         \A p \in ToSet(l2.held) :
           p \in ToSet(H[t].held) \/ (p \in ToSet(H[wr].held) => ~Writes(H[wr]))
  PROVE  Whole(wr, N, r, F, H2, T, v, lo, hi, lev, top)
PROOF
  <1>1. /\ Threading(N, H, T, lo, hi) /\ Latched(wr, H) /\ Alone(wr, H) BY DEF Whole
  <1>2. wr \in Threads OBVIOUS
  <1>3. /\ H2 \in [Threads -> Locals] /\ H2[t] = l2
        /\ \A u \in Threads \ {t} : H2[u] = H[u]
    BY <1>1, MovesIs
  <1>4. H2[wr] = H[wr] BY <1>2, <1>3
  <1>5. Threading(N, H2, T, lo, hi)
    <2>1. ASSUME NEW u \in Threads PROVE Asked(H2[u], u) /\ OnItsWay(N, H2[u], T, lo, hi)
      <3>1. CASE u = t BY <3>1, <1>3
      <3>2. CASE u # t BY <3>2, <1>1, <1>3 DEF Threading
      <3> QED BY <3>1, <3>2
    <2> QED BY <2>1, <1>3 DEF Threading
  <1>6. Latched(wr, H2)
    <2>1. SUFFICES ASSUME Writes(H[wr]), NEW p \in ToSet(H[wr].held), NEW u \in Threads \ {wr}
                   PROVE  p \notin ToSet(H2[u].held)
      BY <1>4 DEF Latched, Elsewhere
    <2>2. \A w \in Threads \ {wr} : p \notin ToSet(H[w].held)
      BY <2>1, <1>1 DEF Latched, Elsewhere
    <2>3. CASE u = t BY <2>1, <2>2, <2>3, <1>3
    <2>4. CASE u # t BY <2>2, <2>4, <1>3
    <2> QED BY <2>3, <2>4
  <1>7. Alone(wr, H2)
    <2>1. ASSUME NEW u \in Threads \ {wr}, Writes(H2[u]) PROVE H2[u].pc \in Outside
      <3>1. CASE u = t BY <3>1, <2>1, <1>3
      <3>2. CASE u # t BY <3>2, <2>1, <1>1, <1>3 DEF Alone
      <3> QED BY <3>1, <3>2
    <2> QED BY <2>1 DEF Alone
  <1> QED BY <1>4, <1>5, <1>6, <1>7 DEF Whole

\* A step of the writer: what others have latched stays as it is.
Undisturbed(wr, N, H, T, lo, hi, N2, T2, lo2, hi2) ==
  \A p \in T : \/ Elsewhere(wr, H, p)
               \/ p \in T2 /\ N2[p] = N[p] /\ lo2[p] = lo[p] /\ hi2[p] = hi[p]
Took(wr, H, l2) == Writes(l2) => \A p \in ToSet(l2.held) : Elsewhere(wr, H, p)

LEMMA StillOnItsWay ==
  ASSUME NEW wr, NEW N, NEW H, NEW T, NEW lo, NEW hi, NEW N2, NEW T2, NEW lo2, NEW hi2,
         Threading(N, H, T, lo, hi), NEW u \in Threads \ {wr},
         Undisturbed(wr, N, H, T, lo, hi, N2, T2, lo2, hi2)
  PROVE  OnItsWay(N2, H[u], T2, lo2, hi2)
PROOF
  <1>1. PICK l \in Locals : l = H[u] BY DEF Threading
  <1>2. OnItsWay(N, l, T, lo, hi) BY <1>1 DEF Threading
  <1>3. l.held \in Seq(Pages) BY DEF Locals
  <1>4. ASSUME Len(l.held) >= 1, Here(l) \in T
        PROVE  /\ Here(l) \in T2 /\ N2[Here(l)] = N[Here(l)]
               /\ lo2[Here(l)] = lo[Here(l)] /\ hi2[Here(l)] = hi[Here(l)]
    <2>1. Here(l) \in ToSet(l.held)
      <3>1. PICK n \in Nat : n = Len(l.held) BY <1>3
      <3>2. n \in 1..Len(l.held) BY <3>1, <1>4
      <3>3. l.held[n] \in ToSet(l.held) BY <3>2, <1>3, StackIs
      <3> QED BY <3>1, <3>3 DEF Here
    <2>2. ~Elsewhere(wr, H, Here(l)) BY <2>1, <1>1 DEF Elsewhere
    <2> QED BY <2>2, <1>4 DEF Undisturbed
  <1>5. l.pc \in {"child", "leaf"} =>
          /\ Len(l.held) >= 1 /\ Here(l) \in T2
          /\ lo2[Here(l)] <= l.request.low /\ l.request.low < hi2[Here(l)]
          /\ l.pc = "child" =>
               /\ N2[Here(l)].type = "internal"
               /\ l.want = N2[Here(l)].child[Upto(N2[Here(l)], l.request.low)]
          /\ l.pc = "leaf" => N2[Here(l)].type = "leaf"
    <2>1. SUFFICES ASSUME l.pc \in {"child", "leaf"}
                   PROVE  /\ Len(l.held) >= 1 /\ Here(l) \in T2
                          /\ lo2[Here(l)] <= l.request.low /\ l.request.low < hi2[Here(l)]
                          /\ l.pc = "child" =>
                               /\ N2[Here(l)].type = "internal"
                               /\ l.want = N2[Here(l)].child[Upto(N2[Here(l)], l.request.low)]
                          /\ l.pc = "leaf" => N2[Here(l)].type = "leaf"
      OBVIOUS
    <2>2. /\ Len(l.held) >= 1 /\ Here(l) \in T
          /\ lo[Here(l)] <= l.request.low /\ l.request.low < hi[Here(l)]
          /\ l.pc = "child" =>
               /\ N[Here(l)].type = "internal"
               /\ l.want = N[Here(l)].child[Upto(N[Here(l)], l.request.low)]
          /\ l.pc = "leaf" => N[Here(l)].type = "leaf"
      BY <2>1, <1>2 DEF OnItsWay
    <2>3. /\ Here(l) \in T2 /\ N2[Here(l)] = N[Here(l)]
          /\ lo2[Here(l)] = lo[Here(l)] /\ hi2[Here(l)] = hi[Here(l)]
      BY <2>2, <1>4
    <2> QED BY <2>2, <2>3
  <1>6. l.pc \in {"next", "more"} =>
          /\ Len(l.held) = 1 /\ Here(l) \in T2 /\ N2[Here(l)].type = "leaf"
          /\ l.pc = "next" => l.want = N2[Here(l)].next /\ l.want # 0
    <2>1. SUFFICES ASSUME l.pc \in {"next", "more"}
                   PROVE  /\ Len(l.held) = 1 /\ Here(l) \in T2 /\ N2[Here(l)].type = "leaf"
                          /\ l.pc = "next" => l.want = N2[Here(l)].next /\ l.want # 0
      OBVIOUS
    <2>2. /\ Len(l.held) = 1 /\ Here(l) \in T /\ N[Here(l)].type = "leaf"
          /\ l.pc = "next" => l.want = N[Here(l)].next /\ l.want # 0
      BY <2>1, <1>2 DEF OnItsWay
    <2>3. Len(l.held) >= 1 BY <2>2
    <2>4. Here(l) \in T2 /\ N2[Here(l)] = N[Here(l)] BY <2>2, <2>3, <1>4
    <2> QED BY <2>2, <2>4
  <1>7. /\ l.pc \in {"idle", "root", "return"} => l.held = << >>
        /\ l.pc = "root" => l.want \in Pages
        /\ ~Writes(l) => l.pc \in ReaderPcs /\ Len(l.held) <= 1
        /\ l.pc \in {"next", "more"} => ~Writes(l)
    BY <1>2 DEF OnItsWay
  <1>8. OnItsWay(N2, l, T2, lo2, hi2) BY <1>5, <1>6, <1>7 DEF OnItsWay
  <1> QED BY <1>1, <1>8

LEMMA WriterStep ==
  ASSUME NEW wr \in Threads, NEW N, NEW r, NEW F, NEW H, NEW T, NEW v, NEW lo, NEW hi, NEW lev,
         NEW top, Whole(wr, N, r, F, H, T, v, lo, hi, lev, top),
         NEW l2 \in Locals, NEW H2, Moves(H, wr, l2, H2),
         NEW N2, NEW r2, NEW F2, NEW T2, NEW v2, NEW lo2, NEW hi2, NEW lev2,
         Asked(l2, wr), OnItsWay(N2, l2, T2, lo2, hi2), Took(wr, H, l2),
         Undisturbed(wr, N, H, T, lo, hi, N2, T2, lo2, hi2), Nodes(N2, r2, F2),
         Shaped(N2, r2, F2, l2, T2, v2, lo2, hi2, lev2, top), Filled(N2, r2, l2, T2),
         Writing(N2, r2, l2, T2, lo2, hi2, lev2, top)
  PROVE  Whole(wr, N2, r2, F2, H2, T2, v2, lo2, hi2, lev2, top)
PROOF
  <1>1. Threading(N, H, T, lo, hi) /\ Bound(top) /\ Alone(wr, H) BY DEF Whole
  <1>2. wr \in Threads OBVIOUS
  <1>3. /\ H2 \in [Threads -> Locals] /\ H2[wr] = l2
        /\ \A u \in Threads \ {wr} : H2[u] = H[u]
    BY <1>1, <1>2, MovesIs
  <1>4. Threading(N2, H2, T2, lo2, hi2)
    <2>1. ASSUME NEW u \in Threads PROVE Asked(H2[u], u) /\ OnItsWay(N2, H2[u], T2, lo2, hi2)
      <3>1. CASE u = wr BY <3>1, <1>3
      <3>2. CASE u # wr
        <4>1. H2[u] = H[u] /\ u \in Threads \ {wr} BY <3>2, <1>3
        <4>2. Asked(H[u], u) BY <1>1 DEF Threading
        <4>3. OnItsWay(N2, H[u], T2, lo2, hi2) BY <4>1, <1>1, StillOnItsWay
        <4> QED BY <4>1, <4>2, <4>3
      <3> QED BY <3>1, <3>2
    <2> QED BY <2>1, <1>3 DEF Threading
  <1>5. Latched(wr, H2)
    <2>1. SUFFICES ASSUME Writes(l2), NEW p \in ToSet(l2.held) PROVE Elsewhere(wr, H2, p)
      BY <1>3 DEF Latched
    <2>2. Elsewhere(wr, H, p) BY <2>1 DEF Took
    <2> QED BY <2>2, <1>3 DEF Elsewhere
  <1>6. Alone(wr, H2) BY <1>1, <1>3 DEF Alone
  <1> QED BY <1>1, <1>3, <1>4, <1>5, <1>6 DEF Whole

\* A step of the writer that changes no page.
Midway == {"up", "unlink", "split"}
LEMMA CalmStep ==
  ASSUME NEW wr \in Threads, NEW N, NEW r, NEW F, NEW H, NEW T, NEW v, NEW lo, NEW hi, NEW lev,
         NEW top, Whole(wr, N, r, F, H, T, v, lo, hi, lev, top),
         NEW l2 \in Locals, NEW H2, Moves(H, wr, l2, H2),
         H[wr].pc \notin Midway, l2.pc \notin Midway,
         Asked(l2, wr), OnItsWay(N, l2, T, lo, hi), Took(wr, H, l2),
         Filled(N, r, l2, T), Writing(N, r, l2, T, lo, hi, lev, top)
  PROVE  Whole(wr, N, r, F, H2, T, v, lo, hi, lev, top)
PROOF
  <1>1. PICK l : l = H[wr] OBVIOUS
  <1>2. Shaped(N, r, F, l, T, v, lo, hi, lev, top) BY <1>1 DEF Whole
  <1>3. \A p \in T : View(N, l, p) = Plain(N[p]) /\ View(N, l2, p) = Plain(N[p])
    BY <1>1, PlainView DEF Growing, Midway
  <1>4. /\ Loose(l) = {} /\ Loose(l2) = {} /\ ~Orphan(l) /\ ~Orphan(l2)
    BY <1>1 DEF Loose, Orphan, Midway
  <1>5. Shaped(N, r, F, l2, T, v, lo, hi, lev, top)
    <2>1. T = (Pages \ F) \ Loose(l2) BY <1>2, <1>4 DEF Shaped
    <2>2. Tree(T, v, lo, hi, lev, lev[r], top) BY <1>2 DEF Shaped
    <2>3. \A p \in T : /\ v[p] = View(N, l2, p)
                       /\ N[p].type = IF lev[p] = 0 THEN "leaf" ELSE "internal"
      BY <1>2, <1>3 DEF Shaped
    <2>4. r \in T /\ lo[r] = 0 /\ hi[r] = IF Orphan(l2) THEN l2.sep ELSE top
      BY <1>2, <1>4 DEF Shaped
    <2> QED BY <2>1, <2>2, <2>3, <2>4 DEF Shaped
  <1>6. Undisturbed(wr, N, H, T, lo, hi, N, T, lo, hi) BY DEF Undisturbed
  <1>7. Nodes(N, r, F) BY DEF Whole
  <1> QED BY <1>5, <1>6, <1>7, WriterStep

\* Between its operations and on its way down the writer owes the tree nothing.
LEMMA Resting ==
  ASSUME NEW N, NEW r, NEW l, NEW T, NEW lo, NEW hi, NEW lev, NEW top,
         \/ l.pc \in {"idle", "root", "next", "more", "return"}
         \/ l.pc \in {"child", "leaf"} /\ Descending(N, r, l, T, lev)
  PROVE  Writing(N, r, l, T, lo, hi, lev, top)
PROOF
  <1>1. /\ l.pc # "split" /\ l.pc # "up" /\ l.pc \notin Repairing
        /\ l.pc # "unlink" /\ l.pc # "parent"
    BY DEF Repairing
  <1>2. Descending(N, r, l, T, lev) BY DEF Descending
  <1>3. Splitting(N, r, l, T, lo, hi, lev) BY <1>1 DEF Splitting
  <1>4. Rising(N, r, l, T, lo, hi, lev, top) BY <1>1 DEF Rising
  <1>5. Mending(N, r, l, T, lev) BY <1>1 DEF Mending
  <1>6. Unlinking(N, r, l, T, lev) BY <1>1 DEF Unlinking
  <1>7. Settling(N, r, l, T, lev) BY <1>1 DEF Settling
  <1> QED BY <1>2, <1>3, <1>4, <1>5, <1>6, <1>7 DEF Writing

LEMMA FilledStill ==
  ASSUME NEW N, NEW r, NEW l, NEW l2, NEW T, Filled(N, r, l, T),
         \/ l.pc \notin Repairing \cup {"parent"} /\ l2.pc \notin Repairing \cup {"parent"}
         \/ /\ l.pc \in Repairing \cup {"parent"} /\ l2.pc \in Repairing \cup {"parent"}
            /\ l.held[l.level] = l2.held[l2.level]
  PROVE  Filled(N, r, l2, T)
PROOF
  <1>1. \A p : Weak(l, p) <=> Weak(l2, p) BY DEF Weak
  <1> QED BY <1>1 DEF Filled

-----------------------------------------------------------------------------
(* Steps that change no page.                                              *)

\* CanLatch of BPTree.
Latchable(H, t, p) ==
  \A u \in Threads : p \in ToSet(H[u].held) => ~Writes(H[u]) /\ ~Writes(H[t])

LEMMA LatchableIs ==
  ASSUME NEW t, NEW p, CanLatch(t, p)
  PROVE  Latchable(th, t, p)
PROOF BY DEF CanLatch, HeldBy, Writer, Latchable, Writes

LEMMA WholeIs ==
  ASSUME NEW wr \in Threads, NEW N, NEW r, NEW F, NEW H, NEW T, NEW v, NEW lo, NEW hi, NEW lev,
         NEW top, Whole(wr, N, r, F, H, T, v, lo, hi, lev, top)
  PROVE  /\ Nodes(N, r, F) /\ Shaped(N, r, F, H[wr], T, v, lo, hi, lev, top)
         /\ Filled(N, r, H[wr], T) /\ Threading(N, H, T, lo, hi)
         /\ Alone(wr, H) /\ Latched(wr, H) /\ Writing(N, r, H[wr], T, lo, hi, lev, top) /\ Bound(top)
         /\ \A t \in Threads : H[t] \in Locals /\ Asked(H[t], t) /\ OnItsWay(N, H[t], T, lo, hi)
PROOF BY DEF Whole, Threading

LEMMA AnyCalm ==
  ASSUME NEW wr \in Threads, NEW N, NEW r, NEW F, NEW H, NEW T, NEW v, NEW lo, NEW hi, NEW lev,
         NEW top, Whole(wr, N, r, F, H, T, v, lo, hi, lev, top),
         NEW t \in Threads, NEW l2 \in Locals, NEW H2, Moves(H, t, l2, H2),
         H[t].pc \notin Midway, l2.pc \notin Midway,
         Asked(l2, t), OnItsWay(N, l2, T, lo, hi),
         \A p \in ToSet(l2.held) : p \in ToSet(H[t].held) \/ Latchable(H, t, p),
         (Writes(l2) => Writes(H[t])) \/ l2.held = << >>,
         t # wr /\ Writes(l2) => l2.pc \in Outside,
         t = wr => Filled(N, r, l2, T) /\ Writing(N, r, l2, T, lo, hi, lev, top)
  PROVE  Whole(wr, N, r, F, H2, T, v, lo, hi, lev, top)
PROOF
  <1>1. Latched(wr, H) BY WholeIs
  <1>2. CASE t = wr
    <2>1. Took(wr, H, l2)
      <3>1. SUFFICES ASSUME Writes(l2), NEW p \in ToSet(l2.held) PROVE Elsewhere(wr, H, p)
        BY DEF Took
      <3>2. Writes(H[wr]) BY <3>1, <1>2, StackIs
      <3>3. CASE p \in ToSet(H[wr].held) BY <3>2, <3>3, <1>1 DEF Latched
      <3>4. CASE Latchable(H, wr, p)
        <4>1. \A u \in Threads : p \notin ToSet(H[u].held) BY <3>2, <3>4 DEF Latchable
        <4> QED BY <4>1 DEF Elsewhere
      <3> QED BY <3>1, <3>3, <3>4, <1>2
    <2> QED BY <2>1, <1>2, CalmStep
  <1>3. CASE t # wr
    <2>1. \A p \in ToSet(l2.held) :
            p \in ToSet(H[t].held) \/ (p \in ToSet(H[wr].held) => ~Writes(H[wr]))
      BY <1>1 DEF Latchable
    <2> QED BY <2>1, <1>3, ReaderStep
  <1> QED BY <1>2, <1>3

LEMMA IdleIs == Idle \in Locals /\ Idle.pc = "idle" /\ Idle.held = << >>
                /\ Idle.request.op = "none"
PROOF
  <1>1. << >> \in Seq(Pages) /\ << >> \in Seq(Nat) /\ 0 \in PageNo OBVIOUS
  <1>2. NoRequest \in Requests /\ NoRequest.op = "none" BY DEF NoRequest, Requests
  <1>3. NoHeader \in [page : PageNo, count : Nat, next : PageNo] BY <1>1 DEF NoHeader
  <1>4. "idle" \in Pcs BY DEF Pcs, ReaderPcs
  <1> QED BY <1>1, <1>2, <1>3, <1>4 DEF Idle, Locals

\* A thread that has released its latches and is about to return.
Ended(d, l, got, res) ==
  d = [Idle EXCEPT !.pc = "return", !.request = l.request, !.got = got, !.result = res]

LEMMA EndedIs ==
  ASSUME NEW l \in Locals, NEW got \in Seq(Nat), NEW res \in {"none", "found", "missing"},
         NEW d, Ended(d, l, got, res)
  PROVE  d \in Locals /\ d.pc = "return" /\ d.held = << >> /\ d.request = l.request
PROOF
  <1>1. l.request \in Requests BY DEF Locals
  <1>2. "return" \in Pcs BY DEF Pcs, ReaderPcs
  <1> QED BY <1>1, <1>2, IdleIs DEF Ended, Locals

LEMMA EndedFits ==
  ASSUME NEW t, NEW l \in Locals, NEW got \in Seq(Nat), l.pc # "idle", Asked(l, t),
         NEW res \in {"none", "found", "missing"}, NEW d, Ended(d, l, got, res),
         NEW N, NEW r, NEW T, NEW lo, NEW hi, NEW lev, NEW top
  PROVE  /\ OnItsWay(N, d, T, lo, hi) /\ Asked(d, t) /\ ToSet(d.held) = {}
         /\ Writing(N, r, d, T, lo, hi, lev, top)
PROOF
  <1>1. d \in Locals /\ d.pc = "return" /\ d.held = << >> /\ d.request = l.request
    BY EndedIs
  <1>2. OnItsWay(N, d, T, lo, hi)
    <2>1. Len(d.held) <= 1 /\ d.pc \in ReaderPcs BY <1>1 DEF ReaderPcs
    <2> QED BY <2>1, <1>1 DEF OnItsWay
  <1>3. Asked(d, t) BY <1>1 DEF Asked
  <1>4. Writing(N, r, d, T, lo, hi, lev, top) BY <1>1, Resting
  <1> QED BY <1>1, <1>2, <1>3, <1>4, StackIs

LEMMA EndCalm ==
  ASSUME NEW wr \in Threads, NEW N, NEW r, NEW F, NEW H, NEW T, NEW v, NEW lo, NEW hi, NEW lev,
         NEW top, Whole(wr, N, r, F, H, T, v, lo, hi, lev, top),
         NEW t \in Threads, NEW got \in Seq(Nat), NEW res \in {"none", "found", "missing"},
         NEW d, Ended(d, H[t], got, res), NEW H2, Moves(H, t, d, H2),
         H[t].pc \notin Midway \cup {"idle"},
         t = wr => Filled(N, r, d, T)
  PROVE  Whole(wr, N, r, F, H2, T, v, lo, hi, lev, top)
PROOF
  <1>1. H[t] \in Locals /\ Asked(H[t], t) BY WholeIs
  <1>2. d \in Locals /\ d.pc = "return" /\ d.held = << >> BY <1>1, EndedIs
  <1>3. /\ OnItsWay(N, d, T, lo, hi) /\ Asked(d, t) /\ ToSet(d.held) = {}
        /\ Writing(N, r, d, T, lo, hi, lev, top)
    BY <1>1, EndedFits
  <1>4. H[t].pc \notin Midway /\ d.pc \notin Midway /\ d.pc \in Outside
    BY <1>2 DEF Midway, Outside
  <1> QED BY <1>2, <1>3, <1>4, AnyCalm

\* The invariant after a step that changes no page.
LEMMA Unmoved ==
  ASSUME NEW wr, UNCHANGED <<node, root, free>>, NEW T, NEW v, NEW lo, NEW hi, NEW lev, NEW top,
         Whole(wr, node, root, free, th', T, v, lo, hi, lev, top)
  PROVE  InvOf(wr)'
PROOF
  <1>1. Whole(wr, node, root, free, th, T, v, lo, hi, lev, top)' OBVIOUS
  <1> QED BY <1>1 DEF InvOf

LEMMA FilledSame ==
  ASSUME NEW N, NEW r, NEW l, NEW l2, NEW T, Filled(N, r, l, T),
         l.pc \in ReaderPcs, l2.pc \in ReaderPcs
  PROVE  Filled(N, r, l2, T)
PROOF
  <1>1. /\ l.pc \notin Repairing \cup {"parent"}
        /\ l2.pc \notin Repairing \cup {"parent"}
    BY DEF ReaderPcs, Repairing
  <1> QED BY <1>1, FilledStill

-----------------------------------------------------------------------------
LEMMA CallStep ==
  ASSUME NEW wr \in Threads, InvOf(wr), NEW t \in Threads, Call(t)
  PROVE  InvOf(wr)'
PROOF
  <1>1. PICK T, v, lo, hi, lev, top : Whole(wr, node, root, free, th, T, v, lo, hi, lev, top)
    BY DEF InvOf
  <1>2. PICK q \in Workload[t] :
          th' = [th EXCEPT ![t] = [Idle EXCEPT !.pc = "root", !.request = q, !.want = root]]
    BY DEF Call
  <1>3. PICK l2 : l2 = [Idle EXCEPT !.pc = "root", !.request = q, !.want = root] OBVIOUS
  <1>4. /\ Nodes(node, root, free) /\ Filled(node, root, th[wr], T) BY <1>1, WholeIs
  <1>5. root \in Pages BY <1>4 DEF Nodes
  <1>6. q \in Requests BY BPTreeAssumption DEF BPTreeAssumption
  <1>7. /\ l2 \in Locals /\ l2.pc = "root" /\ l2.request = q /\ l2.want = root
        /\ l2.held = << >>
    <2>1. "root" \in Pcs /\ root \in PageNo BY <1>5 DEF Pcs, ReaderPcs
    <2> QED BY <2>1, <1>3, <1>6, IdleIs DEF Locals
  <1>8. OnItsWay(node, l2, T, lo, hi)
    <2>1. Len(l2.held) <= 1 /\ l2.pc \in ReaderPcs BY <1>7 DEF ReaderPcs
    <2> QED BY <2>1, <1>5, <1>7 DEF OnItsWay
  <1>9. Asked(l2, t) BY <1>7 DEF Asked
  <1>10. th[t].pc = "idle" /\ UNCHANGED <<node, root, free>> BY DEF Call
  <1>11. th[t].pc \notin Midway /\ l2.pc \notin Midway /\ l2.pc \in Outside
    BY <1>7, <1>10 DEF Midway, Outside
  <1>12. ToSet(l2.held) = {} BY <1>7, StackIs
  <1>13. t = wr => Filled(node, root, l2, T)
    <2>1. l2.pc \in ReaderPcs /\ th[t].pc \in ReaderPcs BY <1>7, <1>10 DEF ReaderPcs
    <2> QED BY <2>1, <1>4, FilledSame
  <1>14. Writing(node, root, l2, T, lo, hi, lev, top) BY <1>7, Resting
  <1>15. Moves(th, t, l2, th') BY <1>2, <1>3 DEF Moves
  <1>16. Whole(wr, node, root, free, th', T, v, lo, hi, lev, top)
    BY <1>1, <1>7, <1>8, <1>9, <1>11, <1>12, <1>13, <1>14, <1>15, AnyCalm
  <1> QED BY <1>10, <1>16, Unmoved

LEMMA ReturnStep ==
  ASSUME NEW wr \in Threads, InvOf(wr), NEW t \in Threads, Return(t)
  PROVE  InvOf(wr)'
PROOF
  <1>1. PICK T, v, lo, hi, lev, top : Whole(wr, node, root, free, th, T, v, lo, hi, lev, top)
    BY DEF InvOf
  <1>2. Filled(node, root, th[wr], T) BY <1>1, WholeIs
  <1>3. th[t].pc = "return" /\ UNCHANGED <<node, root, free>> BY DEF Return
  <1>4. PICK l2 : l2 = Idle OBVIOUS
  <1>5. l2 \in Locals /\ l2.pc = "idle" /\ l2.held = << >> /\ l2.request.op = "none"
    BY <1>4, IdleIs
  <1>6. OnItsWay(node, l2, T, lo, hi)
    <2>1. Len(l2.held) <= 1 /\ l2.pc \in ReaderPcs BY <1>5 DEF ReaderPcs
    <2> QED BY <2>1, <1>5 DEF OnItsWay
  <1>7. Asked(l2, t) BY <1>5 DEF Asked
  <1>8. th[t].pc \notin Midway /\ l2.pc \notin Midway /\ ~Writes(l2)
    BY <1>3, <1>5 DEF Midway, Writes
  <1>9. ToSet(l2.held) = {} BY <1>5, StackIs
  <1>10. t = wr => Filled(node, root, l2, T)
    <2>1. l2.pc \in ReaderPcs /\ th[t].pc \in ReaderPcs BY <1>3, <1>5 DEF ReaderPcs
    <2> QED BY <2>1, <1>2, FilledSame
  <1>11. Writing(node, root, l2, T, lo, hi, lev, top) BY <1>5, Resting
  <1>12. Moves(th, t, l2, th') BY <1>4 DEF Return, Moves
  <1>13. Whole(wr, node, root, free, th', T, v, lo, hi, lev, top)
    BY <1>1, <1>5, <1>6, <1>7, <1>8, <1>9, <1>10, <1>11, <1>12, AnyCalm
  <1> QED BY <1>3, <1>13, Unmoved

-----------------------------------------------------------------------------
(* The way down.                                                           *)
\* What a thread reads under its latch is the page as the tree has it.
LEMMA SeenPlain ==
  ASSUME NEW wr \in Threads, NEW N, NEW r, NEW F, NEW H, NEW T, NEW v, NEW lo, NEW hi, NEW lev,
         NEW top, Whole(wr, N, r, F, H, T, v, lo, hi, lev, top), NEW t \in Threads, NEW p,
         \/ H[wr].pc \notin Midway
         \/ t # wr /\ p \in ToSet(H[t].held)
         \/ Latchable(H, t, p)
  PROVE  View(N, H[wr], p) = Plain(N[p])
PROOF
  <1>1. PICK l : l = H[wr] OBVIOUS
  <1>2. /\ Latched(wr, H) /\ l \in Locals /\ wr \in Threads
        /\ Writing(N, r, l, T, lo, hi, lev, top)
    BY <1>1, WholeIs
  <1>3. CASE l.pc \notin Midway
    <2>1. ~Growing(l) /\ l.pc # "unlink" BY <1>3 DEF Growing, Midway
    <2> QED BY <2>1, <1>1, PlainView
  <1>4. CASE (t # wr /\ p \in ToSet(H[t].held)) \/ Latchable(H, t, p)
    <2>1. ASSUME NEW i \in 1..Len(l.held), Writes(l), p = l.held[i] PROVE FALSE
      <3>1. p \in ToSet(l.held)
        <4>1. l.held \in Seq(Pages) BY <1>2 DEF Locals
        <4> QED BY <4>1, <2>1, StackIs
      <3>2. Elsewhere(wr, H, p) BY <3>1, <2>1, <1>1, <1>2 DEF Latched
      <3>3. t # wr => p \notin ToSet(H[t].held) BY <3>2 DEF Elsewhere
      <3>4. ~Latchable(H, t, p) BY <3>1, <2>1, <1>1, <1>2 DEF Latchable
      <3> QED BY <3>3, <3>4, <1>4
    <2>2. ASSUME Growing(l), p = l.held[l.level] PROVE FALSE
      <3>1. l.pc = "up" /\ l.level > 0 BY <2>2 DEF Growing
      <3>2. l.request.op = "insert" /\ Stacked(N, l, l.level + 1, T, lev)
        BY <3>1, <1>2 DEF Writing, Rising
      <3>3. l.level \in 1..Len(l.held)
        <4>1. l.level \in Nat BY <1>2 DEF Locals
        <4> QED BY <4>1, <3>1, <3>2 DEF Stacked
      <3> QED BY <3>2, <3>3, <2>1, <2>2 DEF Writes
    <2>3. ASSUME l.pc = "unlink", p = l.held[l.level - 1] PROVE FALSE
      <3>1. l.request.op = "delete" /\ Stacked(N, l, l.level - 1, T, lev)
        BY <2>3, <1>2 DEF Writing, Unlinking
      <3>2. l.level - 1 \in 1..Len(l.held) BY <3>1 DEF Stacked
      <3> QED BY <3>1, <3>2, <2>1, <2>3 DEF Writes
    <2> QED BY <2>2, <2>3, <1>1, PlainView
  <1> QED BY <1>1, <1>3, <1>4

\* The child that internal_find leads to.
LEMMA DownIs ==
  ASSUME NEW N, NEW r, NEW F, NEW l, NEW T, NEW v, NEW lo, NEW hi, NEW lev, NEW top,
         Nodes(N, r, F), Shaped(N, r, F, l, T, v, lo, hi, lev, top), NEW p \in T,
         View(N, l, p) = Plain(N[p]), N[p].type = "internal",
         NEW k \in Nat, lo[p] <= k, k < hi[p], NEW j, j = Upto(N[p], k)
  PROVE  /\ j \in 1..Len(N[p].child) /\ N[p].child[j] \in T
         /\ lo[N[p].child[j]] <= k /\ k < hi[N[p].child[j]]
         /\ lev[N[p].child[j]] + 1 = lev[p]
PROOF
  <1>1. PICK ks, cs : ks = N[p].ent /\ cs = N[p].child OBVIOUS
  <1>2. /\ InnerFits(ks, cs, lo[p], hi[p], lev[p], T, lo, hi, lev)
        /\ N[p].count = Len(ks)
    BY <1>1, InnerPage
  <1>3. Ranges(T, lo, hi, lev, lev[r], top) BY DEF Shaped, Tree
  <1>4. PICK i \in 1..Len(cs) : lo[cs[i]] <= k /\ k < hi[cs[i]] BY <1>2, <1>3, KeyChild
  <1>5. Cardinality({x \in 1..Len(ks) : ks[x] <= k}) + 1 = i BY <1>2, <1>3, <1>4, ChildPlace
  <1>6. j = i BY <1>1, <1>2, <1>5, Zenon DEF Upto
  <1>7. cs[i] \in T /\ lev[cs[i]] + 1 = lev[p] BY <1>2 DEF InnerFits
  <1> QED BY <1>1, <1>4, <1>6, <1>7

\* What Reached makes of what the thread knew.
Arrived(d, l, n, p, held) ==
  d = IF n.type = "internal"
      THEN [l EXCEPT !.pc = "child", !.held = held, !.want = n.child[Upto(n, l.request.low)]]
      ELSE [l EXCEPT !.pc = "leaf", !.held = held, !.want = 0]

LEMMA ArrivedIs ==
  ASSUME NEW N, NEW r, NEW F, NEW l, NEW T, NEW v, NEW lo, NEW hi, NEW lev, NEW top,
         Nodes(N, r, F), Shaped(N, r, F, l, T, v, lo, hi, lev, top), NEW p \in T,
         View(N, l, p) = Plain(N[p]), NEW m \in Locals,
         lo[p] <= m.request.low, m.request.low < hi[p],
         NEW held \in Seq(Pages), Len(held) >= 1, held[Len(held)] = p,
         ~Writes(m) => Len(held) <= 1, NEW d, Arrived(d, m, N[p], p, held)
  PROVE  /\ d \in Locals /\ d.pc \in {"child", "leaf"} /\ d.request = m.request
         /\ d.held = held /\ OnItsWay(N, d, T, lo, hi)
PROOF
  <1>1. Page(N, p, T, lo, hi, lev, top) BY PageIs
  <1>2. PICK k \in Nat : k = m.request.low BY DEF Locals, Requests
  <1>3. CASE N[p].type = "internal"
    <2>1. PICK w : w = N[p].child[Upto(N[p], k)] OBVIOUS
    <2>2. w \in T BY <2>1, <1>2, <1>3, DownIs
    <2>3. w \in Pages BY <2>2 DEF Shaped
    <2>4. d = [m EXCEPT !.pc = "child", !.held = held, !.want = w]
      BY <1>2, <1>3, <2>1 DEF Arrived
    <2>5. "child" \in Pcs BY DEF Pcs, ReaderPcs
    <2>6. /\ d \in Locals /\ d.pc = "child" /\ d.request = m.request /\ d.held = held
          /\ d.want = w
      BY <2>3, <2>4, <2>5 DEF Locals
    <2>7. Here(d) = p BY <2>6 DEF Here
    <2>8. d.pc \in ReaderPcs BY <2>6 DEF ReaderPcs
    <2>9. ~Writes(d) => Len(d.held) <= 1 BY <2>6 DEF Writes
    <2>10. OnItsWay(N, d, T, lo, hi)
      BY <1>2, <1>3, <2>1, <2>6, <2>7, <2>8, <2>9 DEF OnItsWay
    <2> QED BY <2>6, <2>10
  <1>4. CASE N[p].type # "internal"
    <2>1. N[p].type = "leaf" BY <1>1, <1>4 DEF Page
    <2>4. d = [m EXCEPT !.pc = "leaf", !.held = held, !.want = 0]
      BY <1>4 DEF Arrived
    <2>5. "leaf" \in Pcs BY DEF Pcs, ReaderPcs
    <2>6. /\ d \in Locals /\ d.pc = "leaf" /\ d.request = m.request /\ d.held = held
      BY <2>4, <2>5 DEF Locals
    <2>7. Here(d) = p BY <2>6 DEF Here
    <2>8. d.pc \in ReaderPcs BY <2>6 DEF ReaderPcs
    <2>9. ~Writes(d) => Len(d.held) <= 1 BY <2>6 DEF Writes
    <2>10. OnItsWay(N, d, T, lo, hi)
      BY <2>1, <2>6, <2>7, <2>8, <2>9 DEF OnItsWay
    <2> QED BY <2>6, <2>10
  <1> QED BY <1>3, <1>4

LEMMA ArriveCalm ==
  ASSUME NEW wr \in Threads, NEW N, NEW r, NEW F, NEW H, NEW T, NEW v, NEW lo, NEW hi, NEW lev,
         NEW top, Whole(wr, N, r, F, H, T, v, lo, hi, lev, top),
         NEW t \in Threads, H[t].pc \in {"root", "child"}, NEW p \in T, Latchable(H, t, p),
         lo[p] <= H[t].request.low, H[t].request.low < hi[p],
         NEW held \in Seq(Pages), Len(held) >= 1, held[Len(held)] = p,
         ~Writes(H[t]) => Len(held) <= 1,
         NEW d, Arrived(d, H[t], N[p], p, held), NEW H2, Moves(H, t, d, H2),
         \A q \in ToSet(held) : q \in ToSet(H[t].held) \/ q = p,
         t # wr => ~Writes(H[t]),
         t = wr /\ Writes(H[t]) => Stacked(N, d, Len(held), T, lev) /\ Ready(N, r, d)
  PROVE  Whole(wr, N, r, F, H2, T, v, lo, hi, lev, top)
PROOF
  <1>1. /\ H[t] \in Locals /\ Asked(H[t], t) /\ Nodes(N, r, F)
        /\ Shaped(N, r, F, H[wr], T, v, lo, hi, lev, top) /\ Filled(N, r, H[wr], T)
    BY WholeIs
  <1>2. View(N, H[wr], p) = Plain(N[p]) BY SeenPlain
  <1>3. /\ d \in Locals /\ d.pc \in {"child", "leaf"} /\ d.request = H[t].request
        /\ d.held = held /\ OnItsWay(N, d, T, lo, hi)
    BY <1>1, <1>2, ArrivedIs
  <1>4. H[t].pc \notin Midway /\ d.pc \notin Midway BY <1>3 DEF Midway
  <1>5. Asked(d, t) BY <1>1, <1>3 DEF Asked
  <1>6. \A q \in ToSet(d.held) : q \in ToSet(H[t].held) \/ Latchable(H, t, q) BY <1>3
  <1>7. Writes(d) => Writes(H[t]) BY <1>3 DEF Writes
  <1>8. t = wr => Filled(N, r, d, T)
    <2>1. H[t].pc \in ReaderPcs /\ d.pc \in ReaderPcs BY <1>3 DEF ReaderPcs
    <2> QED BY <2>1, <1>1, FilledSame
  <1>9. t = wr => Writing(N, r, d, T, lo, hi, lev, top)
    <2>1. t = wr => Descending(N, r, d, T, lev) BY <1>3, <1>7 DEF Descending
    <2> QED BY <2>1, <1>3, Resting
  <1>10. ~(t # wr /\ Writes(d)) BY <1>7
  <1> QED BY <1>3, <1>4, <1>5, <1>6, <1>7, <1>8, <1>9, <1>10, AnyCalm

LEMMA ReachedIs ==
  ASSUME NEW t, NEW p, NEW held
  PROVE  Arrived(Reached(t, p, held), th[t], node[p], p, held)
PROOF BY DEF Reached, Arrived, ChildFor, internal_find, Upto

LEMMA LatchRootStep ==
  ASSUME NEW wr \in Threads, InvOf(wr), NEW t \in Threads, LatchRoot(t),
         t # wr => ~Writes(th[t]) \/ th'[t].pc \in Outside
  PROVE  InvOf(wr)'
PROOF
  <1>1. PICK T, v, lo, hi, lev, top : Whole(wr, node, root, free, th, T, v, lo, hi, lev, top)
    BY DEF InvOf
  <1>2. PICK l \in Locals : l = th[t] /\ Asked(l, t) /\ OnItsWay(node, l, T, lo, hi)
    BY <1>1, WholeIs
  <1>3. /\ Nodes(node, root, free) /\ Filled(node, root, th[wr], T)
        /\ Shaped(node, root, free, th[wr], T, v, lo, hi, lev, top) /\ Bound(top)
        /\ Writing(node, root, th[wr], T, lo, hi, lev, top)
    BY <1>1, WholeIs
  <1>4. l.pc = "root" /\ CanLatch(t, l.want) BY <1>2 DEF LatchRoot
  <1>5. UNCHANGED <<node, root, free>> BY DEF LatchRoot
  <1>6. l.held = << >> BY <1>2, <1>4 DEF OnItsWay
  <1>7. Latchable(th, t, l.want) BY <1>4, LatchableIs
  <1>8. CASE l.want # root
    <2>1. PICK d : d = [l EXCEPT !.want = root] OBVIOUS
    <2>2. root \in Pages BY <1>3 DEF Nodes
    <2>3. /\ d \in Locals /\ d.pc = "root" /\ d.held = << >> /\ d.want = root
          /\ d.request = l.request
      BY <2>1, <2>2, <1>4, <1>6 DEF Locals
    <2>4. OnItsWay(node, d, T, lo, hi)
      <3>1. Len(d.held) <= 1 /\ d.pc \in ReaderPcs BY <2>3 DEF ReaderPcs
      <3> QED BY <3>1, <2>2, <2>3 DEF OnItsWay
    <2>5. Asked(d, t) BY <2>3, <1>2, <1>4 DEF Asked
    <2>6. th[t].pc \notin Midway /\ d.pc \notin Midway /\ d.pc \in Outside
      BY <1>2, <1>4, <2>3 DEF Midway, Outside
    <2>7. ToSet(d.held) = {} BY <2>3, StackIs
    <2>8. t = wr => Filled(node, root, d, T)
      <3>1. d.pc \in ReaderPcs /\ th[t].pc \in ReaderPcs BY <2>3, <1>2, <1>4 DEF ReaderPcs
      <3> QED BY <3>1, <1>3, FilledSame
    <2>9. Writing(node, root, d, T, lo, hi, lev, top) BY <2>3, Resting
    <2>10. Moves(th, t, d, th') BY <2>1, <1>2, <1>8 DEF LatchRoot, Moves
    <2>11. Whole(wr, node, root, free, th', T, v, lo, hi, lev, top)
      BY <1>1, <2>3, <2>4, <2>5, <2>6, <2>7, <2>8, <2>9, <2>10, AnyCalm
    <2> QED BY <2>11, <1>5, Unmoved
  <1>9. CASE l.want = root
    <2>1. PICK held : held = <<root>> OBVIOUS
    <2>2. root \in T /\ root \in Pages BY <1>3 DEF Shaped, Nodes
    <2>3. /\ held \in Seq(Pages) /\ Len(held) = 1 /\ held[1] = root /\ ToSet(held) = {root}
      BY <2>1, <2>2, StackIs
    <2>4. PICK d : d = Reached(t, root, held) OBVIOUS
    <2>5. Arrived(d, th[t], node[root], root, held) BY <2>4, ReachedIs
    <2>6. ~Orphan(th[wr])
      <3>1. SUFFICES ASSUME Orphan(th[wr]) PROVE FALSE OBVIOUS
      <3>2. PICK w \in Locals : w = th[wr] BY <1>1, WholeIs
      <3>3. w.pc = "up" /\ w.level = 0 BY <3>1, <3>2 DEF Orphan
      <3>4. w.request.op = "insert" /\ Stacked(node, w, w.level + 1, T, lev)
            /\ w.held[1] = root
        BY <3>2, <3>3, <1>3 DEF Writing, Rising
      <3>5. w.held \in Seq(Pages) /\ 1 \in 1..Len(w.held)
        BY <3>2, <3>3, <3>4 DEF Locals, Stacked
      <3>6. root \in ToSet(w.held) BY <3>4, <3>5, StackIs
      <3>7. Writes(w) BY <3>4 DEF Writes
      <3> QED BY <3>2, <3>6, <3>7, <1>7, <1>9 DEF Latchable
    <2>7. lo[root] = 0 /\ hi[root] = top BY <2>6, <1>3 DEF Shaped
    <2>8. 0 <= l.request.low /\ l.request.low < top
      <3>1. l.request \in Workload[t] BY <1>2, <1>4 DEF Asked
      <3>2. l.request.low \in Nat BY <1>2 DEF Locals, Requests
      <3> QED BY <3>1, <3>2, <1>3 DEF Bound
    <2>9. Moves(th, t, d, th') BY <2>1, <2>4, <1>2, <1>9 DEF LatchRoot, Moves
    <2>10. Stacked(node, d, Len(held), T, lev) /\ Ready(node, root, d)
      <3>1. d.held = held
        <4>1. l.held \in Seq(Pages) BY <1>2 DEF Locals
        <4> QED BY <2>5, <1>2 DEF Arrived, Locals
      <3>2. lev[root] \in Nat
        <4>1. Page(node, root, T, lo, hi, lev, top) BY <2>2, <1>3, PageIs
        <4> QED BY <4>1 DEF Page
      <3> QED BY <3>1, <3>2, <2>2, <2>3 DEF Stacked, Ready
    <2>11. /\ Len(held) >= 1 /\ held[Len(held)] = root
           /\ th[t].pc \in {"root", "child"} /\ Latchable(th, t, root)
           /\ lo[root] <= th[t].request.low /\ th[t].request.low < hi[root]
           /\ \A q \in ToSet(held) : q \in ToSet(th[t].held) \/ q = root
           /\ ~Writes(th[t]) => Len(held) <= 1
      BY <1>2, <1>4, <1>7, <1>9, <2>3, <2>7, <2>8
    <2>12. t # wr => ~Writes(th[t])
      <3>1. th'[t] = d BY <2>9, <1>1, <1>2, WholeIs DEF Moves, Threading
      <3>2. th'[t].pc \in {"child", "leaf"}
        BY <3>1, <2>5, <1>2 DEF Arrived, Locals
      <3> QED BY <3>2 DEF Outside
    <2>13. Whole(wr, node, root, free, th', T, v, lo, hi, lev, top)
      BY <1>1, <2>2, <2>3, <2>5, <2>9, <2>10, <2>11, <2>12, ArriveCalm
    <2> QED BY <2>13, <1>5, Unmoved
  <1> QED BY <1>8, <1>9

LEMMA LatchChildStep ==
  ASSUME NEW wr \in Threads, InvOf(wr), NEW t \in Threads, LatchChild(t)
  PROVE  InvOf(wr)'
PROOF
  <1>1. PICK T, v, lo, hi, lev, top : Whole(wr, node, root, free, th, T, v, lo, hi, lev, top)
    BY DEF InvOf
  <1>2. PICK l \in Locals : l = th[t] /\ Asked(l, t) /\ OnItsWay(node, l, T, lo, hi)
    BY <1>1, WholeIs
  <1>3. /\ Nodes(node, root, free)
        /\ Shaped(node, root, free, th[wr], T, v, lo, hi, lev, top)
        /\ Writing(node, root, th[wr], T, lo, hi, lev, top)
    BY <1>1, WholeIs
  <1>4. PICK p : p = l.want OBVIOUS
  <1>5. /\ l.pc = "child" /\ CanLatch(t, p) /\ UNCHANGED <<node, root, free>>
        /\ Moves(th, t, Reached(t, p, IF Writer(t) /\ ~Safe(t, p) THEN Append(l.held, p)
                                                               ELSE <<p>>), th')
    BY <1>2, <1>4 DEF LatchChild, Moves
  <1>6. Latchable(th, t, p) BY <1>5, LatchableIs
  <1>7. PICK c : c = Here(l) OBVIOUS
  <1>8. PICK n \in Nat : n = Len(l.held)
    <2>1. l.held \in Seq(Pages) BY <1>2 DEF Locals
    <2> QED BY <2>1
  <1>9. /\ n >= 1 /\ c = l.held[n] /\ l.held \in Seq(Pages) /\ c \in ToSet(l.held)
    <2>1. l.held \in Seq(Pages) BY <1>2 DEF Locals
    <2>2. n >= 1 /\ c = l.held[n] BY <1>2, <1>5, <1>7, <1>8 DEF OnItsWay, Here
    <2>3. n \in 1..Len(l.held) BY <1>8, <2>2
    <2> QED BY <2>1, <2>2, <2>3, StackIs
  <1>10. /\ c \in T /\ node[c].type = "internal"
         /\ lo[c] <= l.request.low /\ l.request.low < hi[c]
         /\ p = node[c].child[Upto(node[c], l.request.low)]
    BY <1>2, <1>4, <1>5, <1>7 DEF OnItsWay
  <1>11. View(node, th[wr], c) = Plain(node[c])
    <2>1. t = wr => th[wr].pc \notin Midway BY <1>2, <1>5 DEF Midway
    <2> QED BY <2>1, <1>1, <1>2, <1>9, SeenPlain
  <1>12. PICK j : j = Upto(node[c], l.request.low) OBVIOUS
  <1>13. /\ j \in 1..Len(node[c].child) /\ p = node[c].child[j] /\ p \in T
         /\ lo[p] <= l.request.low /\ l.request.low < hi[p] /\ lev[p] + 1 = lev[c]
    <2>1. l.request.low \in Nat BY <1>2 DEF Locals, Requests
    <2> QED BY <2>1, <1>3, <1>10, <1>11, <1>12, DownIs
  <1>14. p \in Pages BY <1>13, <1>3 DEF Shaped
  <1>15. t # wr => ~Writes(th[t])
    <2>1. Alone(wr, th) BY <1>1, WholeIs
    <2> QED BY <2>1, <1>2, <1>5 DEF Alone, Outside
  <1>16. CASE Writer(t) /\ ~Safe(t, p)
    <2>1. PICK held : held = Append(l.held, p) OBVIOUS
    <2>2. /\ held \in Seq(Pages) /\ Len(held) = n + 1 /\ held[n + 1] = p
          /\ \A i \in 1..n : held[i] = l.held[i]
      BY <2>1, <1>8, <1>9, <1>14
    <2>3. PICK d : d = Reached(t, p, held) OBVIOUS
    <2>4. Moves(th, t, d, th') BY <2>1, <2>3, <1>5, <1>16
    <2>5. Arrived(d, l, node[p], p, held) BY <2>3, <1>2, ReachedIs
    <2>6. Writes(l) BY <1>2, <1>16 DEF Writer, Writes
    <2>7. \A q \in ToSet(held) : q \in ToSet(l.held) \/ q = p
      <3>1. SUFFICES ASSUME NEW q \in ToSet(held) PROVE q \in ToSet(l.held) \/ q = p
        OBVIOUS
      <3>2. PICK i \in 1..(n + 1) : held[i] = q BY <2>2, StackIs
      <3>3. CASE i = n + 1 BY <3>2, <3>3, <2>2
      <3>4. CASE i # n + 1
        <4>1. i \in 1..n BY <3>4
        <4> QED BY <4>1, <3>2, <2>2, <1>8, <1>9, StackIs
      <3> QED BY <3>3, <3>4
    <2>8. t = wr => Stacked(node, d, Len(held), T, lev) /\ Ready(node, root, d)
      <3>1. SUFFICES ASSUME t = wr
                     PROVE  Stacked(node, d, n + 1, T, lev) /\ Ready(node, root, d)
        BY <2>2
      <3>2. Stacked(node, l, n, T, lev) /\ Ready(node, root, l)
        BY <3>1, <2>6, <1>2, <1>3, <1>5, <1>8 DEF Writing, Descending
      <3>3. d.held = held /\ d.request = l.request BY <2>5, <1>2 DEF Arrived, Locals
      <3>4. held[1] = l.held[1] BY <2>2, <1>9
      <3>5. Ready(node, root, d) BY <3>2, <3>3, <3>4 DEF Ready
      <3>6. /\ \A i \in 1..n : l.held[i] \in T /\ lev[l.held[i]] + i = lev[l.held[1]] + 1
            /\ \A i \in 1..(n - 1) :
                 \E x \in 1..Len(node[l.held[i]].child) :
                   node[l.held[i]].child[x] = l.held[i + 1]
        BY <3>2 DEF Stacked
      <3>7. \A q \in T : lev[q] \in Nat
        <4>1. \A q \in T : Page(node, q, T, lo, hi, lev, top) BY <1>3, PageIs
        <4> QED BY <4>1 DEF Page
      <3>8. \A i \in 1..(n + 1) : held[i] \in T /\ lev[held[i]] + i = lev[held[1]] + 1
        <4> TAKE i \in 1..(n + 1)
        <4>1. CASE i = n + 1
          <5>1. lev[c] + n = lev[held[1]] + 1
            <6>1. n \in 1..n BY <1>9
            <6> QED BY <6>1, <3>4, <3>6, <1>9
          <5>2. held[1] \in T
            <6>1. 1 \in 1..n BY <1>9
            <6> QED BY <6>1, <3>4, <3>6
          <5>3. lev[c] \in Nat /\ lev[p] \in Nat /\ lev[held[1]] \in Nat
            BY <5>2, <3>7, <1>10, <1>13
          <5>4. lev[p] + (n + 1) = lev[held[1]] + 1
            <6>1. PICK x \in Nat, y \in Nat, z \in Nat :
                    x = lev[p] /\ y = lev[c] /\ z = lev[held[1]]
              BY <5>3
            <6>2. x + 1 = y BY <6>1, <1>13
            <6>3. y + n = z + 1 BY <6>1, <5>1
            <6>4. x + (n + 1) = z + 1 BY <6>2, <6>3
            <6> QED BY <6>1, <6>4
          <5>5. held[i] = p BY <4>1, <2>2
          <5> QED BY <5>4, <5>5, <4>1, <1>13
        <4>2. CASE i # n + 1
          <5>1. i \in 1..n BY <4>2
          <5> QED BY <5>1, <3>4, <3>6, <2>2
        <4> QED BY <4>1, <4>2
      <3>9. \A i \in 1..n :
              \E x \in 1..Len(node[held[i]].child) : node[held[i]].child[x] = held[i + 1]
        <4> TAKE i \in 1..n
        <4>1. CASE i = n
          <5>1. held[i] = c /\ held[i + 1] = p BY <4>1, <2>2, <1>9
          <5> QED BY <5>1, <1>13
        <4>2. CASE i # n
          <5>1. i \in 1..(n - 1) /\ i + 1 \in 1..n BY <4>2
          <5>2. held[i] = l.held[i] /\ held[i + 1] = l.held[i + 1] BY <5>1, <2>2
          <5> QED BY <5>1, <5>2, <3>6
        <4> QED BY <4>1, <4>2
      <3>10. n + 1 \in 1..Len(d.held) BY <3>3, <2>2
      <3>11. Stacked(node, d, n + 1, T, lev)
        <4>1. PICK m \in Nat : m = n + 1 OBVIOUS
        <4>2. m - 1 = n BY <4>1
        <4>3. \A i \in 1..m : d.held[i] \in T /\ lev[d.held[i]] + i = lev[d.held[1]] + 1
          BY <4>1, <3>3, <3>8
        <4>4. \A i \in 1..(m - 1) :
                \E x \in 1..Len(node[d.held[i]].child) : node[d.held[i]].child[x] = d.held[i + 1]
          BY <4>2, <3>3, <3>9
        <4>5. m \in 1..Len(d.held) BY <4>1, <3>10
        <4>6. Stacked(node, d, m, T, lev) BY <4>3, <4>4, <4>5, Zenon DEF Stacked
        <4> QED BY <4>1, <4>6
      <3> QED BY <3>5, <3>11
    <2>9. Len(held) >= 1 /\ held[Len(held)] = p BY <2>2
    <2>10. Whole(wr, node, root, free, th', T, v, lo, hi, lev, top)
      BY <1>1, <1>2, <1>5, <1>6, <1>13, <1>15, <2>2, <2>4, <2>5, <2>6, <2>7, <2>8,
         <2>9, ArriveCalm
    <2> QED BY <2>10, <1>5, Unmoved
  <1>17. CASE ~(Writer(t) /\ ~Safe(t, p))
    <2>1. PICK held : held = <<p>> OBVIOUS
    <2>2. /\ held \in Seq(Pages) /\ Len(held) = 1 /\ held[1] = p /\ ToSet(held) = {p}
      BY <2>1, <1>14, StackIs
    <2>3. PICK d : d = Reached(t, p, held) OBVIOUS
    <2>4. Moves(th, t, d, th')
      <3>1. (IF Writer(t) /\ ~Safe(t, p) THEN Append(l.held, p) ELSE <<p>>) = held
        BY <2>1, <1>17
      <3> QED BY <3>1, <2>3, <1>5
    <2>5. Arrived(d, l, node[p], p, held) BY <2>3, <1>2, ReachedIs
    <2>6. t = wr /\ Writes(l) => Stacked(node, d, Len(held), T, lev) /\ Ready(node, root, d)
      <3>1. SUFFICES ASSUME Writes(l)
                     PROVE  Stacked(node, d, 1, T, lev) /\ Ready(node, root, d)
        BY <2>2
      <3>2. Safe(t, p) BY <3>1, <1>2, <1>17 DEF Writer, Writes
      <3>3. d.held = held /\ d.request = l.request BY <2>5, <1>2 DEF Arrived, Locals
      <3>4. SafeFor(l.request.op, node[p])
        BY <3>2, <1>2 DEF Safe, SafeFor, HasRoom, MaxOf, MinOf, Most, Fewest
      <3>5. lev[p] \in Nat
        <4>1. Page(node, p, T, lo, hi, lev, top) BY <1>3, <1>13, PageIs
        <4> QED BY <4>1 DEF Page
      <3> QED BY <3>3, <3>4, <3>5, <2>2, <1>13 DEF Stacked, Ready
    <2>7. /\ Len(held) >= 1 /\ held[Len(held)] = p
          /\ th[t].pc \in {"root", "child"} /\ Latchable(th, t, p)
          /\ lo[p] <= th[t].request.low /\ th[t].request.low < hi[p]
          /\ \A q \in ToSet(held) : q \in ToSet(th[t].held) \/ q = p
          /\ ~Writes(th[t]) => Len(held) <= 1
      BY <1>2, <1>5, <1>6, <1>13, <2>2
    <2>8. Whole(wr, node, root, free, th', T, v, lo, hi, lev, top)
      BY <1>1, <1>2, <1>13, <1>15, <2>2, <2>4, <2>5, <2>6, <2>7, ArriveCalm
    <2> QED BY <2>8, <1>5, Unmoved
  <1> QED BY <1>16, <1>17

LEMMA DoneIs ==
  ASSUME NEW t, NEW res, th[t] \in Locals
  PROVE  /\ Ended(Done(t, res), th[t], th[t].got, res)
         /\ \A got : Ended([Done(t, res) EXCEPT !.got = got], th[t], got, res)
PROOF
  <1>1. Ended(Done(t, res), th[t], th[t].got, res) BY DEF Done, Ended
  <1>2. ASSUME NEW got PROVE Ended([Done(t, res) EXCEPT !.got = got], th[t], got, res)
    BY IdleIs DEF Done, Ended, Idle
  <1> QED BY <1>1, <1>2

LEMMA SearchStep ==
  ASSUME NEW wr \in Threads, InvOf(wr), NEW t \in Threads, bptree_search(t)
  PROVE  InvOf(wr)'
PROOF
  <1>1. PICK T, v, lo, hi, lev, top : Whole(wr, node, root, free, th, T, v, lo, hi, lev, top)
    BY DEF InvOf
  <1>2. th[t] \in Locals /\ Filled(node, root, th[wr], T) BY <1>1, WholeIs
  <1>3. PICK res \in {"none", "found", "missing"} : res = Presence(t) BY DEF Presence
  <1>4. PICK d : d = Done(t, res) OBVIOUS
  <1>5. /\ th[t].pc = "leaf" /\ UNCHANGED <<node, root, free>> /\ Moves(th, t, d, th')
    BY <1>3, <1>4 DEF bptree_search, At, Moves
  <1>6. Ended(d, th[t], th[t].got, res) BY <1>2, <1>4, DoneIs
  <1>7. th[t].got \in Seq(Nat) BY <1>2 DEF Locals
  <1>8. th[t].pc \notin Midway \cup {"idle"} BY <1>5 DEF Midway
  <1>9. t = wr => Filled(node, root, d, T)
    <2>1. d.pc = "return" BY <1>2, <1>6, <1>7, EndedIs
    <2>2. d.pc \in ReaderPcs /\ th[t].pc \in ReaderPcs BY <2>1, <1>5 DEF ReaderPcs
    <2> QED BY <2>2, <1>2, FilledSame
  <1>10. Whole(wr, node, root, free, th', T, v, lo, hi, lev, top)
    BY <1>1, <1>5, <1>6, <1>7, <1>8, <1>9, EndCalm
  <1> QED BY <1>5, <1>10, Unmoved

LEMMA LatchNextStep ==
  ASSUME NEW wr \in Threads, InvOf(wr), NEW t \in Threads, LatchNext(t)
  PROVE  InvOf(wr)'
PROOF
  <1>1. PICK T, v, lo, hi, lev, top : Whole(wr, node, root, free, th, T, v, lo, hi, lev, top)
    BY DEF InvOf
  <1>2. PICK l \in Locals : l = th[t] /\ Asked(l, t) /\ OnItsWay(node, l, T, lo, hi)
    BY <1>1, WholeIs
  <1>3. /\ Nodes(node, root, free) /\ Filled(node, root, th[wr], T)
        /\ Shaped(node, root, free, th[wr], T, v, lo, hi, lev, top)
    BY <1>1, WholeIs
  <1>4. PICK p : p = l.want OBVIOUS
  <1>5. PICK d : d = [l EXCEPT !.pc = "more", !.held = <<p>>, !.want = 0] OBVIOUS
  <1>6. /\ l.pc = "next" /\ CanLatch(t, p) /\ UNCHANGED <<node, root, free>>
        /\ Moves(th, t, d, th')
    BY <1>2, <1>4, <1>5 DEF LatchNext, Moves
  <1>7. PICK c : c = Here(l) OBVIOUS
  <1>8. /\ Len(l.held) = 1 /\ c \in T /\ node[c].type = "leaf"
        /\ p = node[c].next /\ p # 0 /\ ~Writes(l)
    BY <1>2, <1>4, <1>6, <1>7 DEF OnItsWay
  <1>9. c \in ToSet(l.held)
    <2>1. l.held \in Seq(Pages) BY <1>2 DEF Locals
    <2> QED BY <2>1, <1>7, <1>8, StackIs DEF Here
  <1>10. View(node, th[wr], c) = Plain(node[c])
    <2>1. t = wr => th[wr].pc \notin Midway BY <1>2, <1>6 DEF Midway
    <2> QED BY <2>1, <1>1, <1>2, <1>9, SeenPlain
  <1>11. p \in T /\ lev[p] = 0 BY <1>3, <1>8, <1>10, LeafPage
  <1>12. p \in Pages /\ node[p].type = "leaf" BY <1>3, <1>11, PageIs DEF Page
  <1>13. /\ d \in Locals /\ d.pc = "more" /\ d.held = <<p>> /\ d.request = l.request
    <2>1. "more" \in Pcs BY DEF Pcs, ReaderPcs
    <2>2. <<p>> \in Seq(Pages) /\ 0 \in PageNo BY <1>12
    <2> QED BY <2>1, <2>2, <1>5 DEF Locals
  <1>14. ~Writes(d) BY <1>8, <1>13 DEF Writes
  <1>15. OnItsWay(node, d, T, lo, hi)
    <2>1. Len(d.held) = 1 /\ Here(d) = p BY <1>13 DEF Here
    <2>2. d.pc \in ReaderPcs BY <1>13 DEF ReaderPcs
    <2> QED BY <2>1, <2>2, <1>11, <1>12, <1>13, <1>14 DEF OnItsWay
  <1>16. Asked(d, t) BY <1>2, <1>6, <1>13 DEF Asked
  <1>17. th[t].pc \notin Midway /\ d.pc \notin Midway BY <1>2, <1>6, <1>13 DEF Midway
  <1>18. \A q \in ToSet(d.held) : q \in ToSet(th[t].held) \/ Latchable(th, t, q)
    BY <1>6, <1>13, LatchableIs, StackIs
  <1>19. t = wr => Filled(node, root, d, T)
    <2>1. d.pc \in ReaderPcs /\ th[t].pc \in ReaderPcs BY <1>2, <1>6, <1>13 DEF ReaderPcs
    <2> QED BY <2>1, <1>3, FilledSame
  <1>20. Writing(node, root, d, T, lo, hi, lev, top) BY <1>13, Resting
  <1>21. Whole(wr, node, root, free, th', T, v, lo, hi, lev, top)
    BY <1>1, <1>6, <1>13, <1>14, <1>15, <1>16, <1>17, <1>18, <1>19, <1>20, AnyCalm
  <1> QED BY <1>6, <1>21, Unmoved

\* The entries of leaf n that ScanLeaf returns.
From(l, n) == IF l.pc = "leaf" THEN Below(n, l.request.low) ELSE 1
Over(l, n) == {i \in From(l, n)..n.count : n.ent[i] > l.request.high}
To(l, n) ==
  IF Over(l, n) = {} THEN n.count
  ELSE (CHOOSE i \in Over(l, n) : \A j \in Over(l, n) : i <= j) - 1
Collected(l, n) == l.got \o SubSeq(n.ent, From(l, n), To(l, n))

LEMMA ScanIs ==
  ASSUME NEW t, ScanLeaf(t), th[t] \in Locals, NEW l, l = th[t], NEW p, p = LeafOf(t),
         NEW n, n = node[p]
  PROVE  Moves(th, t, IF Over(l, n) # {} \/ n.next = 0
                      THEN [Done(t, "none") EXCEPT !.got = Collected(l, n)]
                      ELSE Onward([l EXCEPT !.got = Collected(l, n)], p), th')
PROOF
  <1>1. PICK s : s = SubSeq(node[LeafOf(t)].ent, From(th[t], node[LeafOf(t)]),
                            To(th[t], node[LeafOf(t)]))
    OBVIOUS
  <1>2. PICK read : read = [th[t] EXCEPT !.got = @ \o s] OBVIOUS
  <1>3. read = [th[t] EXCEPT !.got = th[t].got \o s] /\ read.got = th[t].got \o s
    BY <1>2 DEF Locals
  <1>4. Collected(th[t], node[LeafOf(t)]) = th[t].got \o s BY <1>1 DEF Collected
  <1>5. th' = [th EXCEPT ![t] =
                 IF Over(th[t], node[LeafOf(t)]) # {} \/ node[LeafOf(t)].next = 0
                 THEN [Done(t, "none") EXCEPT !.got =
                         [th[t] EXCEPT !.got = @ \o SubSeq(node[LeafOf(t)].ent,
                           From(th[t], node[LeafOf(t)]), To(th[t], node[LeafOf(t)]))].got]
                 ELSE Onward([th[t] EXCEPT !.got = @ \o SubSeq(node[LeafOf(t)].ent,
                           From(th[t], node[LeafOf(t)]), To(th[t], node[LeafOf(t)]))], LeafOf(t))]
    BY Zenon DEF ScanLeaf, From, To, Over, Below, leaf_find
  <1>6. th' = [th EXCEPT ![t] =
                 IF Over(th[t], node[LeafOf(t)]) # {} \/ node[LeafOf(t)].next = 0
                 THEN [Done(t, "none") EXCEPT !.got = read.got]
                 ELSE Onward(read, LeafOf(t))]
    BY <1>1, <1>2, <1>5
  <1> QED BY <1>3, <1>4, <1>6 DEF Moves

LEMMA ScanLeafStep ==
  ASSUME NEW wr \in Threads, InvOf(wr), NEW t \in Threads, ScanLeaf(t)
  PROVE  InvOf(wr)'
PROOF
  <1>1. PICK T, v, lo, hi, lev, top : Whole(wr, node, root, free, th, T, v, lo, hi, lev, top)
    BY DEF InvOf
  <1>2. PICK l \in Locals : l = th[t] /\ Asked(l, t) /\ OnItsWay(node, l, T, lo, hi)
    BY <1>1, WholeIs
  <1>3. /\ Nodes(node, root, free) /\ Filled(node, root, th[wr], T)
        /\ Shaped(node, root, free, th[wr], T, v, lo, hi, lev, top)
    BY <1>1, WholeIs
  <1>4. l.pc \in {"leaf", "more"} /\ l.request.op = "scan" /\ UNCHANGED <<node, root, free>>
    BY <1>2, Zenon DEF ScanLeaf
  <1>5. ~Writes(l) BY <1>4 DEF Writes
  <1>6. PICK p : p = Here(l) OBVIOUS
  <1>7. l.held \in Seq(Pages) /\ Len(l.held) = 1 /\ p \in T /\ node[p].type = "leaf"
    <2>1. l.held \in Seq(Pages) BY <1>2 DEF Locals
    <2>2. Len(l.held) <= 1 BY <1>2, <1>5 DEF OnItsWay
    <2>3. CASE l.pc = "leaf"
      <3>1. Len(l.held) >= 1 /\ p \in T /\ node[p].type = "leaf"
        BY <2>3, <1>2, <1>6 DEF OnItsWay
      <3>2. PICK n \in Nat : n = Len(l.held) BY <2>1
      <3>3. n <= 1 BY <2>2, <3>2
      <3>4. n >= 1 BY <3>1, <3>2
      <3>5. n = 1 BY <3>3, <3>4
      <3> QED BY <2>1, <3>1, <3>2, <3>5
    <2>4. CASE l.pc = "more" BY <2>1, <2>4, <1>2, <1>6 DEF OnItsWay
    <2> QED BY <2>3, <2>4, <1>4
  <1>8. p = LeafOf(t)
    <2>1. Last(l.held) = l.held[Len(l.held)] BY DEF Last
    <2> QED BY <2>1, <1>2, <1>6 DEF LeafOf, Here
  <1>9. View(node, th[wr], p) = Plain(node[p])
    <2>1. t = wr => th[wr].pc \notin Midway BY <1>2, <1>4 DEF Midway
    <2>2. p \in ToSet(l.held) BY <1>6, <1>7, StackIs DEF Here
    <2> QED BY <2>1, <2>2, <1>1, <1>2, SeenPlain
  <1>10. PICK n : n = node[p] OBVIOUS
  <1>11. /\ n \in NodeType /\ n.count \in Nat /\ n.ent \in Seq(Nat)
         /\ n.count <= Len(n.ent) /\ n.next \in PageNo /\ n.type = "leaf"
    <2>1. n \in NodeType /\ IsNode(n) BY <1>3, <1>7, <1>10, PageIs DEF Page
    <2> QED BY <2>1, <1>7, <1>10, KeysAre
  <1>12. PICK first : first = From(l, n) OBVIOUS
  <1>13. first \in 1..(n.count + 1)
    <2>1. n \in NodeType /\ IsNode(n) BY <1>3, <1>7, <1>10, PageIs DEF Page
    <2>2. InRange(SubSeq(n.ent, 1, n.count), lo[p], hi[p])
      BY <1>3, <1>7, <1>9, <1>10, LeafPage
    <2>3. PICK k \in Nat : k = l.request.low BY <1>2 DEF Locals, Requests
    <2>4. Below(n, k) \in 1..(n.count + 1) BY <2>1, <2>2, BelowIs
    <2> QED BY <2>3, <2>4, <1>11, <1>12 DEF From
  <1>14. PICK over : over = Over(l, n) OBVIOUS
  <1>15. \A i \in over : i \in first..n.count BY <1>12, <1>14 DEF Over
  <1>16. PICK last : last = To(l, n) OBVIOUS
  <1>17. last \in Nat /\ first <= last + 1 /\ last <= n.count
    <2>1. CASE over = {}
      <3>1. last = n.count BY <2>1, <1>14, <1>16 DEF To
      <3> QED BY <3>1, <1>11, <1>13
    <2>2. CASE over # {}
      <3>1. over \subseteq Nat BY <1>13, <1>15
      <3>2. PICK m : m = CHOOSE i \in over : \A j \in over : i <= j OBVIOUS
      <3>3. m \in over BY <2>2, <3>1, <3>2, Least
      <3>4. m \in first..n.count BY <3>3, <1>15
      <3>5. last = m - 1 BY <2>2, <3>2, <1>14, <1>16 DEF To
      <3> QED BY <3>4, <3>5, <1>11, <1>13
    <2> QED BY <2>1, <2>2
  <1>18. PICK got \in Seq(Nat) : got = Collected(l, n)
    <2>1. PICK s : s = SubSeq(n.ent, first, last) OBVIOUS
    <2>2. s \in Seq(Nat)
      <3>1. first \in Nat /\ 1 <= first /\ last <= Len(n.ent) BY <1>11, <1>13, <1>17
      <3> QED BY <2>1, <3>1, <1>11, <1>17, PartIs
    <2>3. l.got \in Seq(Nat) BY <1>2 DEF Locals
    <2>4. l.got \o s \in Seq(Nat) BY <2>2, <2>3
    <2> QED BY <1>12, <1>16, <2>1, <2>4 DEF Collected
  <1>19. PICK read : read = [l EXCEPT !.got = got] OBVIOUS
  <1>20. Moves(th, t, IF over # {} \/ n.next = 0 THEN [Done(t, "none") EXCEPT !.got = got]
                      ELSE Onward(read, p), th')
    BY <1>2, <1>8, <1>10, <1>14, <1>18, <1>19, ScanIs
  <1>21. CASE over # {} \/ n.next = 0
    <2>1. PICK d : d = [Done(t, "none") EXCEPT !.got = got] OBVIOUS
    <2>2. Ended(d, th[t], got, "none") BY <2>1, <1>2, DoneIs
    <2>3. Moves(th, t, d, th') BY <2>1, <1>20, <1>21
    <2>4. th[t].pc \notin Midway \cup {"idle"} BY <1>2, <1>4 DEF Midway
    <2>5. t = wr => Filled(node, root, d, T)
      <3>1. d.pc = "return" BY <2>2, <1>2, <1>18, EndedIs
      <3>2. d.pc \in ReaderPcs /\ th[t].pc \in ReaderPcs BY <3>1, <1>2, <1>4 DEF ReaderPcs
      <3> QED BY <3>2, <1>3, FilledSame
    <2>6. Whole(wr, node, root, free, th', T, v, lo, hi, lev, top)
      BY <1>1, <1>18, <2>2, <2>3, <2>4, <2>5, EndCalm
    <2> QED BY <2>6, <1>4, Unmoved
  <1>22. CASE ~(over # {} \/ n.next = 0)
    <2>1. PICK d : d = [read EXCEPT !.pc = "next", !.want = n.next] OBVIOUS
    <2>2. d = Onward(read, p) BY <2>1, <1>10 DEF Onward
    <2>3. Moves(th, t, d, th') BY <2>2, <1>20, <1>22
    <2>4. /\ d \in Locals /\ d.pc = "next" /\ d.held = l.held /\ d.request = l.request
          /\ d.want = n.next
      <3>1. "next" \in Pcs BY DEF Pcs, ReaderPcs
      <3> QED BY <3>1, <2>1, <1>2, <1>11, <1>18, <1>19 DEF Locals
    <2>5. ~Writes(d) BY <1>5, <2>4 DEF Writes
    <2>6. OnItsWay(node, d, T, lo, hi)
      <3>1. Len(d.held) = 1 /\ Here(d) = p BY <2>4, <1>6, <1>7 DEF Here
      <3>2. d.pc \in ReaderPcs BY <2>4 DEF ReaderPcs
      <3>3. n.next # 0 BY <1>22
      <3> QED BY <3>1, <3>2, <3>3, <2>4, <2>5, <1>7, <1>10 DEF OnItsWay
    <2>7. Asked(d, t) BY <2>4, <1>2, <1>4 DEF Asked
    <2>8. th[t].pc \notin Midway /\ d.pc \notin Midway BY <2>4, <1>2, <1>4 DEF Midway
    <2>9. \A q \in ToSet(d.held) : q \in ToSet(th[t].held) BY <2>4, <1>2
    <2>10. t = wr => Filled(node, root, d, T)
      <3>1. d.pc \in ReaderPcs /\ th[t].pc \in ReaderPcs BY <2>4, <1>2, <1>4 DEF ReaderPcs
      <3> QED BY <3>1, <1>3, FilledSame
    <2>11. Writing(node, root, d, T, lo, hi, lev, top) BY <2>4, Resting
    <2>12. Whole(wr, node, root, free, th', T, v, lo, hi, lev, top)
      BY <1>1, <2>3, <2>4, <2>5, <2>6, <2>7, <2>8, <2>9, <2>10, <2>11, AnyCalm
    <2> QED BY <2>12, <1>4, Unmoved
  <1> QED BY <1>21, <1>22, Zenon

-----------------------------------------------------------------------------
(* The steps of the writer.                                                *)
\* One page written: all the rest is as it was.
Only(N, N2, p, x) ==
  /\ N2 \in [Pages -> NodeType] /\ N2[p] = x /\ \A q \in Pages : q # p => N2[q] = N[q]

LEMMA OnlyIs ==
  ASSUME NEW N, NEW r, NEW F, Nodes(N, r, F), NEW p \in Pages, NEW x \in NodeType,
         IsNode(x), NEW M, M = [N EXCEPT ![p] = x]
  PROVE  /\ Only(N, M, p, x)
         /\ x.type = "free" => Nodes(M, r, F \cup {p})
         /\ x.type # "free" => Nodes(M, r, F \ {p})
PROOF
  <1>2. N \in [Pages -> NodeType] BY DEF Nodes
  <1>3. /\ M \in [Pages -> NodeType] /\ M[p] = x
        /\ \A q \in Pages : q # p => M[q] = N[q]
    BY <1>2
  <1>4. \A q \in Pages : IsNode(M[q]) BY <1>3 DEF Nodes
  <1>5. F = {q \in Pages : N[q].type = "free"} /\ r \in Pages BY DEF Nodes
  <1>6. ASSUME x.type = "free" PROVE Nodes(M, r, F \cup {p})
    <2>1. \A q : q \in F \cup {p} <=> q \in Pages /\ M[q].type = "free"
      BY <1>3, <1>5, <1>6
    <2>2. F \cup {p} = {q \in Pages : M[q].type = "free"} BY <2>1
    <2> QED BY <2>2, <1>3, <1>4, <1>5 DEF Nodes
  <1>7. ASSUME x.type # "free" PROVE Nodes(M, r, F \ {p})
    <2>1. \A q : q \in F \ {p} <=> q \in Pages /\ M[q].type = "free"
      BY <1>3, <1>5, <1>7
    <2>2. F \ {p} = {q \in Pages : M[q].type = "free"} BY <2>1
    <2> QED BY <2>2, <1>3, <1>4, <1>5 DEF Nodes
  <1> QED BY <1>3, <1>6, <1>7 DEF Only

\* A header that is still what is in its page changes nothing.
LEMMA HeaderBack ==
  ASSUME NEW N, NEW r, NEW F, Nodes(N, r, F), NEW l \in Locals, Fresh(N, l.header)
  PROVE  HeaderWritten(N, l.header) = N
PROOF
  <1>1. PICK h \in [page : PageNo, count : Nat, next : PageNo] : h = l.header
    BY DEF Locals
  <1>2. CASE h.page = 0 BY <1>1, <1>2 DEF HeaderWritten
  <1>3. CASE h.page # 0
    <2>1. PICK q \in Pages : q = h.page BY <1>1, <1>3
    <2>2. N \in [Pages -> NodeType] BY DEF Nodes
    <2>3. h.count = N[q].count /\ h.next = N[q].next BY <2>1, <1>1, <1>3 DEF Fresh
    <2>4. PICK n : n = N[q] OBVIOUS
    <2>5. n = [type |-> n.type, count |-> n.count, next |-> n.next, child |-> n.child,
               ent |-> n.ent]
      BY <2>2, <2>4 DEF NodeType
    <2>6. [[n EXCEPT !.count = n.count] EXCEPT !.next = n.next] = n BY <2>5
    <2>7. HeaderWritten(N, h) = [[N EXCEPT ![q].count = n.count] EXCEPT ![q].next = n.next]
      BY <2>1, <2>3, <2>4, <1>3 DEF HeaderWritten
    <2>8. [N EXCEPT ![q].count = n.count] = [N EXCEPT ![q] = [n EXCEPT !.count = n.count]]
      BY <2>4
    <2>9. [n EXCEPT !.count = n.count] = n BY <2>5
    <2>10. [N EXCEPT ![q] = n] = N BY <2>2, <2>4
    <2>11. [N EXCEPT ![q].next = n.next] = [N EXCEPT ![q] = [n EXCEPT !.next = n.next]]
      BY <2>4
    <2>12. [n EXCEPT !.next = n.next] = n BY <2>5
    <2> QED BY <2>7, <2>8, <2>9, <2>10, <2>11, <2>12, <1>1
  <1> QED BY <1>2, <1>3

\* The first n pages of the stack go down level by level.
Leveled(T, lev) == \A q \in T : lev[q] \in Nat
Path(l, n, T, lev) ==
  /\ n \in 1..Len(l.held) /\ Len(l.held) \in Nat
  /\ \A i \in 1..n : l.held[i] \in T /\ l.held[i] \in ToSet(l.held)
  /\ \A i, j \in 1..n : i < j => /\ lev[l.held[j]] < lev[l.held[i]]
                                 /\ l.held[i] # l.held[j]
  /\ \A i \in 1..(n - 1) : lev[l.held[i]] = lev[l.held[i + 1]] + 1

LEMMA StackedIs ==
  ASSUME NEW N, NEW l \in Locals, NEW n \in Nat, NEW T, NEW lev,
         Stacked(N, l, n, T, lev), Leveled(T, lev)
  PROVE  Path(l, n, T, lev)
PROOF
  <1>1. l.held \in Seq(Pages) BY DEF Locals
  <1>2. n \in 1..Len(l.held) /\ Len(l.held) \in Nat BY <1>1 DEF Stacked
  <1>3. \A i \in 1..n : l.held[i] \in T /\ lev[l.held[i]] + i = lev[l.held[1]] + 1
    BY DEF Stacked
  <1>4. \A i \in 1..n : l.held[i] \in ToSet(l.held) BY <1>1, <1>2, StackIs
  <1>5. PICK a \in Nat : a = lev[l.held[1]]
    <2>1. 1 \in 1..n BY <1>2
    <2> QED BY <2>1, <1>3 DEF Leveled
  <1>6. \A i \in 1..n : lev[l.held[i]] \in Nat /\ lev[l.held[i]] + i = a + 1
    BY <1>3, <1>5 DEF Leveled
  <1>7. ASSUME NEW i \in 1..n, NEW j \in 1..n, i < j
        PROVE  lev[l.held[j]] < lev[l.held[i]] /\ l.held[i] # l.held[j]
    <2>1. PICK x \in Nat, y \in Nat : x = lev[l.held[i]] /\ y = lev[l.held[j]] BY <1>6
    <2>2. x + i = a + 1 /\ y + j = a + 1 BY <2>1, <1>6
    <2>3. y < x BY <2>2, <1>7
    <2> QED BY <2>1, <2>3
  <1>8. ASSUME NEW i \in 1..(n - 1) PROVE lev[l.held[i]] = lev[l.held[i + 1]] + 1
    <2>1. i \in 1..n /\ i + 1 \in 1..n BY <1>2
    <2>2. PICK x \in Nat, y \in Nat : x = lev[l.held[i]] /\ y = lev[l.held[i + 1]]
      BY <2>1, <1>6
    <2>3. x + i = a + 1 /\ y + (i + 1) = a + 1 BY <2>1, <2>2, <1>6
    <2>4. x = y + 1 BY <2>3
    <2> QED BY <2>2, <2>4
  <1> QED BY <1>2, <1>3, <1>4, <1>7, <1>8 DEF Path

LEMMA LeveledIs ==
  ASSUME NEW N, NEW r, NEW F, NEW l, NEW T, NEW v, NEW lo, NEW hi, NEW lev, NEW top,
         Nodes(N, r, F), Shaped(N, r, F, l, T, v, lo, hi, lev, top)
  PROVE  Leveled(T, lev) /\ \A q \in T : lev[q] <= lev[r]
PROOF
  <1>1. \A q \in T : Page(N, q, T, lo, hi, lev, top) BY PageIs
  <1>2. Ranges(T, lo, hi, lev, lev[r], top) /\ r \in T BY DEF Shaped, Tree
  <1>3. lev[r] \in Nat BY <1>1, <1>2 DEF Page
  <1>4. \A q \in T : lev[q] <= lev[r] BY <1>2, <1>3 DEF Ranges
  <1> QED BY <1>1, <1>4 DEF Page, Leveled

\* The upper part of the stack is a path too, and stays one while its pages are
\* untouched, but for the last one perhaps.
Untouched(N, l, m, N2, T2, lev, lev2) ==
  /\ \A i \in 1..m : l.held[i] \in T2 /\ lev2[l.held[i]] = lev[l.held[i]]
  /\ \A i \in 1..(m - 1) : N2[l.held[i]] = N[l.held[i]]

LEMMA StackedStill ==
  ASSUME NEW N, NEW l, NEW n \in Nat, NEW T, NEW lev, Stacked(N, l, n, T, lev),
         NEW m \in 1..n, NEW N2, NEW l2, l2.held = l.held, NEW T2, NEW lev2,
         Untouched(N, l, m, N2, T2, lev, lev2)
  PROVE  Stacked(N2, l2, m, T2, lev2)
PROOF
  <1>0. /\ \A i \in 1..m : l.held[i] \in T2 /\ lev2[l.held[i]] = lev[l.held[i]]
        /\ \A i \in 1..(m - 1) : N2[l.held[i]] = N[l.held[i]]
    BY DEF Untouched
  <1>1. m \in Nat /\ 1 \in 1..m /\ \A i \in 1..m : i \in 1..n OBVIOUS
  <1>2. m \in 1..Len(l2.held)
    <2>1. n \in 1..Len(l.held) BY DEF Stacked
    <2> QED BY <2>1
  <1>3. \A i \in 1..m : l.held[i] \in T2 /\ lev2[l.held[i]] + i = lev2[l.held[1]] + 1
    <2>1. \A i \in 1..n : lev[l.held[i]] + i = lev[l.held[1]] + 1 BY DEF Stacked
    <2> QED BY <2>1, <1>0, <1>1
  <1>4. \A i \in 1..(m - 1) :
          \E j \in 1..Len(N2[l.held[i]].child) : N2[l.held[i]].child[j] = l.held[i + 1]
    <2>1. \A i \in 1..(m - 1) : i \in 1..(n - 1) OBVIOUS
    <2>2. \A i \in 1..(n - 1) :
            \E j \in 1..Len(N[l.held[i]].child) : N[l.held[i]].child[j] = l.held[i + 1]
      BY DEF Stacked
    <2> QED BY <2>1, <2>2, <1>0
  <1> QED BY <1>2, <1>3, <1>4 DEF Stacked

\* Nobody else has a latch on what the writer has latched, or can latch.
LEMMA Mine ==
  ASSUME NEW wr \in Threads, NEW N, NEW r, NEW F, NEW H, NEW T, NEW v, NEW lo, NEW hi, NEW lev,
         NEW top, Whole(wr, N, r, F, H, T, v, lo, hi, lev, top), Writes(H[wr]), NEW p,
         p \in ToSet(H[wr].held) \/ Latchable(H, wr, p)
  PROVE  Elsewhere(wr, H, p)
PROOF
  <1>1. Latched(wr, H) BY WholeIs
  <1> QED BY <1>1 DEF Latched, Latchable, Elsewhere

\* The tree while the writer is on its way down or repairs an underflow.
Calm(N, r, F, T, v, lo, hi, lev, top) ==
  /\ T = Pages \ F /\ Tree(T, v, lo, hi, lev, lev[r], top)
  /\ \A q \in T : /\ v[q] = Plain(N[q])
                  /\ N[q].type = IF lev[q] = 0 THEN "leaf" ELSE "internal"
  /\ r \in T /\ lo[r] = 0 /\ hi[r] = top

\* A whole tree, with nothing under way.
Fit(N, r, T) ==
  \A p \in T :
    IF p = r THEN N[p].type = "internal" => N[p].count >= 1
    ELSE N[p].count >= Fewest(N[p])

Rests(N, r, F, T, v, lo, hi, lev, top) ==
  Calm(N, r, F, T, v, lo, hi, lev, top) /\ Fit(N, r, T)

LEMMA RestsIs ==
  ASSUME NEW N, NEW r, NEW F, NEW l, l.pc \in ReaderPcs,
         NEW T, NEW v, NEW lo, NEW hi, NEW lev, NEW top,
         Rests(N, r, F, T, v, lo, hi, lev, top)
  PROVE  Shaped(N, r, F, l, T, v, lo, hi, lev, top) /\ Filled(N, r, l, T)
PROOF
  <1>1. l.pc # "split" /\ l.pc # "unlink" /\ l.pc # "up" /\ l.pc \notin Repairing \cup {"parent"}
    BY DEF ReaderPcs, Repairing
  <1>2. Loose(l) = {} /\ ~Orphan(l) /\ ~Growing(l) BY <1>1 DEF Loose, Orphan, Growing
  <1>3. \A p \in T : View(N, l, p) = Plain(N[p]) BY <1>1, <1>2, PlainView
  <1>4. Shaped(N, r, F, l, T, v, lo, hi, lev, top)
    <2>1. T = (Pages \ F) \ Loose(l) BY <1>2 DEF Rests, Calm
    <2>2. \A p \in T : /\ v[p] = View(N, l, p)
                       /\ N[p].type = IF lev[p] = 0 THEN "leaf" ELSE "internal"
      BY <1>3 DEF Rests, Calm
    <2>3. hi[r] = IF Orphan(l) THEN l.sep ELSE top BY <1>2 DEF Rests, Calm
    <2>4. Tree(T, v, lo, hi, lev, lev[r], top) /\ r \in T /\ lo[r] = 0 BY DEF Rests, Calm
    <2> QED BY <2>1, <2>2, <2>3, <2>4 DEF Shaped
  <1>5. \A p : ~Weak(l, p) BY <1>1 DEF Weak
  <1>6. Filled(N, r, l, T) BY <1>5 DEF Rests, Calm, Fit, Filled
  <1> QED BY <1>4, <1>6

\* The writer releases its latches.
LEMMA DoneStep ==
  ASSUME NEW wr \in Threads, NEW N, NEW r, NEW F, NEW H, NEW T, NEW v, NEW lo, NEW hi, NEW lev,
         NEW top, Whole(wr, N, r, F, H, T, v, lo, hi, lev, top), H[wr].pc # "idle",
         NEW res \in {"none", "found", "missing"}, NEW d, Ended(d, H[wr], H[wr].got, res),
         NEW H2, Moves(H, wr, d, H2),
         NEW N2, NEW r2, NEW F2, NEW T2, NEW v2, NEW lo2, NEW hi2, NEW lev2,
         Undisturbed(wr, N, H, T, lo, hi, N2, T2, lo2, hi2), Nodes(N2, r2, F2),
         Rests(N2, r2, F2, T2, v2, lo2, hi2, lev2, top)
  PROVE  Whole(wr, N2, r2, F2, H2, T2, v2, lo2, hi2, lev2, top)
PROOF
  <1>1. PICK l \in Locals : l = H[wr] /\ Asked(l, wr) BY WholeIs
  <1>2. l.got \in Seq(Nat) /\ l.pc # "idle" /\ Ended(d, l, l.got, res)
    BY <1>1 DEF Locals
  <1>3. d \in Locals /\ d.pc = "return" /\ d.held = << >> BY <1>1, <1>2, EndedIs
  <1>4. /\ OnItsWay(N2, d, T2, lo2, hi2) /\ Asked(d, wr) /\ ToSet(d.held) = {}
        /\ Writing(N2, r2, d, T2, lo2, hi2, lev2, top)
    BY <1>1, <1>2, EndedFits
  <1>5. Took(wr, H, d) BY <1>4 DEF Took
  <1>6. d.pc \in ReaderPcs BY <1>3 DEF ReaderPcs
  <1>7. /\ Shaped(N2, r2, F2, d, T2, v2, lo2, hi2, lev2, top)
        /\ Filled(N2, r2, d, T2)
    BY <1>6, RestsIs
  <1> QED BY <1>3, <1>4, <1>5, <1>7, WriterStep

\* The writer goes on with the latches it has.
LEMMA BusyStep ==
  ASSUME NEW wr \in Threads, NEW N, NEW r, NEW F, NEW H, NEW T, NEW v, NEW lo, NEW hi, NEW lev,
         NEW top, Whole(wr, N, r, F, H, T, v, lo, hi, lev, top), H[wr].pc # "idle",
         Writes(H[wr]), NEW l2 \in Locals, l2.pc \notin ReaderPcs,
         l2.request = H[wr].request, l2.held = H[wr].held,
         NEW H2, Moves(H, wr, l2, H2),
         NEW N2, NEW r2, NEW F2, NEW T2, NEW v2, NEW lo2, NEW hi2, NEW lev2,
         Undisturbed(wr, N, H, T, lo, hi, N2, T2, lo2, hi2), Nodes(N2, r2, F2),
         Shaped(N2, r2, F2, l2, T2, v2, lo2, hi2, lev2, top), Filled(N2, r2, l2, T2),
         Writing(N2, r2, l2, T2, lo2, hi2, lev2, top)
  PROVE  Whole(wr, N2, r2, F2, H2, T2, v2, lo2, hi2, lev2, top)
PROOF
  <1>1. Asked(H[wr], wr) /\ Latched(wr, H) BY WholeIs
  <1>2. Asked(l2, wr)
    <2>1. l2.pc # "idle" BY DEF ReaderPcs
    <2> QED BY <2>1, <1>1 DEF Asked
  <1>3. OnItsWay(N2, l2, T2, lo2, hi2)
    <2>1. Writes(l2) BY DEF Writes
    <2> QED BY <2>1 DEF OnItsWay, ReaderPcs
  <1>4. Took(wr, H, l2) BY <1>1 DEF Took, Latched
  <1> QED BY <1>2, <1>3, <1>4, WriterStep

\* Everything the steps of the writer start from.
LEMMA WriterKnows ==
  ASSUME NEW wr \in Threads, NEW N, NEW r, NEW F, NEW H, NEW T, NEW v, NEW lo, NEW hi, NEW lev,
         NEW top, Whole(wr, N, r, F, H, T, v, lo, hi, lev, top), NEW l, l = H[wr]
  PROVE  /\ wr \in Threads /\ l \in Locals /\ Asked(l, wr) /\ OnItsWay(N, l, T, lo, hi)
         /\ Nodes(N, r, F) /\ Shaped(N, r, F, l, T, v, lo, hi, lev, top)
         /\ Filled(N, r, l, T) /\ Bound(top)
         /\ Descending(N, r, l, T, lev) /\ Splitting(N, r, l, T, lo, hi, lev)
         /\ Rising(N, r, l, T, lo, hi, lev, top) /\ Mending(N, r, l, T, lev)
         /\ Unlinking(N, r, l, T, lev) /\ Settling(N, r, l, T, lev)
         /\ l.held \in Seq(Pages) /\ l.got \in Seq(Nat) /\ l.level \in Nat
         /\ l.request.low \in Nat /\ l.request.high \in Nat /\ l.sep \in Nat
         /\ l.result \in {"none", "found", "missing"}
PROOF
  <1>1. Writing(N, r, l, T, lo, hi, lev, top) BY WholeIs
  <1>2. /\ wr \in Threads /\ l \in Locals /\ Asked(l, wr) /\ OnItsWay(N, l, T, lo, hi)
        /\ Nodes(N, r, F) /\ Shaped(N, r, F, l, T, v, lo, hi, lev, top)
        /\ Filled(N, r, l, T) /\ Bound(top)
    BY WholeIs
  <1>3. /\ l.held \in Seq(Pages) /\ l.got \in Seq(Nat) /\ l.level \in Nat
        /\ l.request.low \in Nat /\ l.request.high \in Nat /\ l.sep \in Nat
        /\ l.result \in {"none", "found", "missing"}
    BY <1>2 DEF Locals, Requests
  <1> QED BY <1>1, <1>2, <1>3 DEF Writing

-----------------------------------------------------------------------------
(* Insertion.                                                              *)
\* The page p of the stack of l2 is about to be divided in two: p and l2.right.
Dividing(N, r, l, T, v, lo, hi, lev, l2, p, N2) ==
  /\ l2.pc = "up" /\ l2.level \in Nat /\ Stacked(N, l2, l2.level + 1, T, lev)
  /\ p = l2.held[l2.level + 1] /\ (l2.level = 0 => p = r)
  /\ l2.sep \in Nat /\ lo[p] < l2.sep /\ l2.sep < hi[p]
  /\ l2.right \in Pages /\ l2.right \notin T
  /\ \A q \in T : q # p => View(N, l, q) = Plain(N[q]) /\ N2[q] = N[q]

LEMMA AdoptsAll ==
  ASSUME NEW N, NEW r, NEW F, NEW l, NEW T, NEW v, NEW lo, NEW hi, NEW lev, NEW top,
         Nodes(N, r, F), Shaped(N, r, F, l, T, v, lo, hi, lev, top),
         NEW l2 \in Locals, NEW p, NEW N2,
         Dividing(N, r, l, T, v, lo, hi, lev, l2, p, N2), NEW q \in T \ {p}
  PROVE  Adopts(v[q], View(N2, l2, q), p, l2.sep, l2.right)
PROOF
  <1>1. PICK m \in Nat : m = l2.level BY DEF Dividing
  <1>2. PICK s \in Nat : s = l2.sep BY DEF Dividing
  <1>3. /\ l2.pc = "up" /\ Stacked(N, l2, m + 1, T, lev) /\ p = l2.held[m + 1]
        /\ (m = 0 => p = r) /\ lo[p] < s /\ s < hi[p]
        /\ \A x \in T : x # p => View(N, l, x) = Plain(N[x]) /\ N2[x] = N[x]
    BY <1>1, <1>2 DEF Dividing
  <1>4. /\ Tree(T, v, lo, hi, lev, lev[r], top) /\ r \in T
        /\ Ranges(T, lo, hi, lev, lev[r], top)
        /\ \A x \in T : v[x] = View(N, l, x)
    BY DEF Shaped, Tree
  <1>5. Leveled(T, lev) /\ \A x \in T : lev[x] \in Nat /\ lev[x] <= lev[r]
    BY LeveledIs DEF Leveled
  <1>6. /\ \A i \in 1..(m + 1) : l2.held[i] \in T
        /\ \A i, j \in 1..(m + 1) : i < j => l2.held[i] # l2.held[j]
        /\ \A i \in 1..m : lev[l2.held[i]] = lev[l2.held[i + 1]] + 1
    <2>1. PICK n \in Nat : n = m + 1 OBVIOUS
    <2>2. Stacked(N, l2, n, T, lev) BY <2>1, <1>3
    <2>3. Path(l2, n, T, lev) BY <2>2, <1>5, StackedIs
    <2>4. n - 1 = m BY <2>1
    <2> QED BY <2>1, <2>3, <2>4 DEF Path
  <1>7. p \in T
    <2>1. m + 1 \in 1..(m + 1) OBVIOUS
    <2> QED BY <2>1, <1>3, <1>6
  <1>8. v[q] = Plain(N[q]) /\ N2[q] = N[q] BY <1>3, <1>4
  <1>9. ASSUME m > 0, q = l2.held[m]
        PROVE  \E j \in 1..Len(v[q].kids) :
                 /\ v[q].kids[j] = p
                 /\ View(N2, l2, q).keys = InsertAt(v[q].keys, j, s)
                 /\ View(N2, l2, q).kids = InsertAt(v[q].kids, j + 1, l2.right)
    <2>1. PICK j \in 1..Len(N[q].child) : N[q].child[j] = p
      <3>1. m \in 1..((m + 1) - 1) BY <1>9
      <3> QED BY <3>1, <1>3, <1>9 DEF Stacked
    <2>2. lev[q] = lev[p] + 1
      <3>1. m \in 1..m BY <1>9
      <3> QED BY <3>1, <1>3, <1>6, <1>9
    <2>3. N[q].type = "internal"
      <3>1. lev[q] # 0 BY <2>2, <1>5, <1>7
      <3> QED BY <3>1, PageIs DEF Page
    <2>4. PICK ks, cs : ks = N[q].ent /\ cs = N[q].child OBVIOUS
    <2>5. /\ InnerFits(ks, cs, lo[q], hi[q], lev[q], T, lo, hi, lev)
          /\ v[q].keys = ks /\ v[q].kids = cs /\ N[q].count = Len(ks)
      BY <2>3, <2>4, <1>3, InnerPage
    <2>6. lo[cs[j]] <= s /\ s < hi[cs[j]]
      <3>1. cs[j] = p BY <2>1, <2>4
      <3>2. lo[p] \in Nat BY <1>7, PageIs DEF Page
      <3> QED BY <3>1, <3>2, <1>3
    <2>7. j \in 1..Len(cs) BY <2>1, <2>4
    <2>8. Cardinality({x \in 1..Len(ks) : ks[x] <= s}) + 1 = j
      BY <2>5, <2>6, <2>7, <1>4, ChildPlace
    <2>9. Upto(N[q], s) = j BY <2>4, <2>5, <2>8, Zenon DEF Upto
    <2>10. View(N2, l2, q) = Grown(N[q], j, s, l2.right)
      BY <2>9, <1>1, <1>2, <1>3, <1>8, <1>9 DEF View, Growing
    <2>11. /\ View(N2, l2, q).keys = InsertAt(ks, j, s)
           /\ View(N2, l2, q).kids = InsertAt(cs, j + 1, l2.right)
      BY <2>4, <2>10 DEF Grown
    <2> QED BY <2>1, <2>4, <2>5, <2>7, <2>11
  <1>10. ASSUME ~(m > 0 /\ q = l2.held[m])
         PROVE  View(N2, l2, q) = v[q] /\ \A j \in 1..Len(v[q].kids) : v[q].kids[j] # p
    <2>1. View(N2, l2, q) = v[q]
      <3>1. ~(Growing(l2) /\ q = l2.held[l2.level]) BY <1>1, <1>10 DEF Growing
      <3> QED BY <3>1, <1>3, <1>8, PlainView
    <2>2. SUFFICES ASSUME NEW j \in 1..Len(v[q].kids), v[q].kids[j] = p PROVE FALSE
      BY <2>1
    <2>3. CASE m > 0
      <3>1. PICK u : u = l2.held[m] OBVIOUS
      <3>2. PICK i \in 1..Len(N[u].child) : N[u].child[i] = p
        <4>1. m \in 1..((m + 1) - 1) BY <2>3
        <4> QED BY <3>1, <4>1, <1>3 DEF Stacked
      <3>3. u \in T /\ u # p
        <4>1. m \in 1..(m + 1) /\ m + 1 \in 1..(m + 1) /\ m < m + 1 BY <2>3
        <4> QED BY <4>1, <3>1, <1>3, <1>6
      <3>4. v[u].kids = N[u].child
        <4>1. v[u] = Plain(N[u]) BY <3>3, <1>3, <1>4
        <4> QED BY <4>1 DEF Plain
      <3>5. i \in 1..Len(v[u].kids) /\ v[u].kids[i] = p BY <3>2, <3>4
      <3>6. q = u BY <2>2, <3>3, <3>5, <1>4, <1>7, OneParent
      <3> QED BY <3>1, <3>6, <2>3, <1>10
    <2>4. CASE ~(m > 0)
      <3>1. p = r BY <2>4, <1>3
      <3>2. lev[q] = lev[p] + 1 BY <2>2, <1>4, <1>7, OneParent
      <3> QED BY <3>1, <3>2, <1>5, <1>4
    <2> QED BY <2>3, <2>4
  <1>11. \/ View(N2, l2, q) = v[q] /\ \A j \in 1..Len(v[q].kids) : v[q].kids[j] # p
         \/ \E j \in 1..Len(v[q].kids) :
              /\ v[q].kids[j] = p
              /\ View(N2, l2, q).keys = InsertAt(v[q].keys, j, s)
              /\ View(N2, l2, q).kids = InsertAt(v[q].kids, j + 1, l2.right)
    BY <1>9, <1>10
  <1> QED BY <1>2, <1>11 DEF Adopts

\* The two pages that p becomes.
Halves(T, v, lo, hi, lev, l2, p, N2, F2) ==
  LET x == N2[p]  y == N2[l2.right] IN
  /\ T \cup {l2.right} = Pages \ F2
  /\ x.count >= Fewest(x) /\ y.count >= Fewest(y)
  /\ x.type = IF lev[p] = 0 THEN "leaf" ELSE "internal"
  /\ y.type = x.type
  /\ lev[p] = 0 => /\ LeafPair(Plain(x), Plain(y), lo[p], l2.sep, hi[p])
                   /\ x.next = l2.right /\ y.next = v[p].next
  /\ lev[p] # 0 => InnerPair(Plain(x), Plain(y), lo[p], l2.sep, hi[p], lev[p], T, lo, hi, lev)

\* The ghosts after a split.
SplitLo(T, lo, l2) == [q \in T \cup {l2.right} |-> IF q = l2.right THEN l2.sep ELSE lo[q]]
SplitHi(T, hi, l2, p) ==
  [q \in T \cup {l2.right} |->
     IF q = l2.right THEN hi[p] ELSE IF q = p THEN l2.sep ELSE hi[q]]
SplitLev(T, lev, l2, p) ==
  [q \in T \cup {l2.right} |-> IF q = l2.right THEN lev[p] ELSE lev[q]]

LEMMA SplitGhosts ==
  ASSUME NEW T, NEW lo, NEW hi, NEW lev, NEW l2, l2.right \notin T, NEW p \in T,
         NEW lo2, lo2 = SplitLo(T, lo, l2), NEW hi2, hi2 = SplitHi(T, hi, l2, p),
         NEW lev2, lev2 = SplitLev(T, lev, l2, p)
  PROVE  Divided(T, lo, hi, lev, p, l2.right, l2.sep, lo2, hi2, lev2)
PROOF
  <1>1. PICK new : new = l2.right OBVIOUS
  <1>2. PICK s : s = l2.sep OBVIOUS
  <1>3. /\ lo2 = [q \in T \cup {new} |-> IF q = new THEN s ELSE lo[q]]
        /\ hi2 = [q \in T \cup {new} |->
                    IF q = new THEN hi[p] ELSE IF q = p THEN s ELSE hi[q]]
        /\ lev2 = [q \in T \cup {new} |-> IF q = new THEN lev[p] ELSE lev[q]]
    BY <1>1, <1>2 DEF SplitLo, SplitHi, SplitLev
  <1>4. ASSUME NEW q \in T
        PROVE  lo2[q] = lo[q] /\ lev2[q] = lev[q] /\ hi2[q] = IF q = p THEN s ELSE hi[q]
    <2>1. q # new BY <1>1
    <2> QED BY <2>1, <1>3
  <1>5. lo2[new] = s /\ hi2[new] = hi[p] /\ lev2[new] = lev[p] BY <1>3
  <1> QED BY <1>1, <1>2, <1>4, <1>5 DEF Divided

LEMMA SplitShaped ==
  ASSUME NEW N, NEW r, NEW F, NEW l, NEW T, NEW v, NEW lo, NEW hi, NEW lev, NEW top,
         Nodes(N, r, F), Shaped(N, r, F, l, T, v, lo, hi, lev, top), ~Orphan(l),
         NEW l2 \in Locals, NEW p, NEW N2, NEW F2,
         Dividing(N, r, l, T, v, lo, hi, lev, l2, p, N2),
         Halves(T, v, lo, hi, lev, l2, p, N2, F2)
  PROVE  \E v2, lo2, hi2, lev2 :
           /\ p \in T /\ Divided(T, lo, hi, lev, p, l2.right, l2.sep, lo2, hi2, lev2)
           /\ Shaped(N2, r, F2, l2, T \cup {l2.right}, v2, lo2, hi2, lev2, top)
PROOF
  <1>1. PICK m \in Nat : m = l2.level BY DEF Dividing
  <1>2. PICK s \in Nat : s = l2.sep BY DEF Dividing
  <1>3. PICK new \in Pages : new = l2.right /\ new \notin T BY DEF Dividing
  <1>4. /\ l2.pc = "up" /\ Stacked(N, l2, m + 1, T, lev) /\ p = l2.held[m + 1]
        /\ (m = 0 => p = r) /\ lo[p] < s /\ s < hi[p]
        /\ \A x \in T : x # p => View(N, l, x) = Plain(N[x]) /\ N2[x] = N[x]
    BY <1>1, <1>2 DEF Dividing
  <1>5. /\ Tree(T, v, lo, hi, lev, lev[r], top) /\ r \in T /\ lo[r] = 0 /\ hi[r] = top
        /\ \A x \in T : N[x].type = IF lev[x] = 0 THEN "leaf" ELSE "internal"
    BY DEF Shaped
  <1>6. Leveled(T, lev) /\ \A x \in T : lev[x] \in Nat BY LeveledIs DEF Leveled
  <1>7. PICK n \in Nat : n = m + 1 /\ n - 1 = m OBVIOUS
  <1>8. Path(l2, n, T, lev) /\ p = l2.held[n]
    <2>1. Stacked(N, l2, n, T, lev) BY <1>4, <1>7
    <2> QED BY <2>1, <1>4, <1>6, <1>7, StackedIs
  <1>9. p \in T
    <2>1. n \in 1..n BY <1>7
    <2> QED BY <2>1, <1>8 DEF Path
  <1>10. m > 0 => l2.held[m] \in T /\ l2.held[m] # p
    <2>1. m > 0 => m \in 1..n /\ n \in 1..n /\ m < n BY <1>7
    <2> QED BY <2>1, <1>8 DEF Path
  <1>11. View(N2, l2, p) = Plain(N2[p]) /\ View(N2, l2, new) = Plain(N2[new])
    <2>1. l2.pc # "unlink" BY <1>4
    <2>2. ~(Growing(l2) /\ p = l2.held[l2.level]) BY <1>1, <1>10 DEF Growing
    <2>3. ~(Growing(l2) /\ new = l2.held[l2.level]) BY <1>1, <1>3, <1>10 DEF Growing
    <2> QED BY <2>1, <2>2, <2>3, PlainView
  <1>12. PICK T2 : T2 = T \cup {new} OBVIOUS
  <1>13. PICK v2 : v2 = [q \in T2 |-> View(N2, l2, q)] OBVIOUS
  <1>14. /\ \A q \in T2 : v2[q] = View(N2, l2, q)
         /\ v2[p] = Plain(N2[p]) /\ v2[new] = Plain(N2[new])
    BY <1>9, <1>11, <1>12, <1>13
  <1>15. PICK lo2, hi2, lev2 : Divided(T, lo, hi, lev, p, new, s, lo2, hi2, lev2)
    <2>1. Divided(T, lo, hi, lev, p, l2.right, l2.sep, SplitLo(T, lo, l2),
                  SplitHi(T, hi, l2, p), SplitLev(T, lev, l2, p))
      BY <1>3, <1>9, SplitGhosts
    <2> QED BY <2>1, <1>2, <1>3
  <1>16. Tree(T2, v2, lo2, hi2, lev2, lev[r], top)
    <2>1. new # 0 BY <1>3, Sizes
    <2>2. lev[p] = 0 => /\ LeafPair(v2[p], v2[new], lo[p], s, hi[p])
                        /\ v2[p].next = new /\ v2[new].next = v[p].next
      <3>1. Plain(N2[p]).next = N2[p].next /\ Plain(N2[new]).next = N2[new].next
        BY DEF Plain
      <3> QED BY <3>1, <1>2, <1>3, <1>14 DEF Halves
    <2>3. lev[p] # 0 => InnerPair(v2[p], v2[new], lo[p], s, hi[p], lev[p], T, lo, hi, lev)
      BY <1>2, <1>3, <1>14 DEF Halves
    <2>4. \A q \in T \ {p} : Adopts(v[q], v2[q], p, s, new)
      <3>1. \A q \in T \ {p} : Adopts(v[q], View(N2, l2, q), p, l2.sep, l2.right)
        BY AdoptsAll
      <3> QED BY <3>1, <1>2, <1>3, <1>12, <1>14
    <2> QED BY <2>1, <2>2, <2>3, <2>4, <1>3, <1>4, <1>5, <1>9, <1>12, <1>15, DivideTree
  <1>17. \A q \in T2 : N2[q].type = IF lev2[q] = 0 THEN "leaf" ELSE "internal"
    <2> TAKE q \in T2
    <2>1. CASE q = new
      <3>1. lev2[q] = lev[p] BY <2>1, <1>15 DEF Divided
      <3> QED BY <3>1, <2>1, <1>3 DEF Halves
    <2>2. CASE q = p
      <3>1. lev2[q] = lev[p] BY <2>2, <1>9, <1>15 DEF Divided
      <3> QED BY <3>1, <2>2 DEF Halves
    <2>3. CASE q # new /\ q # p
      <3>1. q \in T /\ N2[q] = N[q] BY <2>3, <1>4, <1>12
      <3>2. lev2[q] = lev[q] BY <3>1, <1>15 DEF Divided
      <3> QED BY <3>1, <3>2, <1>5
    <2> QED BY <2>1, <2>2, <2>3
  <1>18. Shaped(N2, r, F2, l2, T2, v2, lo2, hi2, lev2, top)
    <2>1. Loose(l2) = {} BY <1>4 DEF Loose
    <2>2. T2 = (Pages \ F2) \ Loose(l2) BY <2>1, <1>3, <1>12 DEF Halves
    <2>3. lev2[r] = lev[r] /\ r \in T2 /\ lo2[r] = 0 BY <1>5, <1>12, <1>15 DEF Divided
    <2>4. hi2[r] = IF Orphan(l2) THEN l2.sep ELSE top
      <3>1. hi2[r] = IF r = p THEN s ELSE hi[r] BY <1>5, <1>15 DEF Divided
      <3>2. CASE m = 0
        <4>1. Orphan(l2) BY <3>2, <1>1, <1>4 DEF Orphan
        <4> QED BY <4>1, <3>1, <3>2, <1>2, <1>4
      <3>3. CASE m # 0
        <4>1. ~Orphan(l2) BY <3>3, <1>1 DEF Orphan
        <4>2. r # p
          <5>1. m \in 1..(n - 1) /\ m \in 1..n /\ n \in 1..n /\ m < n BY <3>3, <1>7
          <5>2. lev[l2.held[m]] \in Nat /\ lev[p] < lev[l2.held[m]] /\ l2.held[m] \in T
            BY <5>1, <1>6, <1>8 DEF Path
          <5>3. lev[l2.held[m]] <= lev[r] BY <5>2, LeveledIs
          <5> QED BY <5>2, <5>3, <1>5, <1>6
        <4> QED BY <4>1, <4>2, <3>1, <1>5
      <3> QED BY <3>2, <3>3
    <2> QED BY <2>2, <2>3, <2>4, <1>14, <1>16, <1>17 DEF Shaped
  <1> QED BY <1>2, <1>3, <1>9, <1>12, <1>15, <1>18

\* A split of the leaf or of an inner node, and its separator on the way up.
LEMMA SplitStep ==
  ASSUME NEW wr \in Threads, NEW N, NEW r, NEW F, NEW H, NEW T, NEW v, NEW lo, NEW hi, NEW lev,
         NEW top, Whole(wr, N, r, F, H, T, v, lo, hi, lev, top),
         NEW l, l = H[wr], l.pc \in {"split", "up"}, ~Orphan(l), l.request.op = "insert",
         NEW l2 \in Locals, l2.request = l.request, l2.held = l.held,
         NEW H2, Moves(H, wr, l2, H2), NEW p, NEW N2, NEW F2,
         Dividing(N, r, l, T, v, lo, hi, lev, l2, p, N2),
         Halves(T, v, lo, hi, lev, l2, p, N2, F2),
         l2.level > 0 => Ready(N, r, l2), Nodes(N2, r, F2)
  PROVE  \E T2, v2, lo2, hi2, lev2 : Whole(wr, N2, r, F2, H2, T2, v2, lo2, hi2, lev2, top)
PROOF
  <1>1. /\ Nodes(N, r, F) /\ Shaped(N, r, F, l, T, v, lo, hi, lev, top)
        /\ Filled(N, r, l, T)
    BY WriterKnows
  <1>2. PICK T2 : T2 = T \cup {l2.right} OBVIOUS
  <1>3. PICK v2, lo2, hi2, lev2 :
          /\ p \in T /\ Divided(T, lo, hi, lev, p, l2.right, l2.sep, lo2, hi2, lev2)
          /\ Shaped(N2, r, F2, l2, T \cup {l2.right}, v2, lo2, hi2, lev2, top)
    BY <1>1, SplitShaped
  <1>4. p \in T /\ Divided(T, lo, hi, lev, p, l2.right, l2.sep, lo2, hi2, lev2) BY <1>3
  <1>5. Shaped(N2, r, F2, l2, T2, v2, lo2, hi2, lev2, top) BY <1>2, <1>3
  <1>6. PICK m \in Nat : m = l2.level BY DEF Dividing
  <1>7. PICK n \in Nat : n = m + 1 /\ n - 1 = m /\ n \in 1..n /\ m < n OBVIOUS
  <1>8. PICK new \in Pages : new = l2.right /\ new \notin T BY DEF Dividing
  <1>9. /\ l2.pc = "up" /\ Stacked(N, l2, n, T, lev) /\ p = l2.held[n]
        /\ (m = 0 => p = r) /\ \A x \in T : x # p => N2[x] = N[x]
    BY <1>6, <1>7 DEF Dividing
  <1>10. Leveled(T, lev) /\ Path(l2, n, T, lev) BY <1>1, <1>9, LeveledIs, StackedIs
  <1>11. Writes(l) /\ Writes(H[wr]) BY DEF Writes
  <1>12. p \in ToSet(l2.held) BY <1>7, <1>9, <1>10 DEF Path
  <1>13. Elsewhere(wr, H, p) BY <1>11, <1>12, Mine
  <1>14. Undisturbed(wr, N, H, T, lo, hi, N2, T2, lo2, hi2)
    <2>1. ASSUME NEW q \in T, q # p
          PROVE  q \in T2 /\ N2[q] = N[q] /\ lo2[q] = lo[q] /\ hi2[q] = hi[q]
      BY <2>1, <1>2, <1>4, <1>9 DEF Divided
    <2> QED BY <2>1, <1>13 DEF Undisturbed
  <1>15. Filled(N2, r, l2, T2)
    <2>1. ASSUME NEW q \in T2
          PROVE  IF q = r THEN N2[q].type = "internal" => N2[q].count >= 1
                 ELSE N2[q].count >= Fewest(N2[q])
      <3>1. Page(N2, q, T2, lo2, hi2, lev2, top) BY <1>5, PageIs
      <3>2. N2[q].count \in Nat /\ (N2[q].type = "leaf" \/ N2[q].type = "internal")
        BY <3>1 DEF Page
      <3>3. Fewest(N2[q]) \in Nat /\ Fewest(N2[q]) >= 1 BY <3>2, Sizes DEF Fewest
      <3>4. CASE q = p \/ q = new
        <4>1. N2[q].count >= Fewest(N2[q]) BY <3>4, <1>8 DEF Halves
        <4> QED BY <4>1, <3>2, <3>3
      <3>5. CASE q # p /\ q # new
        <4>1. q \in T /\ N2[q] = N[q] BY <3>5, <1>2, <1>8, <1>9
        <4>2. ~Weak(l, q) BY DEF Weak, Repairing
        <4> QED BY <4>1, <4>2, <1>1 DEF Filled
      <3> QED BY <3>4, <3>5
    <2>2. \A q : ~Weak(l2, q) BY <1>9 DEF Weak, Repairing
    <2> QED BY <2>1, <2>2 DEF Filled
  <1>16. Writing(N2, r, l2, T2, lo2, hi2, lev2, top)
    <2>1. Stacked(N2, l2, n, T2, lev2)
      <3>1. \A i \in 1..n : l2.held[i] \in T2 /\ lev2[l2.held[i]] = lev[l2.held[i]]
        BY <1>2, <1>4, <1>10 DEF Path, Divided
      <3>2. \A i \in 1..(n - 1) : N2[l2.held[i]] = N[l2.held[i]]
        <4> TAKE i \in 1..(n - 1)
        <4>1. i \in 1..n /\ i < n OBVIOUS
        <4>2. l2.held[i] # p /\ l2.held[i] \in T BY <4>1, <1>7, <1>9, <1>10 DEF Path
        <4> QED BY <4>2, <1>9
      <3>3. Untouched(N, l2, n, N2, T2, lev, lev2) BY <3>1, <3>2 DEF Untouched
      <3> QED BY <3>3, <1>7, <1>9, StackedStill
    <2>2. m > 0 => Ready(N2, r, l2)
      <3>1. SUFFICES ASSUME m > 0 PROVE Ready(N2, r, l2) OBVIOUS
      <3>2. 1 \in 1..n /\ 1 < n BY <3>1, <1>7
      <3>3. l2.held[1] # p /\ l2.held[1] \in T BY <3>2, <1>7, <1>9, <1>10 DEF Path
      <3> QED BY <3>1, <3>3, <1>6, <1>9 DEF Ready
    <2>3. m = 0 => p = r /\ N2[p].count >= Fewest(N2[p]) /\ hi2[new] = top
      <3>1. hi2[new] = hi[p] BY <1>4, <1>8 DEF Divided
      <3>2. hi[r] = top BY <1>1 DEF Shaped
      <3> QED BY <3>1, <3>2, <1>9 DEF Halves
    <2>4. /\ new \in T2 /\ lev2[new] = lev2[p] /\ hi2[p] = l2.sep /\ lo2[new] = l2.sep
      BY <1>2, <1>4, <1>8 DEF Divided
    <2>5. Rising(N2, r, l2, T2, lo2, hi2, lev2, top)
      BY <2>1, <2>2, <2>3, <2>4, <1>6, <1>7, <1>8, <1>9 DEF Rising
    <2>6. /\ Descending(N2, r, l2, T2, lev2) /\ Splitting(N2, r, l2, T2, lo2, hi2, lev2)
          /\ Mending(N2, r, l2, T2, lev2) /\ Unlinking(N2, r, l2, T2, lev2)
          /\ Settling(N2, r, l2, T2, lev2)
      BY <1>9 DEF Descending, Splitting, Mending, Unlinking, Settling, Repairing
    <2> QED BY <2>5, <2>6 DEF Writing
  <1>17. Whole(wr, N2, r, F2, H2, T2, v2, lo2, hi2, lev2, top)
    <2>1. l2.pc \notin ReaderPcs BY <1>9 DEF ReaderPcs
    <2>2. H[wr].pc # "idle" OBVIOUS
    <2> QED BY <2>1, <2>2, <1>5, <1>11, <1>14, <1>15, <1>16, BusyStep
  <1> QED BY <1>17

LEMMA CalmIs ==
  ASSUME NEW N, NEW r, NEW F, NEW l, NEW T, NEW v, NEW lo, NEW hi, NEW lev, NEW top,
         Shaped(N, r, F, l, T, v, lo, hi, lev, top), l.pc \notin Midway
  PROVE  /\ Calm(N, r, F, T, v, lo, hi, lev, top)
         /\ \A q \in T : View(N, l, q) = Plain(N[q])
PROOF
  <1>1. l.pc # "split" /\ l.pc # "unlink" /\ l.pc # "up" BY DEF Midway
  <1>2. Loose(l) = {} /\ ~Orphan(l) /\ ~Growing(l) BY <1>1 DEF Loose, Orphan, Growing
  <1>3. \A q \in T : View(N, l, q) = Plain(N[q]) BY <1>1, <1>2, PlainView
  <1>4. T = Pages \ F BY <1>2 DEF Shaped
  <1>5. /\ Tree(T, v, lo, hi, lev, lev[r], top)
        /\ \A q \in T : /\ v[q] = Plain(N[q])
                        /\ N[q].type = IF lev[q] = 0 THEN "leaf" ELSE "internal"
        /\ r \in T /\ lo[r] = 0 /\ hi[r] = top
    BY <1>2, <1>3, Zenon DEF Shaped
  <1> QED BY <1>3, <1>4, <1>5 DEF Calm

\* The leaf n = N[p] that the writer has come to.
Reach(wr, N, r, F, H, l, p, T, v, lo, hi, lev, top) ==
  /\ p \in T /\ p \in Pages /\ p \notin F /\ Page(N, p, T, lo, hi, lev, top)
  /\ N[p].type = "leaf" /\ N[p].child = << >> /\ N[p].count <= MaxLeaf /\ lev[p] = 0
  /\ InRange(SubSeq(N[p].ent, 1, N[p].count), lo[p], hi[p])
  /\ Len(SubSeq(N[p].ent, 1, N[p].count)) = N[p].count
  /\ lo[p] <= l.request.low /\ l.request.low < hi[p]
  /\ Len(l.held) \in Nat /\ Len(l.held) >= 1 /\ p = l.held[Len(l.held)]
  /\ Stacked(N, l, Len(l.held), T, lev) /\ Path(l, Len(l.held), T, lev) /\ Ready(N, r, l)
  /\ Elsewhere(wr, H, p)

LEMMA ReachIs ==
  ASSUME NEW wr \in Threads, NEW N, NEW r, NEW F, NEW H, NEW T, NEW v, NEW lo, NEW hi, NEW lev,
         NEW top, Whole(wr, N, r, F, H, T, v, lo, hi, lev, top), NEW l, l = H[wr],
         l.pc = "leaf", Writes(l), NEW p, p = Here(l)
  PROVE  Reach(wr, N, r, F, H, l, p, T, v, lo, hi, lev, top)
PROOF
  <1>1. /\ l \in Locals /\ OnItsWay(N, l, T, lo, hi) /\ Nodes(N, r, F)
        /\ Shaped(N, r, F, l, T, v, lo, hi, lev, top)
        /\ Descending(N, r, l, T, lev) /\ l.held \in Seq(Pages)
    BY WriterKnows
  <1>2. /\ Len(l.held) >= 1 /\ p \in T /\ N[p].type = "leaf"
        /\ lo[p] <= l.request.low /\ l.request.low < hi[p]
    BY <1>1 DEF OnItsWay
  <1>3. PICK n \in Nat : n = Len(l.held) BY <1>1
  <1>4. Stacked(N, l, n, T, lev) /\ Ready(N, r, l) BY <1>1, <1>3 DEF Descending
  <1>5. Path(l, n, T, lev) BY <1>1, <1>4, LeveledIs, StackedIs
  <1>6. Page(N, p, T, lo, hi, lev, top) /\ p \in Pages BY <1>1, <1>2, PageIs DEF Page
  <1>7. l.pc \notin Midway BY DEF Midway
  <1>8. View(N, l, p) = Plain(N[p]) /\ p \notin F BY <1>1, <1>2, <1>7, CalmIs DEF Calm
  <1>9. /\ InRange(SubSeq(N[p].ent, 1, N[p].count), lo[p], hi[p]) /\ lev[p] = 0
        /\ N[p].child = << >> /\ N[p].count <= MaxLeaf
    BY <1>1, <1>2, <1>8, LeafPage
  <1>10. Len(SubSeq(N[p].ent, 1, N[p].count)) = N[p].count BY <1>6, KeysAre DEF Page
  <1>11. p = l.held[n] /\ n \in 1..n BY <1>2, <1>3 DEF Here
  <1>12. p \in ToSet(l.held) BY <1>5, <1>11 DEF Path
  <1>13. Elsewhere(wr, H, p) BY <1>12, Mine
  <1> QED BY <1>2, <1>3, <1>4, <1>5, <1>6, <1>8, <1>9, <1>10, <1>11, <1>13 DEF Reach

\* Other keys in that leaf.
Rewrites(N, p, ks, N2) == N2 = [N EXCEPT ![p] = WithKeys(N[p], ks)]
Rewritten(wr, N, r, F, H, T, lo, hi, lev, top, p, ks, N2) ==
  /\ Nodes(N2, r, F) /\ Undisturbed(wr, N, H, T, lo, hi, N2, T, lo, hi)
  /\ N2[p].count = Len(ks) /\ N2[p].type = "leaf"
  /\ \A q \in Pages : q # p => N2[q] = N[q]
  /\ \E v2 : Calm(N2, r, F, T, v2, lo, hi, lev, top)

LEMMA LeafWritten ==
  ASSUME NEW wr, NEW N, NEW r, NEW F, NEW H, NEW T, NEW v, NEW lo, NEW hi, NEW lev, NEW top,
         NEW l, NEW p, Reach(wr, N, r, F, H, l, p, T, v, lo, hi, lev, top), Nodes(N, r, F),
         Calm(N, r, F, T, v, lo, hi, lev, top),
         NEW ks, InRange(ks, lo[p], hi[p]), Len(ks) <= MaxLeaf,
         NEW N2, Rewrites(N, p, ks, N2)
  PROVE  Rewritten(wr, N, r, F, H, T, lo, hi, lev, top, p, ks, N2)
PROOF
  <1>1. /\ p \in Pages /\ p \in T /\ p \notin F /\ N[p] \in NodeType /\ N[p].type = "leaf"
        /\ N[p].child = << >> /\ Elsewhere(wr, H, p) /\ lev[p] = 0
    BY DEF Reach, Page
  <1>2. PICK x : x = WithKeys(N[p], ks) OBVIOUS
  <1>3. ks \in Seq(Nat) BY DEF InRange
  <1>4. IsLeaf(x, ks, N[p].next) BY <1>1, <1>2, <1>3, WithKeysIs
  <1>5. /\ x \in NodeType /\ IsNode(x) /\ x.type = "leaf" /\ x.count = Len(ks)
        /\ Plain(x).keys = ks /\ Plain(x).kids = << >> /\ Plain(x).next = N[p].next
    BY <1>3, <1>4, LeafPlain
  <1>6. /\ N2[p] = x /\ \A q \in Pages : q # p => N2[q] = N[q]
        /\ Nodes(N2, r, F)
    <2>1. F \ {p} = F BY <1>1
    <2>2. x.type # "free" BY <1>5
    <2>3. N2 = [N EXCEPT ![p] = x] BY <1>2 DEF Rewrites
    <2>4. Only(N, N2, p, x) /\ Nodes(N2, r, F \ {p}) BY <2>2, <2>3, <1>1, <1>5, OnlyIs
    <2> QED BY <2>1, <2>4 DEF Only
  <1>7. Undisturbed(wr, N, H, T, lo, hi, N2, T, lo, hi)
    <2>1. T \subseteq Pages BY DEF Calm
    <2> QED BY <2>1, <1>1, <1>6 DEF Undisturbed
  <1>8. PICK v2 : v2 = [q \in T |-> Plain(N2[q])] OBVIOUS
  <1>9. \A q \in T : v2[q] = Plain(N2[q]) BY <1>8
  <1>10. Tree(T, v, lo, hi, lev, lev[r], top) /\ \A q \in T : v[q] = Plain(N[q])
    BY DEF Calm
  <1>11. Tree(T, v2, lo, hi, lev, lev[r], top)
    <2>1. v2[p].keys = ks /\ v2[p].kids = << >> /\ v2[p].next = v[p].next
      <3>1. Plain(N[p]).next = N[p].next BY DEF Plain
      <3> QED BY <3>1, <1>1, <1>5, <1>6, <1>9, <1>10
    <2>2. Same(v, v2, T \ {p})
      <3>1. T \subseteq Pages BY DEF Calm
      <3> QED BY <3>1, <1>6, <1>9, <1>10 DEF Same
    <2> QED BY <2>1, <2>2, <1>1, <1>10, LeafTree
  <1>12. Calm(N2, r, F, T, v2, lo, hi, lev, top)
    <2>1. \A q \in T : N2[q].type = IF lev[q] = 0 THEN "leaf" ELSE "internal"
      <3> TAKE q \in T
      <3>1. CASE q = p BY <3>1, <1>1, <1>5, <1>6
      <3>2. CASE q # p
        <4>1. N2[q] = N[q] BY <3>2, <1>6 DEF Calm
        <4> QED BY <4>1 DEF Calm
      <3> QED BY <3>1, <3>2
    <2> QED BY <2>1, <1>9, <1>11 DEF Calm
  <1> QED BY <1>5, <1>6, <1>7, <1>12 DEF Rewritten

\* The names of BPTree for what this module says of one page or one thread.
LEMMA NamesAre ==
  /\ \A p, k : leaf_find(p, k) = Below(node[p], k) /\ internal_find(p, k) = Upto(node[p], k)
  /\ \A t : LeafOf(t) = Here(th[t]) /\ NodeAt(t) = th[t].held[th[t].level]
            /\ Parent(t) = th[t].held[th[t].level - 1]
  /\ \A p : Keys(p) = SubSeq(node[p].ent, 1, node[p].count)
  /\ \A p : MaxOf(p) = Most(node[p]) /\ MinOf(p) = Fewest(node[p])
  /\ \A p : HasRoom(p) <=> node[p].count < Most(node[p])
  /\ Allocatable \subseteq free
PROOF
  <1>1. \A p, k : leaf_find(p, k) = Below(node[p], k) BY Zenon DEF leaf_find, Below
  <1>2. \A p, k : internal_find(p, k) = Upto(node[p], k) BY Zenon DEF internal_find, Upto
  <1>3. \A t : LeafOf(t) = Here(th[t]) BY DEF LeafOf, Here, Last
  <1>4. \A t : NodeAt(t) = th[t].held[th[t].level] /\ Parent(t) = th[t].held[th[t].level - 1]
    BY Zenon DEF NodeAt, Parent
  <1>5. \A p : Keys(p) = SubSeq(node[p].ent, 1, node[p].count) BY Zenon DEF Keys
  <1>6. \A p : MaxOf(p) = Most(node[p]) /\ MinOf(p) = Fewest(node[p])
    BY Zenon DEF MaxOf, MinOf, Most, Fewest
  <1>7. \A p : HasRoom(p) <=> node[p].count < Most(node[p])
    <2>1. \A p : HasRoom(p) <=> node[p].count < MaxOf(p) BY Zenon DEF HasRoom
    <2> QED BY <2>1, <1>6
  <1>8. Allocatable \subseteq free BY DEF Allocatable
  <1> QED BY <1>1, <1>2, <1>3, <1>4, <1>5, <1>6, <1>7, <1>8

\* The invariant after a step that may change pages.
LEMMA Landed ==
  ASSUME NEW wr, NEW T, NEW v, NEW lo, NEW hi, NEW lev, NEW top,
         Whole(wr, node', root', free', th', T, v, lo, hi, lev, top)
  PROVE  InvOf(wr)'
PROOF
  <1>1. Whole(wr, node, root, free, th, T, v, lo, hi, lev, top)' OBVIOUS
  <1> QED BY <1>1 DEF InvOf

\* Done of BPTree for the writer.
LEMMA WriterDone ==
  ASSUME NEW wr \in Threads, InvOf(wr), NEW res \in {"none", "found", "missing"}
  PROVE  Ended(Done(wr, res), th[wr], th[wr].got, res)
PROOF
  <1>1. th[wr] \in Locals BY WholeIs DEF InvOf
  <1> QED BY <1>1, DoneIs

LEMMA InsertLeafRoom ==
  ASSUME NEW wr \in Threads, NEW N, NEW r, NEW F, NEW H, NEW T, NEW v, NEW lo, NEW hi, NEW lev,
         NEW top, Whole(wr, N, r, F, H, T, v, lo, hi, lev, top), NEW l, l = H[wr],
         l.pc = "leaf", l.request.op = "insert", NEW p, p = Here(l),
         ~Has(N[p], l.request.low), N[p].count < Most(N[p]), NEW ks,
         ks = Put(N[p], l.request.low), NEW N2, Rewrites(N, p, ks, N2),
         NEW d, Ended(d, l, l.got, "missing"), NEW H2, Moves(H, wr, d, H2)
  PROVE  \E v2 : Whole(wr, N2, r, F, H2, T, v2, lo, hi, lev, top)
PROOF
  <1>1. Writes(l) BY DEF Writes
  <1>2. Reach(wr, N, r, F, H, l, p, T, v, lo, hi, lev, top) BY <1>1, ReachIs
  <1>3. /\ Nodes(N, r, F) /\ Shaped(N, r, F, l, T, v, lo, hi, lev, top)
        /\ Filled(N, r, l, T) /\ l.request.low \in Nat
    BY WriterKnows
  <1>4. Calm(N, r, F, T, v, lo, hi, lev, top)
    <2>1. l.pc \notin Midway BY DEF Midway
    <2> QED BY <2>1, <1>3, CalmIs
  <1>5. /\ N[p] \in NodeType /\ IsNode(N[p]) /\ N[p].count \in Nat /\ N[p].type = "leaf"
        /\ lo[p] \in Nat /\ hi[p] \in Nat /\ p \in T /\ p \in Pages
        /\ lo[p] <= l.request.low /\ l.request.low < hi[p] /\ Within(N[p], lo[p], hi[p])
    BY <1>2, Zenon DEF Reach, Page, Within
  <1>6. InRange(ks, lo[p], hi[p]) /\ Len(ks) = N[p].count + 1 BY <1>3, <1>5, PutIs
  <1>7. Len(ks) <= MaxLeaf BY <1>5, <1>6, Sizes DEF Most
  <1>8. Rewritten(wr, N, r, F, H, T, lo, hi, lev, top, p, ks, N2)
    BY <1>2, <1>3, <1>4, <1>6, <1>7, LeafWritten
  <1>9. /\ Nodes(N2, r, F) /\ Undisturbed(wr, N, H, T, lo, hi, N2, T, lo, hi)
        /\ N2[p].count = Len(ks) /\ N2[p].type = "leaf"
        /\ \A q \in Pages : q # p => N2[q] = N[q]
        /\ \E v2 : Calm(N2, r, F, T, v2, lo, hi, lev, top)
    BY <1>8 DEF Rewritten
  <1>10. PICK v2 : Calm(N2, r, F, T, v2, lo, hi, lev, top) BY <1>9
  <1>11. Fit(N2, r, T)
    <2>1. SUFFICES ASSUME NEW q \in T
                   PROVE  IF q = r THEN N2[q].type = "internal" => N2[q].count >= 1
                          ELSE N2[q].count >= Fewest(N2[q])
      BY DEF Fit
    <2>2. ~Weak(l, q) BY DEF Weak, Repairing
    <2>3. IF q = r THEN N[q].type = "internal" => N[q].count >= 1
          ELSE N[q].count >= Fewest(N[q])
      BY <2>2, <1>3 DEF Filled
    <2>4. CASE q = p
      <3>1. q # r => N[p].count >= MinLeaf BY <2>3, <2>4, <1>5 DEF Fewest
      <3>2. q # r => N2[p].count >= MinLeaf BY <3>1, <1>5, <1>6, <1>9, Sizes
      <3> QED BY <3>2, <2>4, <1>9 DEF Fewest
    <2>5. CASE q # p
      <3>1. q \in Pages BY <1>4 DEF Calm
      <3>2. N2[q] = N[q] BY <3>1, <2>5, <1>9
      <3> QED BY <3>2, <2>3
    <2> QED BY <2>4, <2>5
  <1>12. Rests(N2, r, F, T, v2, lo, hi, lev, top) BY <1>10, <1>11 DEF Rests
  <1>13. H[wr].pc # "idle" /\ Ended(d, H[wr], H[wr].got, "missing") OBVIOUS
  <1>14. Whole(wr, N2, r, F, H2, T, v2, lo, hi, lev, top)
    BY <1>9, <1>12, <1>13, DoneStep
  <1> QED BY <1>14

\* The keys of a full leaf and one more, in two halves.
Half(ks) == Len(ks) \div 2
HalvedAt(ks, l, s, h) ==
  /\ s \in Nat /\ l < s /\ s < h
  /\ InRange(SubSeq(ks, 1, Half(ks)), l, s)
  /\ InRange(SubSeq(ks, Half(ks) + 1, Len(ks)), s, h)
  /\ MinLeaf <= Len(SubSeq(ks, 1, Half(ks))) /\ Len(SubSeq(ks, 1, Half(ks))) <= MaxLeaf
  /\ MinLeaf <= Len(SubSeq(ks, Half(ks) + 1, Len(ks)))
  /\ Len(SubSeq(ks, Half(ks) + 1, Len(ks))) <= MaxLeaf

LEMMA HalvedIs ==
  ASSUME NEW ks, NEW l \in Nat, NEW h \in Nat, InRange(ks, l, h), Len(ks) = MaxLeaf + 1
  PROVE  HalvedAt(ks, l, ks[Half(ks) + 1], h)
PROOF
  <1>1. PICK n \in Nat : n = Len(ks)
    <2>1. ks \in Seq(Nat) BY DEF InRange
    <2> QED BY <2>1
  <1>2. PICK m \in Nat : m = n \div 2 /\ 1 <= m /\ m < n /\ 2 * m <= n /\ n <= 2 * m + 1
    <2>1. n >= 2 BY <1>1, Sizes
    <2>2. n \div 2 \in Nat /\ 1 <= n \div 2 /\ n \div 2 < n /\ 2 * (n \div 2) <= n
          /\ n <= 2 * (n \div 2) + 1
      BY <2>1
    <2> QED BY <2>2
  <1>3. Half(ks) = m BY <1>1, <1>2 DEF Half
  <1>4. n = MaxLeaf + 1 BY <1>1
  <1>5. /\ \A i \in 1..n : l <= ks[i] /\ ks[i] < h /\ ks[i] \in Nat
        /\ \A i, j \in 1..n : i < j => ks[i] < ks[j]
    BY <1>1 DEF InRange, Ordered
  <1>6. PICK s \in Nat : s = ks[m + 1]
    <2>1. m + 1 \in 1..n BY <1>2
    <2> QED BY <2>1, <1>5
  <1>7. m + 1 \in 1..n /\ 1 \in 1..n /\ 1 < m + 1 BY <1>2
  <1>8. l < s /\ s < h
    <2>1. ks[1] < ks[m + 1] /\ l <= ks[1] /\ ks[1] \in Nat BY <1>5, <1>7
    <2>2. ks[m + 1] < h BY <1>5, <1>7
    <2> QED BY <2>1, <2>2, <1>6
  <1>9. InRange(SubSeq(ks, 1, m), l, s) /\ Len(SubSeq(ks, 1, m)) = m
    <2>1. \A i \in 1..m : i \in 1..n /\ i < m + 1 BY <1>2
    <2>2. \A i \in 1..m : l <= ks[i] /\ ks[i] < ks[m + 1] BY <2>1, <1>5, <1>7
    <2>3. \A i \in 1..m : l <= ks[i] /\ ks[i] < s BY <2>2, <1>6
    <2>4. 1 \in Nat /\ 1 <= m + 1 /\ 1 <= 1 /\ m <= Len(ks) BY <1>1, <1>2
    <2>5. InRange(SubSeq(ks, 1, m), l, s) /\ Len(SubSeq(ks, 1, m)) = m - 1 + 1
      BY <2>3, <2>4, PartInRange
    <2> QED BY <2>5
  <1>10. /\ InRange(SubSeq(ks, m + 1, n), s, h)
         /\ Len(SubSeq(ks, m + 1, n)) = n - m
    <2>1. PICK a \in Nat : a = m + 1 OBVIOUS
    <2>2. \A i \in a..n : i \in 1..n /\ (i = a \/ a < i) BY <2>1, <1>2
    <2>3. \A i \in a..n : s <= ks[i] /\ ks[i] < h
      <3> TAKE i \in a..n
      <3>1. i \in 1..n /\ a \in 1..n /\ (i = a \/ a < i) BY <2>1, <2>2, <1>7
      <3>2. i = a => ks[i] = s BY <2>1, <1>6
      <3>3. a < i => ks[a] < ks[i] BY <3>1, <1>5
      <3>4. ks[a] = s BY <2>1, <1>6
      <3>5. ks[i] < h /\ ks[i] \in Nat BY <3>1, <1>5
      <3> QED BY <3>1, <3>2, <3>3, <3>4, <3>5
    <2>4. 1 <= a /\ a <= n + 1 /\ n <= Len(ks) BY <2>1, <1>1, <1>2
    <2>5. InRange(SubSeq(ks, a, n), s, h) /\ Len(SubSeq(ks, a, n)) = n - a + 1
      BY <2>3, <2>4, PartInRange
    <2>6. n - a + 1 = n - m BY <2>1
    <2> QED BY <2>1, <2>5, <2>6
  <1>11. MinLeaf <= m /\ m <= MaxLeaf /\ MinLeaf <= n - m /\ n - m <= MaxLeaf
    BY <1>2, <1>4, Sizes
  <1> QED BY <1>1, <1>3, <1>6, <1>8, <1>9, <1>10, <1>11 DEF HalvedAt

HeadOf(N, q) ==
  IF q = 0 THEN NoHeader ELSE [page |-> q, count |-> N[q].count, next |-> N[q].next]

LEMMA HeadIs ==
  ASSUME NEW N, NEW r, NEW F, Nodes(N, r, F), NEW q \in PageNo
  PROVE  /\ HeadOf(N, q) \in [page : PageNo, count : Nat, next : PageNo]
         /\ Fresh(N, HeadOf(N, q)) /\ HeadOf(N, q).page = q
PROOF
  <1>1. CASE q = 0
    <2>1. HeadOf(N, q) = [page |-> 0, count |-> 0, next |-> 0]
      BY <1>1 DEF HeadOf, NoHeader
    <2> QED BY <2>1, <1>1 DEF Fresh
  <1>2. CASE q # 0
    <2>1. N[q] \in NodeType BY <1>2 DEF Nodes
    <2>2. N[q].count \in Nat /\ N[q].next \in PageNo BY <2>1 DEF NodeType
    <2>3. HeadOf(N, q) = [page |-> q, count |-> N[q].count, next |-> N[q].next]
      BY <1>2 DEF HeadOf
    <2> QED BY <2>2, <2>3 DEF Fresh
  <1> QED BY <1>1, <1>2

\* The first part of a split: the right half of the leaf p is in the page new,
\* which is not linked yet.
Detaches(N, F, l, p, ks, new, N2, F2, l2) ==
  /\ new \in F /\ F2 = F \ {new}
  /\ N2 = [N EXCEPT ![new] = Leaf(SubSeq(ks, Half(ks) + 1, Len(ks)), N[p].next)]
  /\ l2 = [l EXCEPT !.pc = "split", !.sep = ks[Half(ks) + 1], !.right = new,
                    !.left = SubSeq(ks, 1, Half(ks)), !.header = HeadOf(N, N[p].next)]

LEMMA DetachIs ==
  ASSUME NEW N, NEW r, NEW F, NEW l \in Locals, NEW p, NEW ks, NEW new, NEW N2, NEW F2,
         NEW l2, Nodes(N, r, F), Detaches(N, F, l, p, ks, new, N2, F2, l2),
         NEW a \in Nat, NEW b \in Nat, HalvedAt(ks, a, ks[Half(ks) + 1], b),
         N[p].next \in PageNo
  PROVE  /\ l2 \in Locals /\ l2.pc = "split" /\ l2.request = l.request /\ l2.held = l.held
         /\ l2.right = new /\ HalvedAt(ks, a, l2.sep, b)
         /\ l2.left = SubSeq(ks, 1, Half(ks))
         /\ Fresh(N, l2.header) /\ l2.header.page = N[p].next
         /\ new \in Pages /\ new \in F /\ F2 = F \ {new}
         /\ Nodes(N2, r, F2) /\ \A q \in Pages : q # new => N2[q] = N[q]
         /\ IsLeaf(N2[new], SubSeq(ks, Half(ks) + 1, Len(ks)), N[p].next)
PROOF
  <1>1. PICK s \in Nat : s = ks[Half(ks) + 1] BY DEF HalvedAt
  <1>2. PICK k1 \in Seq(Nat), k2 \in Seq(Nat) :
          /\ k1 = SubSeq(ks, 1, Half(ks)) /\ k2 = SubSeq(ks, Half(ks) + 1, Len(ks))
          /\ Len(k2) <= MaxLeaf
    BY DEF HalvedAt, InRange
  <1>3. PICK h : h = HeadOf(N, N[p].next) OBVIOUS
  <1>4. h \in [page : PageNo, count : Nat, next : PageNo] /\ Fresh(N, h) /\ h.page = N[p].next
    BY <1>3, HeadIs
  <1>5. new \in F /\ F2 = F \ {new} BY DEF Detaches
  <1>6. new \in Pages BY <1>5 DEF Nodes
  <1>7. l2 = [l EXCEPT !.pc = "split", !.sep = s, !.right = new, !.left = k1, !.header = h]
    BY <1>1, <1>2, <1>3 DEF Detaches
  <1>8. "split" \in Pcs BY DEF Pcs
  <1>9. /\ l2 \in Locals /\ l2.pc = "split" /\ l2.request = l.request /\ l2.held = l.held
        /\ l2.right = new /\ l2.sep = s /\ l2.left = k1 /\ l2.header = h
    BY <1>4, <1>6, <1>7, <1>8 DEF Locals
  <1>10. PICK x : x = Leaf(k2, N[p].next) OBVIOUS
  <1>11. IsLeaf(x, k2, N[p].next) BY <1>2, <1>10, LeafIs
  <1>12. x \in NodeType /\ IsNode(x) /\ x.type # "free" BY <1>2, <1>11, LeafPlain
  <1>13. N2 = [N EXCEPT ![new] = x] BY <1>2, <1>10 DEF Detaches
  <1>14. Only(N, N2, new, x) /\ Nodes(N2, r, F \ {new}) BY <1>6, <1>12, <1>13, OnlyIs
  <1> QED BY <1>1, <1>2, <1>4, <1>5, <1>6, <1>9, <1>11, <1>14 DEF Only

LEMMA InsertLeafSplit ==
  ASSUME NEW wr \in Threads, NEW N, NEW r, NEW F, NEW H, NEW T, NEW v, NEW lo, NEW hi, NEW lev,
         NEW top, Whole(wr, N, r, F, H, T, v, lo, hi, lev, top), NEW l, l = H[wr],
         l.pc = "leaf", l.request.op = "insert", NEW p, p = Here(l),
         ~Has(N[p], l.request.low), ~(N[p].count < Most(N[p])), NEW ks,
         ks = Put(N[p], l.request.low), NEW new, NEW N2, NEW F2, NEW l2,
         Detaches(N, F, l, p, ks, new, N2, F2, l2), NEW H2, Moves(H, wr, l2, H2)
  PROVE  Whole(wr, N2, r, F2, H2, T, v, lo, hi, lev, top)
PROOF
  <1>1. Writes(l) BY DEF Writes
  <1>2. Reach(wr, N, r, F, H, l, p, T, v, lo, hi, lev, top) BY <1>1, ReachIs
  <1>3. /\ l \in Locals /\ Nodes(N, r, F) /\ Shaped(N, r, F, l, T, v, lo, hi, lev, top)
        /\ Filled(N, r, l, T) /\ l.request.low \in Nat
    BY WriterKnows
  <1>4. /\ Calm(N, r, F, T, v, lo, hi, lev, top)
        /\ \A q \in T : View(N, l, q) = Plain(N[q])
    <2>1. l.pc \notin Midway BY Zenon DEF Midway
    <2> QED BY <2>1, <1>3, CalmIs
  <1>5. PICK a \in Nat, b \in Nat : a = lo[p] /\ b = hi[p] BY <1>2, Zenon DEF Reach, Page
  <1>6. /\ N[p] \in NodeType /\ IsNode(N[p]) /\ N[p].count \in Nat /\ N[p].type = "leaf"
        /\ p \in T /\ p \in Pages /\ Within(N[p], a, b) /\ lev[p] = 0
        /\ a <= l.request.low /\ l.request.low < b /\ N[p].count <= MaxLeaf
    BY <1>2, <1>5, Zenon DEF Reach, Page, Within
  <1>7. N[p].count = MaxLeaf BY <1>6, Sizes DEF Most
  <1>8. InRange(ks, a, b) /\ Len(ks) = MaxLeaf + 1 BY <1>3, <1>6, <1>7, PutIs
  <1>9. HalvedAt(ks, a, ks[Half(ks) + 1], b) BY <1>8, HalvedIs
  <1>10. PICK nx \in PageNo : nx = N[p].next BY <1>6, KeysAre
  <1>11. /\ l2 \in Locals /\ l2.pc = "split" /\ l2.request = l.request /\ l2.held = l.held
         /\ l2.right = new /\ HalvedAt(ks, a, l2.sep, b)
         /\ l2.left = SubSeq(ks, 1, Half(ks))
         /\ Fresh(N, l2.header) /\ l2.header.page = nx
         /\ new \in Pages /\ new \in F /\ F2 = F \ {new}
         /\ Nodes(N2, r, F2) /\ \A q \in Pages : q # new => N2[q] = N[q]
         /\ IsLeaf(N2[new], SubSeq(ks, Half(ks) + 1, Len(ks)), nx)
    BY <1>3, <1>9, <1>10, DetachIs
  <1>12. new \notin T /\ T \subseteq Pages /\ \A q \in T : N2[q] = N[q]
    <2>1. T = Pages \ F BY <1>4 DEF Calm
    <2> QED BY <2>1, <1>11
  <1>13. Shaped(N2, r, F2, l2, T, v, lo, hi, lev, top)
    <2>1. T = (Pages \ F2) \ Loose(l2)
      <3>1. Loose(l2) = {new} BY <1>11 DEF Loose
      <3>2. T = Pages \ F BY <1>4 DEF Calm
      <3> QED BY <3>1, <3>2, <1>11
    <2>2. \A q \in T : View(N2, l2, q) = Plain(N2[q])
      <3>1. ~Growing(l2) BY <1>11 DEF Growing
      <3> QED BY <3>1, <1>11, PlainView
    <2>3. \A q \in T : /\ v[q] = View(N2, l2, q)
                       /\ N2[q].type = IF lev[q] = 0 THEN "leaf" ELSE "internal"
      BY <2>2, <1>4, <1>12 DEF Calm
    <2>4. ~Orphan(l2) BY <1>11 DEF Orphan
    <2> QED BY <2>1, <2>3, <2>4, <1>4 DEF Shaped, Calm
  <1>14. Filled(N2, r, l2, T)
    <2>1. Filled(N, r, l2, T)
      <3>1. /\ l.pc \notin Repairing \cup {"parent"}
            /\ l2.pc \notin Repairing \cup {"parent"}
        BY <1>11 DEF Repairing
      <3> QED BY <3>1, <1>3, FilledStill
    <2> QED BY <2>1, <1>12 DEF Filled
  <1>15. Undisturbed(wr, N, H, T, lo, hi, N2, T, lo, hi) BY <1>12, Zenon DEF Undisturbed
  <1>16. PICK n \in Nat : n = Len(l.held) /\ n >= 1 /\ p = l.held[n] BY <1>2 DEF Reach
  <1>17. /\ Stacked(N, l, n, T, lev) /\ Path(l, n, T, lev) /\ Ready(N, r, l)
         /\ \A i \in 1..n : l.held[i] \in T
    <2>1. Stacked(N, l, n, T, lev) /\ Path(l, n, T, lev) /\ Ready(N, r, l)
      BY <1>2, <1>16 DEF Reach
    <2> QED BY <2>1, Zenon DEF Path
  <1>18. Stacked(N2, l2, n, T, lev)
    <2>1. n \in 1..n BY <1>16
    <2>2. Untouched(N, l, n, N2, T, lev, lev) BY <1>12, <1>17 DEF Untouched
    <2> QED BY <2>1, <2>2, <1>11, <1>17, StackedStill
  <1>19. Ready(N2, r, l2)
    <2>1. l.held[1] \in T
      <3>1. 1 \in 1..n BY <1>16
      <3> QED BY <3>1, <1>17
    <2> QED BY <2>1, <1>11, <1>12, <1>17 DEF Ready
  <1>20. n = 1 => p = r
    <2>1. SUFFICES ASSUME n = 1 PROVE p = r OBVIOUS
    <2>2. l.held[1] = p BY <2>1, <1>16
    <2> QED BY <2>2, <1>17 DEF Ready, SafeFor
  <1>21. Splitting(N2, r, l2, T, lo, hi, lev)
    <2>1. Here(l2) = p /\ Len(l2.held) = n BY <1>11, <1>16 DEF Here
    <2>2. PICK x : x = N2[new] BY Zenon
    <2>3. PICK k2 \in Seq(Nat) : k2 = SubSeq(ks, Half(ks) + 1, Len(ks)) BY <1>11 DEF HalvedAt, InRange
    <2>4. /\ IsLeaf(x, k2, nx) /\ InRange(k2, l2.sep, b) /\ MinLeaf <= Len(k2)
      BY <2>2, <2>3, <1>11 DEF HalvedAt
    <2>5. x.type = "leaf" /\ x.next = nx /\ x.count = Len(k2) /\ SubSeq(x.ent, 1, x.count) = k2
      BY <2>4 DEF IsLeaf
    <2>6. x.next = N2[p].next BY <2>5, <1>6, <1>10, <1>12
    <2>7. InRange(SubSeq(x.ent, 1, x.count), l2.sep, b) BY <2>4, <2>5
    <2>8. x.count >= MinLeaf BY <2>4, <2>5, Sizes
    <2>9. Fresh(N2, l2.header)
      <3>1. nx # 0 => nx \in T
        <4>1. /\ hi[p] = top => N[p].next = 0
              /\ hi[p] # top => N[p].next \in T
          BY <1>3, <1>4, <1>6, LeafPage
        <4> QED BY <4>1, <1>10
      <3> QED BY <3>1, <1>11, <1>12 DEF Fresh
    <2>10. /\ lo[p] < l2.sep /\ l2.sep < hi[p] /\ InRange(l2.left, lo[p], l2.sep)
           /\ MinLeaf <= Len(l2.left) /\ Len(l2.left) <= MaxLeaf
      BY <1>5, <1>11 DEF HalvedAt
    <2>11. /\ l2.request.op = "insert" /\ l2.right \in Pages /\ N2[l2.right] = x
           /\ Stacked(N2, l2, Len(l2.held), T, lev) /\ (Len(l2.held) = 1 => p = r)
      BY <2>1, <2>2, <1>11, <1>18, <1>20
    <2> QED BY <2>1, <2>5, <2>6, <2>7, <2>8, <2>9, <2>10, <2>11, <1>5, <1>6, <1>19
        DEF Splitting
  <1>22. Writing(N2, r, l2, T, lo, hi, lev, top)
    <2>1. /\ Descending(N2, r, l2, T, lev) /\ Rising(N2, r, l2, T, lo, hi, lev, top)
          /\ Mending(N2, r, l2, T, lev) /\ Unlinking(N2, r, l2, T, lev)
          /\ Settling(N2, r, l2, T, lev)
      BY <1>11 DEF Descending, Rising, Mending, Unlinking, Settling, Repairing
    <2> QED BY <2>1, <1>21, Zenon DEF Writing
  <1>23. l2.pc \notin ReaderPcs /\ H[wr].pc # "idle" BY <1>11 DEF ReaderPcs
  <1> QED BY <1>1, <1>11, <1>13, <1>14, <1>15, <1>22, <1>23, BusyStep

\* What InsertLeaf does at the leaf p.
InsertsAt(t, l, p) ==
  /\ l.pc = "leaf" /\ l.request.op = "insert" /\ UNCHANGED root
  /\ \/ /\ Has(node[p], l.request.low)
        /\ Moves(th, t, Done(t, "found"), th') /\ UNCHANGED <<node, free>>
     \/ /\ ~Has(node[p], l.request.low) /\ node[p].count < Most(node[p])
        /\ Rewrites(node, p, Put(node[p], l.request.low), node')
        /\ Moves(th, t, Done(t, "missing"), th') /\ UNCHANGED free
     \/ /\ ~Has(node[p], l.request.low) /\ ~(node[p].count < Most(node[p]))
        /\ \E new, l2 :
             /\ Detaches(node, free, l, p, Put(node[p], l.request.low), new, node', free', l2)
             /\ Moves(th, t, l2, th')

LEMMA InsertLeafIs ==
  ASSUME NEW t, InsertLeaf(t), NEW l, l = th[t], NEW p, p = Here(l)
  PROVE  InsertsAt(t, l, p)
PROOF
  <1>1. p = LeafOf(t) /\ Key(t) = l.request.low BY NamesAre DEF Key
  <1>2. PICK ks : ks = Put(node[p], l.request.low) OBVIOUS
  <1>3. ks = InsertAt(Keys(p), leaf_find(p, Key(t)), Key(t)) BY <1>1, <1>2, NamesAre DEF Put
  <1>4. At(t, "insert") <=> l.pc = "leaf" /\ l.request.op = "insert" BY DEF At
  <1>5. /\ Presence(t) = "found" <=> Has(node[p], l.request.low)
        /\ Presence(t) = "missing" <=> ~Has(node[p], l.request.low)
    <2>1. HasKey(p, Key(t)) <=> Has(node[p], l.request.low) BY <1>1, NamesAre DEF HasKey, Has
    <2> QED BY <2>1, <1>1 DEF Presence
  <1>6. PICK half : half = Len(ks) \div 2 OBVIOUS
  <1>7. half = Half(ks) BY <1>6 DEF Half
  <1>8. HeaderOf(node[p].next) = HeadOf(node, node[p].next) BY DEF HeaderOf, HeadOf
  <1>9. /\ At(t, "insert")
        /\ \/ /\ Presence(t) = "found"
              /\ th' = [th EXCEPT ![t] = Done(t, "found")]
              /\ UNCHANGED <<node, free>>
           \/ /\ Presence(t) = "missing" /\ HasRoom(p)
              /\ node' = [node EXCEPT ![p] = WithKeys(@, ks)]
              /\ th' = [th EXCEPT ![t] = Done(t, "missing")]
              /\ UNCHANGED free
           \/ /\ Presence(t) = "missing" /\ ~HasRoom(p)
              /\ \E new \in Allocatable :
                   /\ node' = [node EXCEPT ![new] =
                                 Leaf(SubSeq(ks, half + 1, Len(ks)), node[p].next)]
                   /\ free' = free \ {new}
                   /\ th' = [th EXCEPT ![t] =
                        [th[t] EXCEPT !.pc = "split", !.sep = ks[half + 1], !.right = new,
                                      !.left = SubSeq(ks, 1, half),
                                      !.header = HeaderOf(node[p].next)]]
        /\ UNCHANGED root
    BY <1>1, <1>3, <1>6, ZenonT(40) DEF InsertLeaf
  <1>10. HasRoom(p) <=> node[p].count < Most(node[p]) BY NamesAre
  <1>11. CASE Presence(t) = "found"
    BY <1>4, <1>5, <1>9, <1>11 DEF InsertsAt, Moves
  <1>12. CASE Presence(t) = "missing" /\ HasRoom(p)
    BY <1>2, <1>4, <1>5, <1>9, <1>10, <1>12 DEF InsertsAt, Moves, Rewrites
  <1>13. CASE Presence(t) = "missing" /\ ~HasRoom(p)
    <2>1. PICK new \in Allocatable :
            /\ node' = [node EXCEPT ![new] =
                          Leaf(SubSeq(ks, half + 1, Len(ks)), node[p].next)]
            /\ free' = free \ {new}
            /\ th' = [th EXCEPT ![t] =
                 [th[t] EXCEPT !.pc = "split", !.sep = ks[half + 1], !.right = new,
                               !.left = SubSeq(ks, 1, half),
                               !.header = HeaderOf(node[p].next)]]
      BY <1>9, <1>13
    <2>2. new \in free BY NamesAre
    <2>3. PICK l2 : l2 = [l EXCEPT !.pc = "split", !.sep = ks[half + 1], !.right = new,
                                   !.left = SubSeq(ks, 1, half),
                                   !.header = HeaderOf(node[p].next)]
      OBVIOUS
    <2>4. Detaches(node, free, l, p, ks, new, node', free', l2)
      BY <2>1, <2>2, <2>3, <1>7, <1>8 DEF Detaches
    <2>5. Moves(th, t, l2, th') BY <2>1, <2>3 DEF Moves
    <2> QED BY <2>4, <2>5, <1>2, <1>4, <1>5, <1>9, <1>10, <1>13 DEF InsertsAt
  <1> QED BY <1>9, <1>11, <1>12, <1>13

LEMMA InsertLeafStep ==
  ASSUME NEW wr \in Threads, InvOf(wr), InsertLeaf(wr)
  PROVE  InvOf(wr)'
PROOF
  <1>1. PICK T, v, lo, hi, lev, top : Whole(wr, node, root, free, th, T, v, lo, hi, lev, top)
    BY DEF InvOf
  <1>2. PICK l : l = th[wr] OBVIOUS
  <1>3. PICK p : p = Here(l) OBVIOUS
  <1>4. InsertsAt(wr, l, p) BY <1>2, <1>3, InsertLeafIs
  <1>5. l.pc = "leaf" /\ l.request.op = "insert" /\ root' = root BY <1>4 DEF InsertsAt
  <1>6. Filled(node, root, th[wr], T) /\ l \in Locals BY <1>1, <1>2, WholeIs
  <1>7. CASE Moves(th, wr, Done(wr, "found"), th') /\ UNCHANGED <<node, free>>
    <2>1. PICK d : d = Done(wr, "found") OBVIOUS
    <2>2. Ended(d, th[wr], th[wr].got, "found") BY <2>1, WriterDone
    <2>3. Filled(node, root, d, T)
      <3>1. d.pc \in ReaderPcs /\ th[wr].pc \in ReaderPcs
        BY <2>2, <1>2, <1>5 DEF ReaderPcs, Ended
      <3> QED BY <3>1, <1>6, FilledSame
    <2>4. th[wr].pc \notin Midway \cup {"idle"} BY <1>2, <1>5 DEF Midway
    <2>5. th[wr].got \in Seq(Nat) /\ Moves(th, wr, d, th') /\ wr \in Threads
      BY <2>1, <1>2, <1>6, <1>7 DEF Locals
    <2>6. Whole(wr, node, root, free, th', T, v, lo, hi, lev, top)
      BY <1>1, <2>2, <2>3, <2>4, <2>5, EndCalm
    <2> QED BY <2>6, <1>5, <1>7, Unmoved
  <1>8. CASE /\ ~Has(node[p], l.request.low) /\ node[p].count < Most(node[p])
             /\ Rewrites(node, p, Put(node[p], l.request.low), node')
             /\ Moves(th, wr, Done(wr, "missing"), th') /\ UNCHANGED free
    <2>1. PICK d : d = Done(wr, "missing") OBVIOUS
    <2>2. Ended(d, l, l.got, "missing") BY <2>1, <1>2, WriterDone
    <2>3. Moves(th, wr, d, th') BY <2>1, <1>8
    <2>4. PICK v2 : Whole(wr, node', root, free, th', T, v2, lo, hi, lev, top)
      BY <1>1, <1>2, <1>3, <1>5, <1>8, <2>2, <2>3, InsertLeafRoom
    <2> QED BY <2>4, <1>5, <1>8, Landed
  <1>9. CASE /\ ~Has(node[p], l.request.low) /\ ~(node[p].count < Most(node[p]))
             /\ \E new, l2 :
                  /\ Detaches(node, free, l, p, Put(node[p], l.request.low), new, node',
                              free', l2)
                  /\ Moves(th, wr, l2, th')
    <2>1. PICK new, l2 :
            /\ Detaches(node, free, l, p, Put(node[p], l.request.low), new, node', free', l2)
            /\ Moves(th, wr, l2, th')
      BY <1>9
    <2>2. Whole(wr, node', root, free', th', T, v, lo, hi, lev, top)
      BY <1>1, <1>2, <1>3, <1>5, <1>9, <2>1, InsertLeafSplit
    <2> QED BY <2>2, <1>5, Landed
  <1> QED BY <1>4, <1>7, <1>8, <1>9 DEF InsertsAt

\* The second part of a split: the left half stays in the leaf p, the
\* separator and the page of the right half go up.
Attaches(N, l, p, N2, l2) ==
  /\ N2 = [N EXCEPT ![p] = Leaf(l.left, l.right)]
  /\ l2 = [l EXCEPT !.pc = "up", !.level = Len(l.held) - 1, !.left = << >>,
                    !.header = NoHeader, !.result = "missing"]

LEMMA AttachIs ==
  ASSUME NEW N, NEW r, NEW F, NEW l \in Locals, NEW p \in Pages, NEW N2, NEW l2,
         Nodes(N, r, F), Attaches(N, l, p, N2, l2), p \notin F,
         Len(l.held) \in Nat, Len(l.held) >= 1, Len(l.left) <= MaxLeaf
  PROVE  /\ l2 \in Locals /\ l2.pc = "up" /\ l2.level = Len(l.held) - 1
         /\ l2.level \in Nat /\ l2.level + 1 = Len(l.held)
         /\ l2.request = l.request /\ l2.held = l.held /\ l2.right = l.right /\ l2.sep = l.sep
         /\ Nodes(N2, r, F) /\ \A q \in Pages : q # p => N2[q] = N[q]
         /\ IsLeaf(N2[p], l.left, l.right) /\ l.left \in Seq(Nat)
PROOF
  <1>1. PICK m \in Nat : m = Len(l.held) - 1 /\ m + 1 = Len(l.held)
    <2>1. PICK n \in Nat : n = Len(l.held) OBVIOUS
    <2>2. n - 1 \in Nat /\ n - 1 + 1 = n BY <2>1
    <2> QED BY <2>1, <2>2
  <1>2. l.left \in Seq(Nat) /\ l.right \in PageNo BY DEF Locals
  <1>3. NoHeader \in [page : PageNo, count : Nat, next : PageNo] BY DEF NoHeader
  <1>4. /\ l2 \in Locals /\ l2.pc = "up" /\ l2.level = m
        /\ l2.request = l.request /\ l2.held = l.held /\ l2.right = l.right /\ l2.sep = l.sep
    <2>1. l2 = [l EXCEPT !.pc = "up", !.level = m, !.left = << >>,
                         !.header = NoHeader, !.result = "missing"]
      BY <1>1 DEF Attaches
    <2>2. "up" \in Pcs /\ << >> \in Seq(Nat) BY DEF Pcs
    <2> QED BY <2>1, <2>2, <1>3 DEF Locals
  <1>5. PICK x : x = Leaf(l.left, l.right) OBVIOUS
  <1>6. IsLeaf(x, l.left, l.right) BY <1>2, <1>5, LeafIs
  <1>7. x \in NodeType /\ IsNode(x) /\ x.type # "free" BY <1>2, <1>6, LeafPlain
  <1>8. N2 = [N EXCEPT ![p] = x] BY <1>5 DEF Attaches
  <1>9. Only(N, N2, p, x) /\ Nodes(N2, r, F \ {p}) BY <1>7, <1>8, OnlyIs
  <1>10. F \ {p} = F OBVIOUS
  <1> QED BY <1>1, <1>2, <1>4, <1>6, <1>9, <1>10 DEF Only

LEMMA SplitLeafSplits ==
  ASSUME NEW wr \in Threads, NEW N, NEW r, NEW F, NEW H, NEW T, NEW v, NEW lo, NEW hi, NEW lev,
         NEW top, Whole(wr, N, r, F, H, T, v, lo, hi, lev, top), NEW l, l = H[wr],
         l.pc = "split", NEW p, p = Here(l), NEW N2, NEW l2, Attaches(N, l, p, N2, l2),
         NEW H2, Moves(H, wr, l2, H2)
  PROVE  \E T2, v2, lo2, hi2, lev2 : Whole(wr, N2, r, F, H2, T2, v2, lo2, hi2, lev2, top)
PROOF
  <1>1. /\ l \in Locals /\ Nodes(N, r, F) /\ Shaped(N, r, F, l, T, v, lo, hi, lev, top)
        /\ Splitting(N, r, l, T, lo, hi, lev) /\ l.held \in Seq(Pages) /\ l.sep \in Nat
    BY WriterKnows
  <1>2. PICK n \in Nat : n = Len(l.held) BY <1>1
  <1>3. PICK new \in Pages : new = l.right BY <1>1 DEF Splitting
  <1>4. PICK y : y = N[new] OBVIOUS
  <1>5. /\ l.request.op = "insert" /\ Stacked(N, l, n, T, lev) /\ Ready(N, r, l)
        /\ lev[p] = 0 /\ (n = 1 => p = r)
        /\ y.type = "leaf" /\ y.next = N[p].next /\ lo[p] < l.sep /\ l.sep < hi[p]
        /\ InRange(l.left, lo[p], l.sep) /\ InRange(SubSeq(y.ent, 1, y.count), l.sep, hi[p])
        /\ MinLeaf <= Len(l.left) /\ Len(l.left) <= MaxLeaf /\ y.count >= MinLeaf
    BY <1>1, <1>2, <1>3, <1>4 DEF Splitting
  <1>6. n \in 1..n /\ Path(l, n, T, lev) /\ p = l.held[n]
    <2>1. Path(l, n, T, lev) BY <1>1, <1>5, LeveledIs, StackedIs
    <2> QED BY <2>1, <1>2 DEF Path, Here
  <1>7. p \in T BY <1>6 DEF Path
  <1>8. T = (Pages \ F) \ {new} /\ p \in Pages /\ p \notin F /\ new \notin F /\ new # p
    <2>1. T = (Pages \ F) \ {new} BY <1>1, <1>3 DEF Shaped, Loose
    <2>2. new \notin F BY <1>1, <1>4, <1>5 DEF Nodes
    <2> QED BY <2>1, <2>2, <1>7
  <1>9. /\ l2 \in Locals /\ l2.pc = "up" /\ l2.level \in Nat /\ l2.level + 1 = n
        /\ l2.request = l.request /\ l2.held = l.held /\ l2.right = new /\ l2.sep = l.sep
        /\ Nodes(N2, r, F) /\ \A q \in Pages : q # p => N2[q] = N[q]
        /\ IsLeaf(N2[p], l.left, new) /\ l.left \in Seq(Nat)
    <2>1. Len(l.held) \in Nat /\ Len(l.held) >= 1 BY <1>2, <1>6
    <2> QED BY <2>1, <1>1, <1>2, <1>3, <1>5, <1>8, AttachIs
  <1>10. \A q \in T : View(N, l, q) = Plain(N[q]) BY PlainView DEF Growing
  <1>11. Dividing(N, r, l, T, v, lo, hi, lev, l2, p, N2)
    <2>1. Stacked(N, l2, n, T, lev)
      <3>1. Untouched(N, l, n, N, T, lev, lev) BY <1>6 DEF Untouched, Path
      <3> QED BY <3>1, <1>5, <1>6, <1>9, StackedStill
    <2>2. l2.level = 0 => p = r BY <1>5, <1>9
    <2>3. \A q \in T : q # p => View(N, l, q) = Plain(N[q]) /\ N2[q] = N[q]
      BY <1>8, <1>9, <1>10
    <2> QED BY <2>1, <2>2, <2>3, <1>1, <1>5, <1>6, <1>8, <1>9 DEF Dividing
  <1>12. Halves(T, v, lo, hi, lev, l2, p, N2, F)
    <2>1. PICK x : x = N2[p] OBVIOUS
    <2>2. /\ x.type = "leaf" /\ x.count = Len(l.left) /\ x.next = new
          /\ Plain(x).keys = l.left /\ Plain(x).kids = << >>
      <3>1. PICK ks \in Seq(Nat) : ks = l.left BY <1>9
      <3>2. IsLeaf(x, ks, new) /\ Len(ks) <= MaxLeaf BY <2>1, <3>1, <1>5, <1>9
      <3>3. /\ x.type = "leaf" /\ x.count = Len(ks) /\ x.next = new
            /\ Plain(x).keys = ks /\ Plain(x).kids = << >>
        BY <3>2, LeafPlain
      <3> QED BY <3>1, <3>3
    <2>3. N2[new] = y BY <1>4, <1>8, <1>9
    <2>4. y \in NodeType /\ IsNode(y) BY <1>1, <1>4 DEF Nodes
    <2>5. Plain(y).keys = SubSeq(y.ent, 1, y.count) /\ Plain(y).kids = y.child
      BY <2>4, KeysAre
    <2>6. y.child = << >> BY <2>4, <1>5 DEF IsNode
    <2>7. LeafPair(Plain(x), Plain(y), lo[p], l2.sep, hi[p])
      BY <2>2, <2>5, <2>6, <1>5, <1>9 DEF LeafPair
    <2>8. v[p].next = N[p].next
      <3>1. v[p] = Plain(N[p]) BY <1>1, <1>7, <1>10 DEF Shaped
      <3> QED BY <3>1 DEF Plain
    <2>9. T \cup {new} = Pages \ F BY <1>8
    <2>10. x.count >= Fewest(x) /\ y.count >= Fewest(y)
      <3>1. Fewest(x) = MinLeaf /\ Fewest(y) = MinLeaf BY <2>2, <1>5 DEF Fewest
      <3>2. x.count \in Nat BY <2>2, <1>9
      <3> QED BY <3>1, <3>2, <2>2, <1>5, Sizes
    <2> QED BY <2>1, <2>2, <2>3, <2>7, <2>8, <2>9, <2>10, <1>5, <1>9 DEF Halves
  <1>13. l2.level > 0 => Ready(N, r, l2) BY <1>5, <1>9 DEF Ready
  <1>14. l.pc \in {"split", "up"} /\ ~Orphan(l) BY DEF Orphan
  <1> QED BY <1>5, <1>9, <1>11, <1>12, <1>13, <1>14, SplitStep

LEMMA SplitLeafStep ==
  ASSUME NEW wr \in Threads, InvOf(wr), SplitLeaf(wr)
  PROVE  InvOf(wr)'
PROOF
  <1>1. PICK T, v, lo, hi, lev, top : Whole(wr, node, root, free, th, T, v, lo, hi, lev, top)
    BY DEF InvOf
  <1>2. PICK l : l = th[wr] OBVIOUS
  <1>3. PICK p : p = Here(l) /\ p = LeafOf(wr) BY <1>2, NamesAre
  <1>4. /\ l.pc = "split" /\ UNCHANGED <<root, free>>
        /\ node' = [HeaderWritten(node, l.header) EXCEPT ![p] = Leaf(l.left, l.right)]
        /\ th' = [th EXCEPT ![wr] = [l EXCEPT !.pc = "up", !.level = Len(l.held) - 1,
                                              !.left = << >>, !.header = NoHeader,
                                              !.result = "missing"]]
    BY <1>2, <1>3 DEF SplitLeaf
  <1>5. /\ l \in Locals /\ Nodes(node, root, free)
        /\ Splitting(node, root, l, T, lo, hi, lev)
    BY <1>1, <1>2, WriterKnows
  <1>6. HeaderWritten(node, l.header) = node
    <2>1. Fresh(node, l.header) BY <1>4, <1>5 DEF Splitting
    <2> QED BY <2>1, <1>5, HeaderBack
  <1>7. PICK l2 : l2 = [l EXCEPT !.pc = "up", !.level = Len(l.held) - 1, !.left = << >>,
                                 !.header = NoHeader, !.result = "missing"]
    OBVIOUS
  <1>8. Attaches(node, l, p, node', l2) BY <1>4, <1>6, <1>7 DEF Attaches
  <1>9. Moves(th, wr, l2, th') BY <1>4, <1>7 DEF Moves
  <1>10. PICK T2, v2, lo2, hi2, lev2 :
           Whole(wr, node', root, free, th', T2, v2, lo2, hi2, lev2, top)
    BY <1>1, <1>2, <1>3, <1>4, <1>8, <1>9, SplitLeafSplits
  <1> QED BY <1>4, <1>10, Landed

LEMMA UptoIn ==
  ASSUME NEW n \in NodeType, IsNode(n), NEW k
  PROVE  Upto(n, k) \in 1..(n.count + 1)
PROOF
  <1>1. PICK c \in Nat : c = n.count BY KeysAre
  <1>2. PICK S : S = {i \in 1..n.count : n.ent[i] <= k} OBVIOUS
  <1>3. S \subseteq 1..c BY <1>1, <1>2
  <1>4. IsFiniteSet(1..c) /\ Cardinality(1..c) = c BY FS_Interval
  <1>5. Cardinality(S) \in Nat /\ Cardinality(S) <= c
    BY <1>3, <1>4, FS_Subset, FS_CardinalityType, Zenon
  <1>6. Upto(n, k) = Cardinality(S) + 1 BY <1>2, Zenon DEF Upto
  <1> QED BY <1>1, <1>5, <1>6

\* The separators and kids of the page p that takes in one more of each.
KeysIn(n, l) == InsertAt(n.ent, Upto(n, l.sep), l.sep)
KidsIn(n, l) == InsertAt(n.child, Upto(n, l.sep) + 1, l.right)

\* What the writer knows of the page that its separator goes up to.
Above(wr, N, r, F, H, l, p, T, v, lo, hi, lev, top) ==
  /\ p \in T /\ p \in Pages /\ p \notin F /\ N[p] \in NodeType /\ IsNode(N[p])
  /\ N[p].count \in Nat /\ N[p].type = "internal" /\ N[p].count <= MaxInternal
  /\ lev[p] # 0 /\ v[p].keys = KeysIn(N[p], l) /\ v[p].kids = KidsIn(N[p], l)
  /\ Len(KeysIn(N[p], l)) = N[p].count + 1 /\ KeysIn(N[p], l) \in Seq(Nat)
  /\ KidsIn(N[p], l) \in Seq(Pages)
  /\ InnerFits(KeysIn(N[p], l), KidsIn(N[p], l), lo[p], hi[p], lev[p], T, lo, hi, lev)
  /\ l.level \in Nat /\ l.level \in 1..l.level /\ Stacked(N, l, l.level, T, lev)
  /\ Path(l, l.level, T, lev) /\ Ready(N, r, l) /\ Elsewhere(wr, H, p)
  /\ T = Pages \ F /\ \A q \in T : q # p => View(N, l, q) = Plain(N[q])

LEMMA AboveIs ==
  ASSUME NEW wr \in Threads, NEW N, NEW r, NEW F, NEW H, NEW T, NEW v, NEW lo, NEW hi, NEW lev,
         NEW top, Whole(wr, N, r, F, H, T, v, lo, hi, lev, top), NEW l, l = H[wr],
         Growing(l), NEW p, p = l.held[l.level]
  PROVE  Above(wr, N, r, F, H, l, p, T, v, lo, hi, lev, top)
PROOF
  <1>1. /\ l \in Locals /\ Nodes(N, r, F) /\ Shaped(N, r, F, l, T, v, lo, hi, lev, top)
        /\ Rising(N, r, l, T, lo, hi, lev, top) /\ l.held \in Seq(Pages)
        /\ l.level \in Nat /\ l.sep \in Nat
    BY WriterKnows
  <1>2. PICK m \in Nat : m = l.level /\ m > 0 BY <1>1 DEF Growing
  <1>3. PICK n \in Nat : n = m + 1 /\ m \in 1..n /\ m \in 1..m /\ m < n /\ n \in 1..n /\ n - 1 = m
    BY <1>2
  <1>4. l.pc = "up" BY DEF Growing
  <1>5. /\ l.request.op = "insert" /\ Stacked(N, l, n, T, lev) /\ Ready(N, r, l)
        /\ l.right \in T
    BY <1>1, <1>2, <1>3, <1>4 DEF Rising
  <1>6. Path(l, n, T, lev) /\ Leveled(T, lev) BY <1>1, <1>5, LeveledIs, StackedIs
  <1>7. p \in T /\ p \in ToSet(l.held) BY <1>2, <1>3, <1>6 DEF Path
  <1>8. T = Pages \ F BY <1>1, <1>4 DEF Shaped, Loose
  <1>9. l.right \in Pages /\ p \in Pages /\ p \notin F BY <1>5, <1>7, <1>8
  <1>10. lev[p] # 0
    <2>1. PICK q : q = l.held[n] OBVIOUS
    <2>2. q \in T /\ lev[p] = lev[q] + 1
      <3>1. m \in 1..(n - 1) BY <1>3
      <3>2. lev[l.held[m]] = lev[l.held[m + 1]] + 1 /\ l.held[n] \in T
        BY <3>1, <1>3, <1>6 DEF Path
      <3> QED BY <3>2, <2>1, <1>2, <1>3
    <2>3. lev[q] \in Nat BY <2>2, <1>6 DEF Leveled
    <2> QED BY <2>2, <2>3
  <1>11. /\ N[p] \in NodeType /\ IsNode(N[p]) /\ N[p].count \in Nat /\ N[p].type = "internal"
    BY <1>1, <1>7, <1>10, PageIs DEF Page
  <1>12. PICK x \in NodeType : x = N[p] BY <1>11, Zenon
  <1>13. x.count = Len(x.ent) /\ x.count <= MaxInternal /\ x.ent \in Seq(Nat) /\ x.child \in Seq(Pages)
    BY <1>11, <1>12, KeysAre DEF IsNode
  <1>14. PICK a \in 1..(x.count + 1) : a = Upto(x, l.sep) BY <1>11, <1>12, UptoIn
  <1>15. KeysIn(x, l) \in Seq(Nat) /\ Len(KeysIn(x, l)) = x.count + 1
    <2>1. PICK e \in Seq(Nat), c \in Nat, s \in Nat :
            e = x.ent /\ c = x.count /\ s = l.sep /\ c = Len(e)
      BY <1>1, <1>13
    <2>2. PICK ks : ks = InsertAt(e, a, s) OBVIOUS
    <2>3. a \in 1..(c + 1) BY <2>1
    <2>4. e \in Seq(Nat) /\ c = Len(e) /\ a \in 1..(c + 1) /\ ks = InsertAt(e, a, s)
          => ks \in Seq(Nat) /\ Len(ks) = c + 1 /\ Inserted(ks, e, c, a, s)
      BY InsertNat
    <2>5. ks \in Seq(Nat) /\ Len(ks) = c + 1 BY <2>1, <2>2, <2>3, <2>4
    <2> QED BY <2>1, <2>2, <2>5, <1>14 DEF KeysIn
  <1>16. v[p].keys = KeysIn(x, l) /\ v[p].kids = KidsIn(x, l)
    <2>1. v[p] = View(N, l, p) BY <1>1, <1>7 DEF Shaped
    <2>2. View(N, l, p) = Grown(x, Upto(x, l.sep), l.sep, l.right)
      BY <1>12 DEF View
    <2> QED BY <2>1, <2>2 DEF Grown, KeysIn, KidsIn
  <1>17. InnerFits(KeysIn(x, l), KidsIn(x, l), lo[p], hi[p], lev[p], T, lo, hi, lev)
    <2>1. Fits(v[p], p, T, lo, hi, lev, top) BY <1>1, <1>7 DEF Shaped, Tree
    <2>2. InnerFits(v[p].keys, v[p].kids, lo[p], hi[p], lev[p], T, lo, hi, lev)
      BY <2>1, <1>10 DEF Fits
    <2> QED BY <2>2, <1>16, Zenon
  <1>18. KidsIn(x, l) \in Seq(Pages)
    <2>1. PICK cs : cs = KidsIn(x, l) OBVIOUS
    <2>2. cs \in Seq(T) BY <2>1, <1>17 DEF InnerFits
    <2>3. \A i \in 1..Len(cs) : cs[i] \in Pages BY <2>2, <1>8
    <2> QED BY <2>1, <2>2, <2>3, SeqIn
  <1>19. Path(l, m, T, lev) /\ Stacked(N, l, m, T, lev)
    <2>1. Untouched(N, l, m, N, T, lev, lev)
      <3>1. \A i \in 1..m : l.held[i] \in T
        <4>1. \A i \in 1..m : i \in 1..n BY <1>3
        <4> QED BY <4>1, <1>6 DEF Path
      <3> QED BY <3>1 DEF Untouched
    <2>2. Stacked(N, l, m, T, lev) BY <2>1, <1>3, <1>5, StackedStill
    <2> QED BY <2>2, <1>1, <1>6, StackedIs
  <1>20. Elsewhere(wr, H, p)
    <2>1. Writes(l) BY <1>5 DEF Writes
    <2> QED BY <2>1, <1>7, Mine
  <1>21. \A q \in T : q # p => View(N, l, q) = Plain(N[q])
    <2>1. l.pc # "unlink" BY <1>4
    <2> QED BY <2>1, PlainView
  <1> QED BY <1>1, <1>2, <1>3, <1>5, <1>7, <1>8, <1>9, <1>10, <1>11, <1>12, <1>13, <1>15,
             <1>16, <1>17, <1>18, <1>19, <1>20, <1>21, Zenon DEF Above

\* Other separators and kids in an inner page.
Reshapes(N, p, ks, cs, N2) == N2 = [N EXCEPT ![p] = Internal(ks, cs)]
Reshaped(N, r, F, p, ks, cs, N2) ==
  /\ Nodes(N2, r, F) /\ \A q \in Pages : q # p => N2[q] = N[q]
  /\ N2[p].type = "internal" /\ N2[p].count = Len(ks) /\ N2[p].count \in Nat
  /\ Plain(N2[p]).keys = ks /\ Plain(N2[p]).kids = cs

LEMMA InnerWritten ==
  ASSUME NEW N, NEW r, NEW F, Nodes(N, r, F), NEW p \in Pages, NEW ks \in Seq(Nat),
         Len(ks) <= MaxInternal, NEW cs \in Seq(Pages), NEW N2, Reshapes(N, p, ks, cs, N2)
  PROVE  /\ Reshaped(N, r, F \ {p}, p, ks, cs, N2)
         /\ p \notin F => Reshaped(N, r, F, p, ks, cs, N2)
PROOF
  <1>1. PICK x : x = Internal(ks, cs) OBVIOUS
  <1>2. /\ x \in NodeType /\ IsNode(x) /\ x.type = "internal" /\ x.count = Len(ks)
        /\ x.count \in Nat /\ Plain(x).keys = ks /\ Plain(x).kids = cs
    BY <1>1, InternalIs
  <1>3. N2 = [N EXCEPT ![p] = x] BY <1>1 DEF Reshapes
  <1>4. x.type # "free" BY <1>2
  <1>5. Only(N, N2, p, x) /\ Nodes(N2, r, F \ {p}) BY <1>2, <1>3, <1>4, OnlyIs
  <1>6. Reshaped(N, r, F \ {p}, p, ks, cs, N2) BY <1>2, <1>5 DEF Only, Reshaped
  <1>7. p \notin F => F \ {p} = F OBVIOUS
  <1> QED BY <1>6, <1>7

LEMMA ParentRoom ==
  ASSUME NEW wr \in Threads, NEW N, NEW r, NEW F, NEW H, NEW T, NEW v, NEW lo, NEW hi, NEW lev,
         NEW top, Whole(wr, N, r, F, H, T, v, lo, hi, lev, top), NEW l, l = H[wr],
         Growing(l), NEW p, p = l.held[l.level], N[p].count < Most(N[p]),
         NEW N2, Reshapes(N, p, KeysIn(N[p], l), KidsIn(N[p], l), N2),
         NEW d, Ended(d, l, l.got, l.result), NEW H2, Moves(H, wr, d, H2)
  PROVE  \E v2 : Whole(wr, N2, r, F, H2, T, v2, lo, hi, lev, top)
PROOF
  <1>1. Above(wr, N, r, F, H, l, p, T, v, lo, hi, lev, top) BY AboveIs
  <1>2. /\ l \in Locals /\ Nodes(N, r, F) /\ Shaped(N, r, F, l, T, v, lo, hi, lev, top)
        /\ Filled(N, r, l, T) /\ l.result \in {"none", "found", "missing"}
    BY WriterKnows
  <1>3. PICK ks \in Seq(Nat), cs \in Seq(Pages) :
          ks = KeysIn(N[p], l) /\ cs = KidsIn(N[p], l)
    BY <1>1, Zenon DEF Above
  <1>4. /\ p \in T /\ p \in Pages /\ p \notin F /\ N[p].count \in Nat
        /\ N[p].type = "internal" /\ lev[p] # 0 /\ v[p].keys = ks /\ v[p].kids = cs
        /\ Len(ks) = N[p].count + 1 /\ Elsewhere(wr, H, p) /\ T = Pages \ F
        /\ \A q \in T : q # p => View(N, l, q) = Plain(N[q])
    BY <1>1, <1>3, Zenon DEF Above
  <1>5. Len(ks) <= MaxInternal
    <2>1. N[p].count < MaxInternal BY <1>4, Zenon DEF Most
    <2>2. N[p].count \in Nat /\ Len(ks) = N[p].count + 1 BY <1>4, Zenon
    <2>3. MaxInternal \in Nat BY Sizes, Zenon
    <2> QED BY <2>1, <2>2, <2>3, OneMore, Zenon
  <1>6. Reshapes(N, p, ks, cs, N2) BY <1>3, Zenon
  <1>7. Reshaped(N, r, F, p, ks, cs, N2) BY <1>2, <1>4, <1>5, <1>6, InnerWritten
  <1>8. /\ Nodes(N2, r, F) /\ N2[p].type = "internal" /\ N2[p].count = Len(ks)
        /\ Plain(N2[p]).keys = ks /\ Plain(N2[p]).kids = cs
        /\ \A q \in T : q # p => N2[q] = N[q]
    BY <1>4, <1>7, Zenon DEF Reshaped
  <1>9. PICK v2 : v2 = [q \in T |-> Plain(N2[q])] OBVIOUS
  <1>10. \A q \in T : v2[q] = Plain(N2[q]) BY <1>9
  <1>11. /\ Tree(T, v, lo, hi, lev, lev[r], top) /\ r \in T /\ lo[r] = 0
         /\ hi[r] = top
         /\ \A q \in T : /\ v[q] = View(N, l, q)
                         /\ N[q].type = IF lev[q] = 0 THEN "leaf" ELSE "internal"
    <2>1. ~Orphan(l) BY DEF Orphan, Growing
    <2> QED BY <2>1, <1>2 DEF Shaped
  <1>12. Tree(T, v2, lo, hi, lev, lev[r], top)
    <2>1. ASSUME NEW q \in T
          PROVE  /\ v2[q].keys = v[q].keys /\ v2[q].kids = v[q].kids
                 /\ lev[q] = 0 => v2[q].next = v[q].next
      <3>1. CASE q = p BY <3>1, <1>4, <1>8, <1>10, Zenon
      <3>2. CASE q # p
        <4>1. v2[q] = Plain(N2[q]) /\ N2[q] = N[q] BY <3>2, <1>8, <1>10
        <4>2. v[q] = View(N, l, q) BY <1>11, Zenon
        <4>3. View(N, l, q) = Plain(N[q]) BY <3>2, <1>4
        <4>4. v2[q] = v[q] BY <4>1, <4>2, <4>3, Zenon
        <4> QED BY <4>4, Zenon
      <3> QED BY <3>1, <3>2
    <2> QED BY <2>1, <1>11, TreeAlike
  <1>13. Calm(N2, r, F, T, v2, lo, hi, lev, top)
    <2>1. \A q \in T : N2[q].type = IF lev[q] = 0 THEN "leaf" ELSE "internal"
      <3> TAKE q \in T
      <3>1. CASE q = p BY <3>1, <1>4, <1>8, Zenon
      <3>2. CASE q # p BY <3>2, <1>8, <1>11
      <3> QED BY <3>1, <3>2
    <2> QED BY <2>1, <1>4, <1>10, <1>11, <1>12 DEF Calm
  <1>14. Fit(N2, r, T)
    <2>1. SUFFICES ASSUME NEW q \in T
                   PROVE  IF q = r THEN N2[q].type = "internal" => N2[q].count >= 1
                          ELSE N2[q].count >= Fewest(N2[q])
      BY DEF Fit
    <2>2. ~Weak(l, q) BY DEF Weak, Repairing, Growing
    <2>3. IF q = r THEN N[q].type = "internal" => N[q].count >= 1
          ELSE N[q].count >= Fewest(N[q])
      BY <2>2, <1>2 DEF Filled
    <2>4. CASE q = p
      <3>1. N2[q].count = N[q].count + 1 /\ N2[q].type = "internal" /\ N[q].type = "internal"
            /\ N[q].count \in Nat
        BY <2>4, <1>4, <1>8
      <3>2. Fewest(N2[q]) = MinInternal /\ Fewest(N[q]) = MinInternal BY <3>1 DEF Fewest
      <3> QED BY <3>1, <3>2, <2>3, OneMoreKey, Zenon
    <2>5. CASE q # p
      <3>1. N2[q] = N[q] BY <2>5, <1>8
      <3> QED BY <3>1, <2>3, Zenon
    <2> QED BY <2>4, <2>5
  <1>15. Rests(N2, r, F, T, v2, lo, hi, lev, top) BY <1>13, <1>14, ZenonT(40) DEF Rests
  <1>16. Undisturbed(wr, N, H, T, lo, hi, N2, T, lo, hi) BY <1>4, <1>8 DEF Undisturbed
  <1>17. H[wr].pc # "idle" /\ Ended(d, H[wr], H[wr].got, l.result) BY Zenon DEF Growing
  <1>18. Whole(wr, N2, r, F, H2, T, v2, lo, hi, lev, top)
    BY <1>2, <1>8, <1>15, <1>16, <1>17, DoneStep
  <1> QED BY <1>18

LEMMA FitsTypes ==
  ASSUME NEW T, T \subseteq Pages, NEW ks, NEW cs, NEW a, NEW b, NEW d, NEW lo, NEW hi, NEW lev,
         InnerFits(ks, cs, a, b, d, T, lo, hi, lev)
  PROVE  ks \in Seq(Nat) /\ cs \in Seq(Pages) /\ Len(ks) \in Nat /\ Len(cs) = Len(ks) + 1
PROOF
  <1>1. ks \in Seq(Nat) /\ cs \in Seq(T) /\ Len(cs) = Len(ks) + 1 BY DEF InnerFits
  <1>2. \A i \in 1..Len(cs) : cs[i] \in Pages BY <1>1
  <1>3. cs \in Seq(Pages) BY <1>1, <1>2, SeqIn
  <1> QED BY <1>1, <1>3

\* A full inner page and one more separator and kid, in two halves.
LeftKeys(ks) == SubSeq(ks, 1, Half(ks))
LeftKids(ks, cs) == SubSeq(cs, 1, Half(ks) + 1)
RightKeys(ks) == SubSeq(ks, Half(ks) + 2, Len(ks))
RightKids(ks, cs) == SubSeq(cs, Half(ks) + 2, Len(cs))
BrokenAt(ks, cs, a, s, b, d, T, lo, hi, lev) ==
  /\ s \in Nat /\ a < s /\ s < b
  /\ InnerFits(LeftKeys(ks), LeftKids(ks, cs), a, s, d, T, lo, hi, lev)
  /\ InnerFits(RightKeys(ks), RightKids(ks, cs), s, b, d, T, lo, hi, lev)
  /\ MinInternal <= Len(LeftKeys(ks)) /\ Len(LeftKeys(ks)) <= MaxInternal
  /\ MinInternal <= Len(RightKeys(ks)) /\ Len(RightKeys(ks)) <= MaxInternal

LEMMA BrokenIs ==
  ASSUME NEW T, NEW lo, NEW hi, NEW lev, NEW h, NEW top, Ranges(T, lo, hi, lev, h, top),
         NEW ks, NEW cs, NEW a \in Nat, NEW b \in Nat, NEW d,
         InnerFits(ks, cs, a, b, d, T, lo, hi, lev), Len(ks) = MaxInternal + 1
  PROVE  BrokenAt(ks, cs, a, ks[Half(ks) + 1], b, d, T, lo, hi, lev)
PROOF
  <1>1. PICK n \in Nat : n = Len(ks) /\ ks \in Seq(Nat) /\ cs \in Seq(T) /\ Len(cs) = n + 1
    <2>1. ks \in Seq(Nat) /\ cs \in Seq(T) /\ Len(cs) = Len(ks) + 1 BY DEF InnerFits
    <2> QED BY <2>1
  <1>2. PICK g \in Nat : g = n \div 2 /\ 1 <= g /\ g < n /\ 2 * g <= n /\ n <= 2 * g + 1
    <2>1. n >= 2 BY <1>1, Sizes
    <2>2. n \div 2 \in Nat /\ 1 <= n \div 2 /\ n \div 2 < n /\ 2 * (n \div 2) <= n
          /\ n <= 2 * (n \div 2) + 1
      BY <2>1
    <2> QED BY <2>2
  <1>3. PICK m \in 1..n : m = g + 1 /\ m - 1 = g /\ m + 1 = g + 2 BY <1>2
  <1>4. Half(ks) = g /\ n = MaxInternal + 1 BY <1>1, <1>2 DEF Half
  <1>5. PICK s \in Nat : s = ks[m] BY <1>1, <1>3
  <1>6. a < s /\ s < b
    <2>1. hi[cs[m]] = s /\ lo[cs[m + 1]] = s BY <1>1, <1>3, <1>5 DEF InnerFits
    <2>2. PICK p \in T, q \in T : p = cs[m] /\ q = cs[m + 1]
      <3>1. m \in 1..Len(cs) /\ m + 1 \in 1..Len(cs) BY <1>1, <1>3
      <3>2. cs[m] \in T /\ cs[m + 1] \in T BY <3>1, <1>1
      <3> QED BY <3>2
    <2>3. lo[p] < hi[p] /\ lo[q] < hi[q] /\ lo[p] \in Nat /\ hi[q] \in Nat BY DEF Ranges
    <2>4. \A i \in 1..Len(cs) : a <= lo[cs[i]] /\ hi[cs[i]] <= b BY Order
    <2>5. a <= lo[p] /\ hi[q] <= b
      <3>1. m \in 1..Len(cs) /\ m + 1 \in 1..Len(cs) BY <1>1, <1>3
      <3> QED BY <3>1, <2>2, <2>4
    <2>6. hi[p] = s /\ lo[q] = s BY <2>1, <2>2
    <2> QED BY <2>3, <2>5, <2>6
  <1>7. /\ InnerFits(SubSeq(ks, 1, m - 1), SubSeq(cs, 1, m), a, ks[m], d, T, lo, hi, lev)
        /\ InnerFits(SubSeq(ks, m + 1, Len(ks)), SubSeq(cs, m + 1, Len(cs)), ks[m], b, d,
                     T, lo, hi, lev)
    BY <1>1, <1>3, SplitFits
  <1>8. /\ LeftKeys(ks) = SubSeq(ks, 1, m - 1) /\ LeftKids(ks, cs) = SubSeq(cs, 1, m)
        /\ RightKeys(ks) = SubSeq(ks, m + 1, Len(ks))
        /\ RightKids(ks, cs) = SubSeq(cs, m + 1, Len(cs))
    BY <1>3, <1>4 DEF LeftKeys, LeftKids, RightKeys, RightKids
  <1>9. Len(LeftKeys(ks)) = g /\ Len(RightKeys(ks)) = n - m
    <2>1. Len(SubSeq(ks, 1, g)) = g
      <3>0. g \in Nat /\ g <= n /\ n = Len(ks) BY <1>1, <1>2
      <3>1. 1 \in Nat /\ 1 <= g + 1 /\ 1 <= 1 /\ g <= Len(ks) BY <3>0
      <3>2. Len(SubSeq(ks, 1, g)) = g - 1 + 1 BY <3>1, <1>1, PartIs
      <3> QED BY <3>2
    <2>2. Len(SubSeq(ks, m + 1, n)) = n - m
      <3>1. PICK x \in Nat : x = m + 1 OBVIOUS
      <3>2. 1 <= x /\ x <= n + 1 /\ n <= Len(ks) BY <3>1, <1>1
      <3>3. Len(SubSeq(ks, x, n)) = n - x + 1 BY <3>2, <1>1, PartIs
      <3>4. n - x + 1 = n - m BY <3>1
      <3> QED BY <3>1, <3>3, <3>4
    <2> QED BY <2>1, <2>2, <1>1, <1>3, <1>8
  <1>10. MinInternal <= g /\ g <= MaxInternal /\ MinInternal <= n - m /\ n - m <= MaxInternal
    BY <1>2, <1>3, <1>4, Sizes
  <1>11. ks[Half(ks) + 1] = s BY <1>3, <1>4, <1>5
  <1>12. /\ InnerFits(LeftKeys(ks), LeftKids(ks, cs), a, s, d, T, lo, hi, lev)
         /\ InnerFits(RightKeys(ks), RightKids(ks, cs), s, b, d, T, lo, hi, lev)
    BY <1>5, <1>7, <1>8
  <1> QED BY <1>6, <1>9, <1>10, <1>11, <1>12 DEF BrokenAt

\* The parent p has no room and is divided in two, p and new.
Breaks(N, F, l, p, ks, cs, new, N2, F2, l2) ==
  /\ ks = KeysIn(N[p], l) /\ cs = KidsIn(N[p], l) /\ new \in F /\ F2 = F \ {new}
  /\ N2 = [N EXCEPT ![p] = Internal(LeftKeys(ks), LeftKids(ks, cs)),
                    ![new] = Internal(RightKeys(ks), RightKids(ks, cs))]
  /\ l2 = [l EXCEPT !.level = @ - 1, !.sep = ks[Half(ks) + 1], !.right = new]

Broken(N, r, F, l, p, ks, cs, new, N2, F2, l2) ==
  /\ l2 \in Locals /\ l2.pc = l.pc /\ l2.level \in Nat /\ l2.level + 1 = l.level
  /\ l2.request = l.request /\ l2.held = l.held /\ l2.right = new
  /\ l2.sep = ks[Half(ks) + 1] /\ l2.sep \in Nat
  /\ new \in Pages /\ new \in F /\ F2 = F \ {new} /\ Nodes(N2, r, F2)
  /\ \A q \in Pages : q # p /\ q # new => N2[q] = N[q]
  /\ N2[p].type = "internal" /\ N2[p].count = Len(LeftKeys(ks))
  /\ Plain(N2[p]).keys = LeftKeys(ks) /\ Plain(N2[p]).kids = LeftKids(ks, cs)
  /\ N2[new].type = "internal" /\ N2[new].count = Len(RightKeys(ks))
  /\ Plain(N2[new]).keys = RightKeys(ks) /\ Plain(N2[new]).kids = RightKids(ks, cs)

LEMMA BreakIs ==
  ASSUME NEW N, NEW r, NEW F, NEW l \in Locals, NEW p \in Pages, NEW ks, NEW cs, NEW new,
         NEW N2, NEW F2, NEW l2, Nodes(N, r, F), p \notin F,
         Breaks(N, F, l, p, ks, cs, new, N2, F2, l2), l.level \in Nat, l.level > 0,
         NEW a, NEW b, NEW d, NEW T, NEW lo, NEW hi, NEW lev, T \subseteq Pages,
         BrokenAt(ks, cs, a, ks[Half(ks) + 1], b, d, T, lo, hi, lev)
  PROVE  Broken(N, r, F, l, p, ks, cs, new, N2, F2, l2)
PROOF
  <1>1. PICK s \in Nat : s = ks[Half(ks) + 1] BY DEF BrokenAt
  <1>2. PICK m \in Nat : m = l.level - 1 /\ m + 1 = l.level
    <2>1. PICK n \in Nat : n = l.level OBVIOUS
    <2>2. n - 1 \in Nat /\ n - 1 + 1 = n BY <2>1
    <2> QED BY <2>1, <2>2
  <1>3. new \in F /\ F2 = F \ {new} BY DEF Breaks
  <1>4. new \in Pages /\ new # p BY <1>3 DEF Nodes
  <1>5. /\ l2 \in Locals /\ l2.pc = l.pc /\ l2.level = m
        /\ l2.request = l.request /\ l2.held = l.held /\ l2.right = new /\ l2.sep = s
    <2>1. l2 = [l EXCEPT !.level = m, !.sep = s, !.right = new]
      <3>1. l2 = [l EXCEPT !.level = @ - 1, !.sep = s, !.right = new]
        BY <1>1 DEF Breaks
      <3> QED BY <3>1, <1>2
    <2> QED BY <2>1, <1>4 DEF Locals
  <1>6. PICK k1, c1 : k1 = LeftKeys(ks) /\ c1 = LeftKids(ks, cs) OBVIOUS
  <1>7. PICK k2, c2 : k2 = RightKeys(ks) /\ c2 = RightKids(ks, cs) OBVIOUS
  <1>8. k1 \in Seq(Nat) /\ c1 \in Seq(Pages) /\ Len(k1) <= MaxInternal
    <2>1. InnerFits(k1, c1, a, s, d, T, lo, hi, lev) /\ Len(k1) <= MaxInternal
      BY <1>1, <1>6 DEF BrokenAt
    <2> QED BY <2>1, FitsTypes
  <1>9. k2 \in Seq(Nat) /\ c2 \in Seq(Pages) /\ Len(k2) <= MaxInternal
    <2>1. InnerFits(k2, c2, s, b, d, T, lo, hi, lev) /\ Len(k2) <= MaxInternal
      BY <1>1, <1>7 DEF BrokenAt
    <2> QED BY <2>1, FitsTypes
  <1>10. PICK M : M = [N EXCEPT ![p] = Internal(k1, c1)] OBVIOUS
  <1>11. Reshaped(N, r, F, p, k1, c1, M)
    <2>1. Reshapes(N, p, k1, c1, M) BY <1>10 DEF Reshapes
    <2> QED BY <2>1, <1>8, InnerWritten
  <1>12. Nodes(M, r, F) BY <1>11 DEF Reshaped
  <1>13. Reshaped(M, r, F \ {new}, new, k2, c2, N2)
    <2>1. N2 = [M EXCEPT ![new] = Internal(k2, c2)]
      BY <1>6, <1>7, <1>10 DEF Breaks
    <2>2. Reshapes(M, new, k2, c2, N2) BY <2>1 DEF Reshapes
    <2> QED BY <2>2, <1>4, <1>9, <1>12, InnerWritten
  <1>14. /\ \A q \in Pages : q # p => M[q] = N[q]
         /\ M[p].type = "internal" /\ M[p].count = Len(k1)
         /\ Plain(M[p]).keys = k1 /\ Plain(M[p]).kids = c1
    BY <1>11 DEF Reshaped
  <1>15. /\ Nodes(N2, r, F2) /\ \A q \in Pages : q # new => N2[q] = M[q]
         /\ N2[new].type = "internal" /\ N2[new].count = Len(k2)
         /\ Plain(N2[new]).keys = k2 /\ Plain(N2[new]).kids = c2
    BY <1>3, <1>13 DEF Reshaped
  <1>16. N2[p] = M[p] BY <1>4, <1>15
  <1>17. \A q \in Pages : q # p /\ q # new => N2[q] = N[q] BY <1>14, <1>15
  <1> QED BY <1>1, <1>2, <1>3, <1>4, <1>5, <1>6, <1>7, <1>14, <1>15, <1>16, <1>17
      DEF Broken

LEMMA ParentFull ==
  ASSUME NEW wr \in Threads, NEW N, NEW r, NEW F, NEW H, NEW T, NEW v, NEW lo, NEW hi, NEW lev,
         NEW top, Whole(wr, N, r, F, H, T, v, lo, hi, lev, top), NEW l, l = H[wr],
         Growing(l), NEW p, p = l.held[l.level], ~(N[p].count < Most(N[p])),
         NEW ks, NEW cs, NEW new, NEW N2, NEW F2, NEW l2,
         Breaks(N, F, l, p, ks, cs, new, N2, F2, l2), NEW H2, Moves(H, wr, l2, H2)
  PROVE  \E T2, v2, lo2, hi2, lev2 : Whole(wr, N2, r, F2, H2, T2, v2, lo2, hi2, lev2, top)
PROOF
  <1>1. Above(wr, N, r, F, H, l, p, T, v, lo, hi, lev, top) BY AboveIs
  <1>2. /\ l \in Locals /\ Nodes(N, r, F) /\ Shaped(N, r, F, l, T, v, lo, hi, lev, top)
        /\ Rising(N, r, l, T, lo, hi, lev, top)
    BY WriterKnows
  <1>3. l.pc = "up" /\ l.level > 0 BY DEF Growing
  <1>4. l.request.op = "insert" BY <1>2, <1>3 DEF Rising
  <1>5. ks = KeysIn(N[p], l) /\ cs = KidsIn(N[p], l) BY Zenon DEF Breaks
  <1>6. /\ p \in T /\ p \in Pages /\ p \notin F /\ N[p].count \in Nat
        /\ N[p].type = "internal" /\ lev[p] # 0 /\ N[p].count <= MaxInternal
        /\ Len(ks) = N[p].count + 1 /\ l.level \in Nat /\ T = Pages \ F
        /\ Stacked(N, l, l.level, T, lev) /\ Path(l, l.level, T, lev) /\ Ready(N, r, l)
        /\ InnerFits(ks, cs, lo[p], hi[p], lev[p], T, lo, hi, lev)
        /\ \A q \in T : q # p => View(N, l, q) = Plain(N[q])
    BY <1>1, <1>5, Zenon DEF Above
  <1>7. N[p].count = MaxInternal
    <2>1. N[p].count \in Nat /\ N[p].count <= MaxInternal BY <1>6, Zenon
    <2>2. ~(N[p].count < MaxInternal) BY <1>6, Zenon DEF Most
    <2>3. MaxInternal \in Nat BY Sizes, Zenon
    <2> QED BY <2>1, <2>2, <2>3, Topmost, Zenon
  <1>8. PICK a \in Nat, b \in Nat : a = lo[p] /\ b = hi[p]
    <2>1. p \in T BY <1>6, Zenon
    <2>2. Page(N, p, T, lo, hi, lev, top) BY <2>1, <1>2, PageIs, Zenon
    <2>3. lo[p] \in Nat /\ hi[p] \in Nat BY <2>2, Zenon DEF Page
    <2> QED BY <2>3, Zenon
  <1>9. BrokenAt(ks, cs, a, ks[Half(ks) + 1], b, lev[p], T, lo, hi, lev)
    <2>1. Ranges(T, lo, hi, lev, lev[r], top) BY <1>2, Zenon DEF Shaped, Tree
    <2>2. InnerFits(ks, cs, a, b, lev[p], T, lo, hi, lev) BY <1>6, <1>8, Zenon
    <2>3. Len(ks) = MaxInternal + 1 BY <1>6, <1>7, Zenon
    <2> QED BY <2>1, <2>2, <2>3, BrokenIs
  <1>10. T \subseteq Pages BY <1>6
  <1>11. /\ l2 \in Locals /\ l2.pc = l.pc /\ l2.level \in Nat /\ l2.level + 1 = l.level
         /\ l2.request = l.request /\ l2.held = l.held /\ l2.right = new
         /\ l2.sep = ks[Half(ks) + 1] /\ l2.sep \in Nat
         /\ new \in Pages /\ new \in F /\ F2 = F \ {new} /\ Nodes(N2, r, F2)
         /\ \A q \in Pages : q # p /\ q # new => N2[q] = N[q]
         /\ N2[p].type = "internal" /\ N2[p].count = Len(LeftKeys(ks))
         /\ Plain(N2[p]).keys = LeftKeys(ks) /\ Plain(N2[p]).kids = LeftKids(ks, cs)
         /\ N2[new].type = "internal" /\ N2[new].count = Len(RightKeys(ks))
         /\ Plain(N2[new]).keys = RightKeys(ks) /\ Plain(N2[new]).kids = RightKids(ks, cs)
    <2>1. Broken(N, r, F, l, p, ks, cs, new, N2, F2, l2)
      BY <1>2, <1>3, <1>6, <1>9, <1>10, BreakIs
    <2> QED BY <2>1, Zenon DEF Broken
  <1>12. BrokenAt(ks, cs, a, l2.sep, b, lev[p], T, lo, hi, lev) BY <1>9, <1>11
  <1>13. new \notin T BY <1>6, <1>11, Zenon
  <1>14. Dividing(N, r, l, T, v, lo, hi, lev, l2, p, N2)
    <2>1. PICK n \in Nat : n = l.level /\ n \in 1..n
      <3>1. l.level \in Nat /\ l.level > 0 BY <1>3, <1>6, Zenon
      <3>2. l.level \in 1..l.level BY <3>1, OneUp, Zenon
      <3> QED BY <3>1, <3>2, Zenon
    <2>2. Stacked(N, l2, n, T, lev)
      <3>1. Untouched(N, l, n, N, T, lev, lev) BY <2>1, <1>6, Zenon DEF Untouched, Path
      <3>2. Stacked(N, l, n, T, lev) BY <2>1, <1>6, Zenon
      <3> QED BY <2>1, <3>1, <3>2, <1>11, StackedStill, Zenon
    <2>3. l2.level = 0 => p = r
      <3>1. SUFFICES ASSUME l2.level = 0 PROVE p = r OBVIOUS
      <3>2. l.held[1] = p BY <3>1, <1>11, SMTT(30)
      <3> QED BY <3>2, <1>4, <1>6 DEF Ready, SafeFor
    <2>4. \A q \in T : q # p => View(N, l, q) = Plain(N[q]) /\ N2[q] = N[q]
      BY <1>6, <1>10, <1>11, <1>13, Zenon
    <2>5. lo[p] < l2.sep /\ l2.sep < hi[p] BY <1>8, <1>12 DEF BrokenAt
    <2> QED BY <2>1, <2>2, <2>3, <2>4, <2>5, <1>3, <1>11, <1>13, Zenon DEF Dividing
  <1>15. Halves(T, v, lo, hi, lev, l2, p, N2, F2)
    <2>1. PICK x, y : x = N2[p] /\ y = N2[new] OBVIOUS
    <2>2. Fewest(x) = MinInternal /\ Fewest(y) = MinInternal BY <2>1, <1>11 DEF Fewest
    <2>3. x.count >= Fewest(x) /\ y.count >= Fewest(y)
      <3>1. /\ MinInternal <= Len(LeftKeys(ks)) /\ MinInternal <= Len(RightKeys(ks))
        BY <1>12, Zenon DEF BrokenAt
      <3> QED BY <2>1, <2>2, <3>1, <1>11
    <2>4. InnerPair(Plain(x), Plain(y), lo[p], l2.sep, hi[p], lev[p], T, lo, hi, lev)
      BY <2>1, <1>8, <1>11, <1>12, Zenon DEF InnerPair, BrokenAt
    <2>5. T \cup {new} = Pages \ F2 BY <1>6, <1>11, Zenon
    <2> QED BY <2>1, <2>3, <2>4, <2>5, <1>6, <1>11, Zenon DEF Halves
  <1>16. l2.level > 0 => Ready(N, r, l2) BY <1>6, <1>11, Zenon DEF Ready
  <1>17. l.pc \in {"split", "up"} /\ ~Orphan(l) BY <1>3 DEF Orphan
  <1> QED BY <1>4, <1>11, <1>14, <1>15, <1>16, <1>17, SplitStep

\* What PropagateInsert does with the page p.
PropagatesTo(t, l, p, ks, cs) ==
  /\ l.pc = "up" /\ l.level > 0 /\ UNCHANGED root
  /\ \/ /\ node[p].count < Most(node[p]) /\ Reshapes(node, p, ks, cs, node')
        /\ Moves(th, t, Done(t, l.result), th') /\ UNCHANGED free
     \/ /\ ~(node[p].count < Most(node[p]))
        /\ \E new, l2 : /\ Breaks(node, free, l, p, ks, cs, new, node', free', l2)
                        /\ Moves(th, t, l2, th')

LEMMA PropagateInsertIs ==
  ASSUME NEW t, PropagateInsert(t), NEW l, l = th[t], NEW p, p = l.held[l.level],
         NEW ks, NEW cs, ks = KeysIn(node[p], l), cs = KidsIn(node[p], l)
  PROVE  PropagatesTo(t, l, p, ks, cs)
PROOF
  <1>1. /\ ks = InsertAt(node[p].ent, internal_find(p, l.sep), l.sep)
        /\ cs = InsertAt(node[p].child, internal_find(p, l.sep) + 1, l.right)
    BY NamesAre DEF KeysIn, KidsIn
  <1>2. PICK half : half = Len(ks) \div 2 OBVIOUS
  <1>3. half = Half(ks) BY <1>2 DEF Half
  <1>4. /\ l.pc = "up" /\ l.level > 0 /\ UNCHANGED root
        /\ \/ /\ HasRoom(p)
              /\ node' = [node EXCEPT ![p] = Internal(ks, cs)]
              /\ th' = [th EXCEPT ![t] = Done(t, l.result)]
              /\ UNCHANGED free
           \/ /\ ~HasRoom(p)
              /\ \E new \in Allocatable :
                   /\ node' = [node EXCEPT
                        ![p] = Internal(SubSeq(ks, 1, half), SubSeq(cs, 1, half + 1)),
                        ![new] = Internal(SubSeq(ks, half + 2, Len(ks)),
                                          SubSeq(cs, half + 2, Len(cs)))]
                   /\ free' = free \ {new}
                   /\ th' = [th EXCEPT ![t] =
                        [l EXCEPT !.level = @ - 1, !.sep = ks[half + 1], !.right = new]]
    BY <1>1, <1>2, ZenonT(40) DEF PropagateInsert
  <1>5. HasRoom(p) <=> node[p].count < Most(node[p]) BY NamesAre, Zenon
  <1>6. CASE HasRoom(p) BY <1>4, <1>5, <1>6 DEF PropagatesTo, Moves, Reshapes
  <1>7. CASE ~HasRoom(p)
    <2>1. PICK new \in Allocatable :
            /\ node' = [node EXCEPT
                 ![p] = Internal(SubSeq(ks, 1, half), SubSeq(cs, 1, half + 1)),
                 ![new] = Internal(SubSeq(ks, half + 2, Len(ks)),
                                   SubSeq(cs, half + 2, Len(cs)))]
            /\ free' = free \ {new}
            /\ th' = [th EXCEPT ![t] =
                 [l EXCEPT !.level = @ - 1, !.sep = ks[half + 1], !.right = new]]
      BY <1>4, <1>7, Zenon
    <2>2. new \in free BY NamesAre
    <2>3. PICK l2 : l2 = [l EXCEPT !.level = @ - 1, !.sep = ks[half + 1], !.right = new]
      OBVIOUS
    <2>4. Breaks(node, free, l, p, ks, cs, new, node', free', l2)
      BY <2>1, <2>2, <2>3, <1>3, ZenonT(40) DEF Breaks, LeftKeys, LeftKids, RightKeys, RightKids
    <2>5. Moves(th, t, l2, th') BY <2>1, <2>3 DEF Moves
    <2> QED BY <2>4, <2>5, <1>4, <1>5, <1>7, Zenon DEF PropagatesTo
  <1> QED BY <1>6, <1>7, Zenon

LEMMA PropagateInsertStep ==
  ASSUME NEW wr \in Threads, InvOf(wr), PropagateInsert(wr)
  PROVE  InvOf(wr)'
PROOF
  <1>1. PICK T, v, lo, hi, lev, top : Whole(wr, node, root, free, th, T, v, lo, hi, lev, top)
    BY DEF InvOf
  <1>2. PICK l : l = th[wr] OBVIOUS
  <1>3. PICK p : p = l.held[l.level] OBVIOUS
  <1>4. PICK ks, cs : ks = KeysIn(node[p], l) /\ cs = KidsIn(node[p], l) OBVIOUS
  <1>5. PropagatesTo(wr, l, p, ks, cs) BY <1>2, <1>3, <1>4, PropagateInsertIs
  <1>6. Growing(l) /\ root' = root BY <1>5 DEF PropagatesTo, Growing
  <1>7. CASE /\ node[p].count < Most(node[p]) /\ Reshapes(node, p, ks, cs, node')
             /\ Moves(th, wr, Done(wr, l.result), th') /\ UNCHANGED free
    <2>1. PICK d : d = Done(wr, l.result) OBVIOUS
    <2>2. l.result \in {"none", "found", "missing"} BY <1>1, <1>2, WriterKnows
    <2>3. Ended(d, l, l.got, l.result) BY <2>1, <2>2, <1>2, WriterDone
    <2>4. Moves(th, wr, d, th') BY <2>1, <1>7
    <2>5. Reshapes(node, p, KeysIn(node[p], l), KidsIn(node[p], l), node') BY <1>4, <1>7
    <2>6. PICK v2 : Whole(wr, node', root, free, th', T, v2, lo, hi, lev, top)
      BY <1>1, <1>2, <1>3, <1>6, <1>7, <2>3, <2>4, <2>5, ParentRoom
    <2> QED BY <2>6, <1>6, <1>7, Landed
  <1>8. CASE /\ ~(node[p].count < Most(node[p]))
             /\ \E new, l2 : /\ Breaks(node, free, l, p, ks, cs, new, node', free', l2)
                             /\ Moves(th, wr, l2, th')
    <2>1. PICK new, l2 : /\ Breaks(node, free, l, p, ks, cs, new, node', free', l2)
                         /\ Moves(th, wr, l2, th')
      BY <1>8
    <2>2. PICK T2, v2, lo2, hi2, lev2 :
            Whole(wr, node', root, free', th', T2, v2, lo2, hi2, lev2, top)
      BY <1>1, <1>2, <1>3, <1>6, <1>8, <2>1, ParentFull
    <2> QED BY <2>2, <1>6, Landed
  <1> QED BY <1>5, <1>7, <1>8 DEF PropagatesTo

\* The new root of a tree that grows by a level.
TopLo(T, lo, new) == [q \in T \cup {new} |-> IF q = new THEN 0 ELSE lo[q]]
TopHi(T, hi, new, top) == [q \in T \cup {new} |-> IF q = new THEN top ELSE hi[q]]
TopLev(T, lev, new, h) == [q \in T \cup {new} |-> IF q = new THEN h ELSE lev[q]]

LEMMA CrownIs ==
  ASSUME NEW T, NEW lo, NEW hi, NEW lev, NEW new, new \notin T, NEW top, NEW h
  PROVE  Crowned(T, lo, hi, lev, new, top, h, TopLo(T, lo, new), TopHi(T, hi, new, top),
                 TopLev(T, lev, new, h))
PROOF
  <1>1. PICK lo2, hi2, lev2 : /\ lo2 = TopLo(T, lo, new) /\ hi2 = TopHi(T, hi, new, top)
                              /\ lev2 = TopLev(T, lev, new, h)
    OBVIOUS
  <1>2. /\ lo2 = [q \in T \cup {new} |-> IF q = new THEN 0 ELSE lo[q]]
        /\ hi2 = [q \in T \cup {new} |-> IF q = new THEN top ELSE hi[q]]
        /\ lev2 = [q \in T \cup {new} |-> IF q = new THEN h ELSE lev[q]]
    BY <1>1 DEF TopLo, TopHi, TopLev
  <1>3. ASSUME NEW q \in T PROVE lo2[q] = lo[q] /\ hi2[q] = hi[q] /\ lev2[q] = lev[q]
    <2>1. q # new OBVIOUS
    <2> QED BY <2>1, <1>2
  <1>4. lo2[new] = 0 /\ hi2[new] = top /\ lev2[new] = h BY <1>2
  <1> QED BY <1>1, <1>3, <1>4 DEF Crowned

LEMMA RootGrows ==
  ASSUME NEW wr \in Threads, NEW N, NEW r, NEW F, NEW H, NEW T, NEW v, NEW lo, NEW hi, NEW lev,
         NEW top, Whole(wr, N, r, F, H, T, v, lo, hi, lev, top), NEW l, l = H[wr],
         Orphan(l), NEW new \in F,
         NEW N2, Reshapes(N, new, <<l.sep>>, <<l.held[1], l.right>>, N2),
         NEW d, Ended(d, l, l.got, l.result), NEW H2, Moves(H, wr, d, H2)
  PROVE  \E T2, v2, lo2, hi2, lev2 :
           Whole(wr, N2, new, F \ {new}, H2, T2, v2, lo2, hi2, lev2, top)
PROOF
  <1>1. /\ l \in Locals /\ Nodes(N, r, F) /\ Shaped(N, r, F, l, T, v, lo, hi, lev, top)
        /\ Filled(N, r, l, T) /\ Rising(N, r, l, T, lo, hi, lev, top) /\ l.sep \in Nat
        /\ l.result \in {"none", "found", "missing"} /\ Bound(top)
    BY WriterKnows
  <1>2. l.pc = "up" /\ l.level = 0 BY DEF Orphan
  <1>3. /\ l.held[1] = r /\ N[r].count >= Fewest(N[r]) /\ hi[l.right] = top
        /\ l.right \in T /\ lev[l.right] = lev[r] /\ hi[r] = l.sep /\ lo[l.right] = l.sep
    BY <1>1, <1>2 DEF Rising
  <1>4. PICK b \in T : b = l.right BY <1>3
  <1>5. PICK F2 : F2 = F \ {new} OBVIOUS
  <1>6. new \in Pages /\ T = Pages \ F /\ new \notin T /\ r \in T /\ r \in Pages /\ b \in Pages
    <2>1. T = Pages \ F BY <1>1, <1>2 DEF Shaped, Loose
    <2>2. new \in Pages /\ r \in T BY <1>1 DEF Nodes, Shaped
    <2> QED BY <2>1, <2>2
  <1>7. PICK ks \in Seq(Nat), cs \in Seq(Pages) :
          ks = <<l.sep>> /\ cs = <<r, b>> /\ Len(ks) = 1
    <2>1. <<l.sep>> \in Seq(Nat) /\ <<r, b>> \in Seq(Pages) /\ Len(<<l.sep>>) = 1
      BY <1>1, <1>6
    <2> QED BY <2>1
  <1>8. Reshaped(N, new, F2, new, ks, cs, N2)
    <2>1. Nodes(N, new, F) BY <1>1, <1>6 DEF Nodes
    <2>2. Reshapes(N, new, ks, cs, N2) BY <1>3, <1>4, <1>7
    <2>3. Len(ks) <= MaxInternal BY <1>7, Sizes
    <2> QED BY <2>1, <2>2, <2>3, <1>5, <1>6, InnerWritten
  <1>9. /\ Nodes(N2, new, F2) /\ N2[new].type = "internal" /\ N2[new].count = 1
        /\ Plain(N2[new]).keys = ks /\ Plain(N2[new]).kids = cs
        /\ \A q \in T : q \in Pages /\ q # new /\ N2[q] = N[q]
    <2>1. \A q \in T : q \in Pages /\ q # new BY <1>6
    <2> QED BY <2>1, <1>7, <1>8 DEF Reshaped
  <1>10. PICK T2 : T2 = T \cup {new} OBVIOUS
  <1>11. PICK h \in Nat : h = lev[r] BY <1>1, <1>6, PageIs DEF Page
  <1>12. PICK lo2, hi2, lev2 : Crowned(T, lo, hi, lev, new, top, h + 1, lo2, hi2, lev2)
    BY <1>6, CrownIs
  <1>13. PICK v2 : v2 = [q \in T2 |-> Plain(N2[q])] OBVIOUS
  <1>14. \A q \in T2 : v2[q] = Plain(N2[q]) BY <1>13
  <1>15. Tree(T, v, lo, hi, lev, h, top) /\ lo[r] = 0 BY <1>1, <1>11 DEF Shaped
  <1>16. ASSUME NEW q \in T
         PROVE  v[q] = Plain(N[q]) /\ N[q].type = IF lev[q] = 0 THEN "leaf" ELSE "internal"
    <2>1. v[q] = View(N, l, q) BY <1>1 DEF Shaped
    <2>2. View(N, l, q) = Plain(N[q])
      <3>1. l.pc # "unlink" /\ ~Growing(l) BY <1>2 DEF Growing
      <3> QED BY <3>1, PlainView
    <2>3. N[q].type = IF lev[q] = 0 THEN "leaf" ELSE "internal" BY <1>1 DEF Shaped
    <2> QED BY <2>1, <2>2, <2>3
  <1>17. Tree(T2, v2, lo2, hi2, lev2, h + 1, top)
    <2>1. \A q \in T : v2[q] = v[q]
      <3> TAKE q \in T
      <3>1. v2[q] = Plain(N2[q]) /\ N2[q] = N[q] BY <1>9, <1>10, <1>14
      <3> QED BY <3>1, <1>16
    <2>2. v2[new].keys = <<hi[r]>> /\ v2[new].kids = <<r, b>>
      BY <1>3, <1>7, <1>9, <1>10, <1>14
    <2>4. lev[r] = h /\ lev[b] = h /\ hi[r] = lo[b] /\ hi[b] = top BY <1>3, <1>4, <1>11
    <2>5. new # 0 BY <1>6, Sizes
    <2>6. Tree(T \cup {new}, v2, lo2, hi2, lev2, h + 1, top)
      <3>1. Tops(lo, hi, lev, r, b, h, h + 1, top) BY <2>4, <1>15 DEF Tops
      <3>2. TopOf(T, v, hi, r, b, new, v2) BY <2>1, <2>2 DEF TopOf
      <3> QED BY <3>1, <3>2, <2>5, <1>6, <1>12, <1>15, TopTree
    <2> QED BY <2>6, <1>10
  <1>18. Calm(N2, new, F2, T2, v2, lo2, hi2, lev2, top)
    <2>1. \A q \in T2 : N2[q].type = IF lev2[q] = 0 THEN "leaf" ELSE "internal"
      <3> TAKE q \in T2
      <3>1. CASE q = new
        <4>1. lev2[q] = h + 1 /\ h + 1 # 0 BY <3>1, <1>12 DEF Crowned
        <4> QED BY <4>1, <3>1, <1>9
      <3>2. CASE q # new
        <4>1. q \in T BY <3>2, <1>10
        <4>2. lev2[q] = lev[q] BY <4>1, <1>12 DEF Crowned
        <4>3. N2[q] = N[q] BY <4>1, <1>9
        <4> QED BY <4>1, <4>2, <4>3, <1>16
      <3> QED BY <3>1, <3>2
    <2>2. T2 = Pages \ F2 BY <1>5, <1>6, <1>10
    <2>3. lev2[new] = h + 1 /\ lo2[new] = 0 /\ hi2[new] = top BY <1>12 DEF Crowned
    <2>4. new \in T2 BY <1>10
    <2> QED BY <2>1, <2>2, <2>3, <2>4, <1>14, <1>17 DEF Calm
  <1>19. Fit(N2, new, T2)
    <2>1. SUFFICES ASSUME NEW q \in T2
                   PROVE  IF q = new THEN N2[q].type = "internal" => N2[q].count >= 1
                          ELSE N2[q].count >= Fewest(N2[q])
      BY DEF Fit
    <2>2. CASE q = new BY <2>2, <1>9
    <2>3. CASE q # new
      <3>1. q \in T /\ N2[q] = N[q] BY <2>3, <1>9, <1>10
      <3>2. CASE q = r BY <3>1, <3>2, <2>3, <1>3
      <3>3. CASE q # r
        <4>1. ~Weak(l, q) BY <1>2 DEF Weak, Repairing
        <4>2. N[q].count >= Fewest(N[q]) BY <3>1, <3>3, <4>1, <1>1 DEF Filled
        <4> QED BY <4>2, <3>1, <2>3
      <3> QED BY <3>2, <3>3
    <2> QED BY <2>2, <2>3
  <1>20. Rests(N2, new, F2, T2, v2, lo2, hi2, lev2, top) BY <1>18, <1>19 DEF Rests
  <1>21. Undisturbed(wr, N, H, T, lo, hi, N2, T2, lo2, hi2)
    <2>1. ASSUME NEW q \in T
          PROVE  q \in T2 /\ N2[q] = N[q] /\ lo2[q] = lo[q] /\ hi2[q] = hi[q]
      BY <1>9, <1>10, <1>12 DEF Crowned
    <2> QED BY <2>1 DEF Undisturbed
  <1>22. H[wr].pc # "idle" /\ Ended(d, H[wr], H[wr].got, l.result) BY <1>2
  <1>23. Whole(wr, N2, new, F2, H2, T2, v2, lo2, hi2, lev2, top)
    BY <1>1, <1>9, <1>20, <1>21, <1>22, DoneStep
  <1> QED BY <1>5, <1>23

LEMMA NewRootStep ==
  ASSUME NEW wr \in Threads, InvOf(wr), NewRoot(wr)
  PROVE  InvOf(wr)'
PROOF
  <1>1. PICK T, v, lo, hi, lev, top : Whole(wr, node, root, free, th, T, v, lo, hi, lev, top)
    BY DEF InvOf
  <1>2. PICK l : l = th[wr] OBVIOUS
  <1>3. Orphan(l) /\ th' = [th EXCEPT ![wr] = Done(wr, l.result)]
    BY <1>2 DEF NewRoot, Orphan
  <1>4. PICK new \in Allocatable :
          /\ node' = [node EXCEPT ![new] = Internal(<<l.sep>>, <<l.held[1], l.right>>)]
          /\ root' = new /\ free' = free \ {new}
    BY <1>2 DEF NewRoot
  <1>5. new \in free BY NamesAre
  <1>6. PICK d : d = Done(wr, l.result) OBVIOUS
  <1>7. l.result \in {"none", "found", "missing"} BY <1>1, <1>2, WriterKnows
  <1>8. Ended(d, l, l.got, l.result) BY <1>6, <1>7, <1>2, WriterDone
  <1>9. Moves(th, wr, d, th') BY <1>3, <1>6 DEF Moves
  <1>10. Reshapes(node, new, <<l.sep>>, <<l.held[1], l.right>>, node') BY <1>4 DEF Reshapes
  <1>11. PICK T2, v2, lo2, hi2, lev2 :
           Whole(wr, node', new, free \ {new}, th', T2, v2, lo2, hi2, lev2, top)
    BY <1>1, <1>2, <1>3, <1>5, <1>8, <1>9, <1>10, RootGrows
  <1> QED BY <1>4, <1>11, Landed
=============================================================================
