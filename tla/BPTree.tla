------------------------------- MODULE BPTree -------------------------------
(***************************************************************************)
(* The B+ tree of MiniDB (storage/bptree.c) under its latch protocol:      *)
(* searches and scans go down with read latches hand over hand, insertions *)
(* and deletions with write latches that they give up above a safe node;   *)
(* leaves split, borrow and merge, and so do the inner nodes up to the     *)
(* root; scans follow the chain of the leaves.                             *)
(*                                                                         *)
(* A latch is taken in one step together with the work up to the next      *)
(* latch.  The header of a neighbour leaf is read in one step and written  *)
(* back in a later one, because the code does both without its latch.      *)
(* parent_page_id and prev_leaf_page_id are left out: the code writes them *)
(* and never follows them.  Entries are their keys; the row_ref of a key   *)
(* moves with it.                                                          *)
(***************************************************************************)
EXTENDS Integers, FiniteSets, SequencesExt

CONSTANTS
  Threads,
  Pages,         \* the pages the tree may use; 0 is no page
  MaxLeaf,       \* max_leaf_keys
  MaxInternal,   \* max_internal_keys
  AnyPage,       \* whether pager_alloc_page may return any free page, or the
                 \* least one: fewer trees that differ by their numbers only
  Workload,      \* Workload[t]: the requests thread t may make
  InitTree       \* the tree at the start: node, root and free

Requests == [op : {"none", "search", "insert", "delete", "scan"}, low : Nat, high : Nat]
PageNo == Pages \cup {0}

ASSUME BPTreeAssumption ==
  /\ Threads # {}
  /\ Pages \subseteq Nat \ {0} /\ IsFiniteSet(Pages)
  /\ MaxLeaf \in Nat /\ MaxLeaf >= 2
  /\ MaxInternal \in Nat /\ MaxInternal >= 2
  /\ AnyPage \in BOOLEAN
  /\ \A t \in Threads : \A r \in Workload[t] : r \in Requests /\ r.op # "none"

MinLeaf == MaxLeaf \div 2
MinInternal == MaxInternal \div 2

VARIABLES
  node,   \* the pages
  root,   \* header.root_index_page_id
  free,   \* the pages that are not allocated
  th,     \* the local state of the threads
  seen    \* history: what a scan must and may return

vars == <<node, root, free, th, seen>>

\* ent has all the slots of a leaf.  The code leaves a former entry in a slot
\* past key_count, here it is 0: no thread that goes by key_count reads it.
Zeros(n) == [i \in 1..n |-> 0]
Leaf(ks, nx) ==
  [type |-> "leaf", count |-> Len(ks), next |-> nx, child |-> << >>,
   ent |-> ks \o Zeros(MaxLeaf - Len(ks))]
Internal(ks, cs) ==
  [type |-> "internal", count |-> Len(ks), next |-> 0, child |-> cs, ent |-> ks]
FreePage == [Leaf(<< >>, 0) EXCEPT !.type = "free"]

Keys(p) == SubSeq(node[p].ent, 1, node[p].count)

\* A leaf whose entries become ks.
WithKeys(n, ks) ==
  [n EXCEPT !.count = Len(ks), !.ent = ks \o Zeros(MaxLeaf - Len(ks))]

\* leaf_find and internal_find, counted from 1.
leaf_find(p, k) == Cardinality({i \in 1..node[p].count : node[p].ent[i] < k}) + 1
internal_find(p, k) ==
  Cardinality({i \in 1..node[p].count : node[p].ent[i] <= k}) + 1
ChildFor(p, k) == node[p].child[internal_find(p, k)]
HasKey(p, k) == k \in ToSet(Keys(p))

\* What pager_alloc_page may return: the pager promises a page not in use.
Allocatable ==
  IF AnyPage THEN free ELSE {p \in free : \A q \in free : p <= q}

NoRequest == [op |-> "none", low |-> 0, high |-> 0]
NoHeader == [page |-> 0, count |-> 0, next |-> 0]
Idle ==
  [pc |-> "idle", request |-> NoRequest, want |-> 0, held |-> << >>, level |-> 0,
   sep |-> 0, right |-> 0, left |-> << >>, gone |-> 0, header |-> NoHeader,
   got |-> << >>, result |-> "none"]

-----------------------------------------------------------------------------
\* Latches: held is the latch_stack_t of a writer, or the one page of a reader.
Writer(t) == th[t].request.op \in {"insert", "delete"}
HeldBy(u, p) == p \in ToSet(th[u].held)
CanLatch(t, p) ==
  \A u \in Threads : HeldBy(u, p) => ~Writer(u) /\ ~Writer(t)

MaxOf(p) == IF node[p].type = "leaf" THEN MaxLeaf ELSE MaxInternal
MinOf(p) == IF node[p].type = "leaf" THEN MinLeaf ELSE MinInternal
\* Mutant: one key more than there is room for.
HasRoom_OffByOne(p) == node[p].count <= MaxOf(p)
HasRoom(p) == node[p].count < MaxOf(p)

\* Mutant: a full node is safe for an insertion.
Safe_Full(t, p) ==
  IF th[t].request.op = "insert" THEN node[p].count <= MaxOf(p)
                                 ELSE node[p].count > MinOf(p)
\* The safe node test of find_leaf_wlatch.
Safe(t, p) ==
  IF th[t].request.op = "insert" THEN HasRoom(p) ELSE node[p].count > MinOf(p)

\* The thread holds the latches of held, the last of which is on p.
Reached(t, p, held) ==
  IF node[p].type = "internal"
  THEN [th[t] EXCEPT !.pc = "child", !.held = held,
                     !.want = ChildFor(p, th[t].request.low)]
  ELSE [th[t] EXCEPT !.pc = "leaf", !.held = held, !.want = 0]

\* The latches are released; the call is about to return.
Done(t, res) ==
  [Idle EXCEPT !.pc = "return", !.request = th[t].request,
               !.got = th[t].got, !.result = res]

\* memcpy of the header of the neighbour page p.
HeaderOf(p) ==
  IF p = 0 THEN NoHeader
  ELSE [page |-> p, count |-> node[p].count, next |-> node[p].next]

\* memcpy back, with a new prev_leaf_page_id and the rest as it was read.
HeaderWritten(nd, h) ==
  IF h.page = 0 THEN nd
  ELSE [nd EXCEPT ![h.page].count = h.count, ![h.page].next = h.next]

-----------------------------------------------------------------------------
Call(t) ==
  /\ th[t].pc = "idle"
  /\ \E r \in Workload[t] :
       th' = [th EXCEPT ![t] = [Idle EXCEPT !.pc = "root", !.request = r, !.want = root]]
  /\ UNCHANGED <<node, root, free>>

\* Mutants: the root is not tested again; it is not read again.
LatchRoot_NoRetry(t) ==
  /\ th[t].pc = "root"
  /\ CanLatch(t, th[t].want)
  /\ th' = [th EXCEPT ![t] = Reached(t, th[t].want, <<th[t].want>>)]
  /\ UNCHANGED <<node, root, free>>
LatchRoot_StaleRetry(t) ==
  /\ th[t].pc = "root"
  /\ CanLatch(t, th[t].want)
  /\ th[t].want = root
  /\ th' = [th EXCEPT ![t] = Reached(t, th[t].want, <<th[t].want>>)]
  /\ UNCHANGED <<node, root, free>>
\* The root may have changed while the thread waited: then it starts again.
LatchRoot(t) ==
  LET p == th[t].want IN
  /\ th[t].pc = "root"
  /\ CanLatch(t, p)
  /\ th' = [th EXCEPT ![t] =
              IF p # root THEN [th[t] EXCEPT !.want = root] ELSE Reached(t, p, <<p>>)]
  /\ UNCHANGED <<node, root, free>>

LatchChild(t) ==
  LET p == th[t].want IN
  /\ th[t].pc = "child"
  /\ CanLatch(t, p)
  /\ th' = [th EXCEPT ![t] =
              Reached(t, p, IF Writer(t) /\ ~Safe(t, p) THEN Append(th[t].held, p)
                                                        ELSE <<p>>)]
  /\ UNCHANGED <<node, root, free>>

At(t, op) == th[t].pc = "leaf" /\ th[t].request.op = op
LeafOf(t) == Last(th[t].held)
Key(t) == th[t].request.low
Presence(t) == IF HasKey(LeafOf(t), Key(t)) THEN "found" ELSE "missing"

bptree_search(t) ==
  /\ At(t, "search")
  /\ th' = [th EXCEPT ![t] = Done(t, Presence(t))]
  /\ UNCHANGED <<node, root, free>>

-----------------------------------------------------------------------------
\* Mutant: the leaf is released before the next one is latched.
Onward_Releases(read, p) ==
  [read EXCEPT !.pc = "next", !.want = node[p].next, !.held = << >>]
\* The scan of leaf p goes on to the next leaf and still holds p.
Onward(read, p) == [read EXCEPT !.pc = "next", !.want = node[p].next]

\* bptree_range_scan: the keys of a leaf up to the upper bound; the lower
\* bound is looked for in the first leaf only.
ScanLeaf(t) ==
  LET p == LeafOf(t)
      r == th[t].request
      first == IF th[t].pc = "leaf" THEN leaf_find(p, r.low) ELSE 1
      over == {i \in first..node[p].count : node[p].ent[i] > r.high}
      last == IF over = {} THEN node[p].count ELSE (CHOOSE i \in over :
                                                      \A j \in over : i <= j) - 1
      read == [th[t] EXCEPT !.got = @ \o SubSeq(node[p].ent, first, last)]
  IN /\ th[t].pc \in {"leaf", "more"} /\ r.op = "scan"
     /\ th' = [th EXCEPT ![t] =
                 IF over # {} \/ node[p].next = 0
                 THEN [Done(t, "none") EXCEPT !.got = read.got]
                 ELSE Onward(read, p)]
     /\ UNCHANGED <<node, root, free>>

\* The next leaf is latched before this one is released.
LatchNext(t) ==
  /\ th[t].pc = "next"
  /\ CanLatch(t, th[t].want)
  /\ th' = [th EXCEPT ![t] = [th[t] EXCEPT !.pc = "more", !.held = <<th[t].want>>,
                                           !.want = 0]]
  /\ UNCHANGED <<node, root, free>>

-----------------------------------------------------------------------------
\* bptree_insert at the leaf: a duplicate, room, or the first part of a split.
InsertLeaf(t) ==
  LET p == LeafOf(t)
      ks == InsertAt(Keys(p), leaf_find(p, Key(t)), Key(t))
      half == Len(ks) \div 2
  IN /\ At(t, "insert")
     /\ \/ /\ Presence(t) = "found"
           /\ th' = [th EXCEPT ![t] = Done(t, "found")]
           /\ UNCHANGED <<node, free>>
        \/ /\ Presence(t) = "missing"
           /\ HasRoom(p)
           /\ node' = [node EXCEPT ![p] = WithKeys(@, ks)]
           /\ th' = [th EXCEPT ![t] = Done(t, "missing")]
           /\ UNCHANGED free
        \/ /\ Presence(t) = "missing"
           /\ ~HasRoom(p)
           /\ \E new \in Allocatable :
                /\ node' = [node EXCEPT ![new] =
                              Leaf(SubSeq(ks, half + 1, Len(ks)), node[p].next)]
                /\ free' = free \ {new}
                /\ th' = [th EXCEPT ![t] =
                     [th[t] EXCEPT !.pc = "split", !.sep = ks[half + 1], !.right = new,
                                   !.left = SubSeq(ks, 1, half),
                                   !.header = HeaderOf(node[p].next)]]
     /\ UNCHANGED root

\* The neighbour gets its header back, the leaf keeps the left half.
SplitLeaf(t) ==
  /\ th[t].pc = "split"
  /\ node' = [HeaderWritten(node, th[t].header) EXCEPT
                ![LeafOf(t)] = Leaf(th[t].left, th[t].right)]
  /\ th' = [th EXCEPT ![t] = [th[t] EXCEPT !.pc = "up", !.level = Len(th[t].held) - 1,
                                           !.left = << >>, !.header = NoHeader,
                                           !.result = "missing"]]
  /\ UNCHANGED <<root, free>>

\* One round of propagate_insert: room in the parent, or the parent splits too.
PropagateInsert(t) ==
  LET me == th[t]
      p == me.held[me.level]
      at == internal_find(p, me.sep)
      ks == InsertAt(node[p].ent, at, me.sep)
      cs == InsertAt(node[p].child, at + 1, me.right)
      half == Len(ks) \div 2
  IN /\ me.pc = "up" /\ me.level > 0
     /\ \/ /\ HasRoom(p)
           /\ node' = [node EXCEPT ![p] = Internal(ks, cs)]
           /\ th' = [th EXCEPT ![t] = Done(t, me.result)]
           /\ UNCHANGED free
        \/ /\ ~HasRoom(p)
           /\ \E new \in Allocatable :
                /\ node' = [node EXCEPT
                     ![p] = Internal(SubSeq(ks, 1, half), SubSeq(cs, 1, half + 1)),
                     ![new] = Internal(SubSeq(ks, half + 2, Len(ks)),
                                       SubSeq(cs, half + 2, Len(cs)))]
                /\ free' = free \ {new}
                /\ th' = [th EXCEPT ![t] =
                     [me EXCEPT !.level = @ - 1, !.sep = ks[half + 1], !.right = new]]
     /\ UNCHANGED root

\* The end of propagate_insert: a new root above the lowest page of the stack.
NewRoot(t) ==
  LET me == th[t] IN
  /\ me.pc = "up" /\ me.level = 0
  /\ \E new \in Allocatable :
       /\ node' = [node EXCEPT ![new] = Internal(<<me.sep>>, <<me.held[1], me.right>>)]
       /\ root' = new
       /\ free' = free \ {new}
  /\ th' = [th EXCEPT ![t] = Done(t, me.result)]

-----------------------------------------------------------------------------
\* The node of level n of the stack, its place under its parent, the minimum.
NodeAt(t) == th[t].held[th[t].level]
Parent(t) == th[t].held[th[t].level - 1]
Place(t) ==
  CHOOSE i \in DOMAIN node[Parent(t)].child : node[Parent(t)].child[i] = NodeAt(t)

\* Where the repair of an underflow at level n begins.
Underflow(t, n, res) ==
  [th[t] EXCEPT !.pc = "borrow_right", !.level = n, !.result = res]

\* bptree_delete at the leaf.
DeleteLeaf(t) ==
  LET p == LeafOf(t)
      depth == Len(th[t].held)
  IN /\ At(t, "delete")
     /\ IF HasKey(p, Key(t))
        THEN node' = [node EXCEPT ![p] =
                        WithKeys(@, RemoveAt(Keys(p), leaf_find(p, Key(t))))]
        ELSE UNCHANGED node
     /\ th' = [th EXCEPT ![t] =
          IF ~HasKey(p, Key(t)) \/ p = root \/ node[p].count > MinLeaf \/ depth = 1
          THEN Done(t, Presence(t))
          ELSE Underflow(t, depth, "found")]
     /\ UNCHANGED <<root, free>>

\* Mutant: the separator is the entry that moves.
SeparatorAfter_Stale(sib) == Keys(sib)[1]
\* The separator before a right sibling that gives its first entry away.
SeparatorAfter(sib) == Keys(sib)[2]

\* The first entry of the right sibling moves to the node, or nothing does.
BorrowRight(t) ==
  LET n == NodeAt(t)
      p == Parent(t)
      i == Place(t)
      sib == node[p].child[i + 1]
  IN /\ th[t].pc = "borrow_right"
     /\ i <= node[p].count => CanLatch(t, sib)
     /\ IF i <= node[p].count /\ node[sib].count > MinOf(n)
        THEN /\ node' =
                  IF node[n].type = "leaf"
                  THEN [node EXCEPT
                    ![n] = WithKeys(@, InsertAt(Keys(n), leaf_find(n, Keys(sib)[1]),
                                                Keys(sib)[1])),
                    ![sib] = WithKeys(@, Tail(Keys(sib))),
                    ![p].ent[i] = SeparatorAfter(sib)]
                  ELSE [node EXCEPT
                    ![n] = Internal(Append(@.ent, node[p].ent[i]),
                                    Append(@.child, node[sib].child[1])),
                    ![sib] = Internal(Tail(@.ent), Tail(@.child)),
                    ![p].ent[i] = node[sib].ent[1]]
             /\ th' = [th EXCEPT ![t] = Done(t, th[t].result)]
        ELSE /\ th' = [th EXCEPT ![t].pc = "borrow_left"]
             /\ UNCHANGED node
     /\ UNCHANGED <<root, free>>

BorrowLeft(t) ==
  LET n == NodeAt(t)
      p == Parent(t)
      i == Place(t)
      sib == node[p].child[i - 1]
  IN /\ th[t].pc = "borrow_left"
     /\ i > 1 => CanLatch(t, sib)
     /\ IF i > 1 /\ node[sib].count > MinOf(n)
        THEN /\ node' =
                  IF node[n].type = "leaf"
                  THEN [node EXCEPT
                    ![n] = WithKeys(@, InsertAt(Keys(n), leaf_find(n, Last(Keys(sib))),
                                                Last(Keys(sib)))),
                    ![sib] = WithKeys(@, Front(Keys(sib))),
                    ![p].ent[i - 1] = Last(Keys(sib))]
                  ELSE [node EXCEPT
                    ![n] = Internal(<<node[p].ent[i - 1]>> \o @.ent,
                                    <<Last(node[sib].child)>> \o @.child),
                    ![sib] = Internal(Front(@.ent), Front(@.child)),
                    ![p].ent[i - 1] = Last(node[sib].ent)]
             /\ th' = [th EXCEPT ![t] = Done(t, th[t].result)]
        ELSE /\ th' = [th EXCEPT ![t].pc = "merge"]
             /\ UNCHANGED node
     /\ UNCHANGED <<root, free>>

\* The right one of two siblings is emptied into the left one: the node into
\* its left sibling if it has one, else its right sibling into the node.
Merge(t) ==
  LET n == NodeAt(t)
      p == Parent(t)
      i == IF Place(t) > 1 THEN Place(t) - 1 ELSE 1
      left == node[p].child[i]
      right == node[p].child[i + 1]
      sib == IF left = n THEN right ELSE left
      leaf == node[n].type = "leaf"
  IN /\ th[t].pc = "merge"
     /\ CanLatch(t, sib)
     /\ node' = [node EXCEPT ![left] =
          IF leaf THEN [WithKeys(@, Keys(left) \o Keys(right)) EXCEPT
                          !.next = node[right].next]
          ELSE Internal(@.ent \o <<node[p].ent[i]>> \o node[right].ent,
                        @.child \o node[right].child)]
     /\ th' = [th EXCEPT ![t] = [th[t] EXCEPT
          !.pc = "unlink", !.gone = right,
          !.header = IF leaf THEN HeaderOf(node[right].next) ELSE NoHeader]]
     /\ UNCHANGED <<root, free>>

\* The neighbour gets its header back; the separator leaves the parent and the
\* emptied page is freed.
Unlink(t) ==
  LET me == th[t]
      p == Parent(t)
      i == CHOOSE j \in DOMAIN node[p].child : node[p].child[j] = me.gone
  IN /\ me.pc = "unlink"
     /\ node' = [HeaderWritten(node, me.header) EXCEPT
                   ![p] = Internal(RemoveAt(@.ent, i - 1), RemoveAt(@.child, i)),
                   ![me.gone] = FreePage]
     /\ free' = free \cup {me.gone}
     /\ th' = [th EXCEPT ![t] = [me EXCEPT !.pc = "parent", !.level = @ - 1, !.gone = 0,
                                           !.header = NoHeader]]
     /\ UNCHANGED root

\* Mutant: the page of the former root is not freed.
ShrinkRoot_Leaks(t) ==
  /\ root' = node[root].child[1]
  /\ th' = [th EXCEPT ![t] = Done(t, th[t].result)]
  /\ UNCHANGED <<node, free>>
\* propagate_delete: a root without keys gives way to its only child.
ShrinkRoot(t) ==
  /\ root' = node[root].child[1]
  /\ node' = [node EXCEPT ![root] = FreePage]
  /\ free' = free \cup {root}
  /\ th' = [th EXCEPT ![t] = Done(t, th[t].result)]

\* propagate_delete: the root shrinks, the node has enough keys, or it is
\* repaired in its turn.
propagate_delete(t) ==
  LET n == NodeAt(t) IN
  /\ th[t].pc = "parent"
  /\ \/ n = root /\ node[n].count = 0 /\ ShrinkRoot(t)
     \/ /\ n # root \/ node[n].count > 0
        /\ th' = [th EXCEPT ![t] =
             IF n = root \/ node[n].count >= MinInternal \/ th[t].level = 1
             THEN Done(t, th[t].result)
             ELSE Underflow(t, th[t].level, th[t].result)]
        /\ UNCHANGED <<node, root, free>>

Return(t) ==
  /\ th[t].pc = "return"
  /\ th' = [th EXCEPT ![t] = Idle]
  /\ UNCHANGED <<node, root, free>>

Step(t) ==
  \/ LatchRoot(t) \/ LatchChild(t)
  \/ bptree_search(t)
  \/ ScanLeaf(t) \/ LatchNext(t)
  \/ InsertLeaf(t) \/ SplitLeaf(t) \/ PropagateInsert(t) \/ NewRoot(t)
  \/ DeleteLeaf(t) \/ BorrowRight(t) \/ BorrowLeft(t) \/ Merge(t) \/ Unlink(t)
  \/ propagate_delete(t)
  \/ Return(t)

-----------------------------------------------------------------------------
\* The leaves in the order of their chain, from the leftmost one.
Leftmost ==
  LET down(p) == IF node[p].type = "internal" THEN node[p].child[1] ELSE p
      f[n \in 0..Cardinality(Pages)] == IF n = 0 THEN root ELSE down(f[n - 1])
  IN f[Cardinality(Pages)]
Chain ==
  LET on(s) == LET nx == node[Last(s)].next IN IF nx = 0 THEN s ELSE Append(s, nx)
      f[n \in 0..Cardinality(Pages)] == IF n = 0 THEN <<Leftmost>> ELSE on(f[n - 1])
  IN f[Cardinality(Pages)]

\* The keys of the index: those of the leaves, but for a right half that is not
\* yet linked to its left half.
Linked ==
  {p \in Pages : node[p].type = "leaf"
                   /\ \A t \in Threads : th[t].pc = "split" => th[t].right # p}
Contents == UNION {ToSet(Keys(p)) : p \in Linked}

\* While a scan runs: the keys that were there all the time, and at some time.
Observed(t) ==
  IF th'[t].request.op # "scan" THEN [must |-> {}, may |-> {}]
  ELSE IF th[t].pc = "idle" THEN [must |-> Contents', may |-> Contents']
  ELSE [must |-> seen[t].must \cap Contents', may |-> seen[t].may \cup Contents']

Init ==
  /\ node = InitTree.node
  /\ root = InitTree.root
  /\ free = InitTree.free
  /\ th = [t \in Threads |-> Idle]
  /\ seen = [t \in Threads |-> [must |-> {}, may |-> {}]]

Next ==
  \E t \in Threads :
    /\ Call(t) \/ Step(t)
    /\ seen' = [u \in Threads |-> Observed(u)]

Spec == Init /\ [][Next]_vars

\* A thread that can take its next step again and again takes it: it is
\* scheduled, and a latch that keeps becoming free is granted to it.
Fairness == \A t \in Threads : SF_vars(Step(t) /\ seen' = [u \in Threads |-> Observed(u)])

FairSpec == Spec /\ Fairness
-----------------------------------------------------------------------------
NodeType ==
  [type : {"leaf", "internal", "free"}, count : Nat, next : PageNo,
   child : Seq(Pages), ent : Seq(Nat)]

\* Every variable has its type, and no page holds more keys than it has room.
TypeOK ==
  /\ node \in [Pages -> NodeType]
  /\ \A p \in Pages :
       node[p].count <= IF node[p].type = "internal" THEN MaxInternal ELSE MaxLeaf
  /\ root \in Pages
  /\ free \subseteq Pages
  /\ \A t \in Threads :
       /\ th[t].request \in Requests
       /\ th[t].want \in PageNo
       /\ th[t].held \in Seq(Pages)
       /\ th[t].got \in Seq(Nat)
       /\ th[t].result \in {"none", "found", "missing"}

\* No thread is between the steps of a split, a borrow or a merge.
Settled ==
  \A t \in Threads : th[t].pc \in {"idle", "root", "child", "leaf", "next", "more", "return"}

\* Levels[n]: the pages n steps below the root.
Levels ==
  LET f[n \in 0..Cardinality(Pages)] ==
        IF n = 0 THEN {root} ELSE UNION {ToSet(node[p].child) : p \in f[n - 1]}
  IN f

\* Between the operations the leaves are all at one depth, every page but the
\* root is at least half full, and the leaves below the root are, from left to
\* right, the chain that scans follow, with ascending keys (the repairs of
\* propagate_insert, fix_leaf_underflow_latched and
\* fix_internal_underflow_latched together).
Balanced ==
  Settled =>
    LET chain == Chain
        ks == FlattenSeq([i \in DOMAIN chain |-> Keys(chain[i])])
    IN /\ \A n \in DOMAIN Levels :
            LET level == Levels[n] IN
            \A p, q \in level :
              /\ node[p].type = node[q].type /\ node[p].type # "free"
              /\ p # root => node[p].count >= MinOf(p)
              /\ node[p].type = "leaf" => level = ToSet(chain)
       /\ \A i \in 2..Len(ks) : ks[i - 1] < ks[i]

\* Between the operations every page is in the tree or free, not both: no
\* split, merge or change of the root leaks a page or frees one that is used
\* (pager_alloc_page and pager_free_page as bptree.c calls them).
PagesAccounted ==
  Settled =>
    LET tree == UNION {Levels[n] : n \in DOMAIN Levels} IN
    /\ tree \cap free = {} /\ tree \cup free = Pages

\* A thread never reads a page that was freed while it waited for its latch,
\* at the root or below it or along the chain (the test of root_id after the
\* latch, the latch of the child before the release of the parent).
NoFreedPageRead ==
  \A t \in Threads :
    th[t].pc \in {"child", "leaf", "more"} =>
      \A p \in ToSet(th[t].held) : node[p].type # "free"

\* A scan returns keys in ascending order, all those that were in its range
\* from its call to its return and none that never was, whatever splits and
\* merges go on beside it (bptree_range_scan).
ScanSound ==
  \A t \in Threads :
    th[t].pc = "return" /\ th[t].request.op = "scan" =>
      LET r == th[t].request
          got == th[t].got
      IN /\ \A i \in 2..Len(got) : got[i - 1] < got[i]
         /\ {k \in seen[t].must : r.low <= k /\ k <= r.high} \subseteq ToSet(got)
         /\ ToSet(got) \subseteq {k \in seen[t].may : r.low <= k /\ k <= r.high}

\* Searches, insertions and deletions are those of a set of keys, each at one
\* instant within its call.
Index == INSTANCE KeySet WITH
  keys <- Contents,
  request <- [t \in Threads |-> th[t].request],
  result <- [t \in Threads |-> th[t].result]

ImplementsKeySet == Index!Spec

\* Every call returns, nobody waits for a latch for ever (the order in which
\* bptree.c takes them), unless the root keeps changing: find_leaf_rlatch and
\* find_leaf_wlatch start again each time that happens before their latch.
CallsReturn ==
  \/ \A t \in Threads : th[t].pc # "idle" ~> th[t].pc = "idle"
  \/ []<><<root' # root>>_vars
=============================================================================
