---------------------------- MODULE BPTreeProofs ----------------------------
(***************************************************************************)
(* Theorems about BPTree for as long as no two insertions or deletions     *)
(* hold latches of the tree at once (Apart).  The code does not keep them  *)
(* apart - statements that insert and delete share the engine lock - and   *)
(* the header of a neighbour, which split and merge write back under a pin *)
(* alone (bptree.c:1205), is what the theorems would otherwise fail at.    *)
(* The steps of a deletion keep the invariant of BPTreeInvariant, as those *)
(* of readers and of an insertion do, and the theorems follow from it.     *)
(***************************************************************************)
EXTENDS BPTreeInvariant
USE DEF PageNo

-----------------------------------------------------------------------------
(* Deletion.                                                               *)
LEMMA CalmShaped ==
  ASSUME NEW N, NEW r, NEW F, NEW l, l.pc \notin Midway,
         NEW T, NEW v, NEW lo, NEW hi, NEW lev, NEW top, Calm(N, r, F, T, v, lo, hi, lev, top)
  PROVE  Shaped(N, r, F, l, T, v, lo, hi, lev, top)
PROOF
  <1>1. l.pc # "split" /\ l.pc # "unlink" /\ l.pc # "up" BY DEF Midway
  <1>2. Loose(l) = {} /\ ~Orphan(l) /\ ~Growing(l) BY <1>1 DEF Loose, Orphan, Growing
  <1>3. \A p \in T : View(N, l, p) = Plain(N[p]) BY <1>1, <1>2, PlainView
  <1>4. T = (Pages \ F) \ Loose(l) BY <1>2 DEF Calm
  <1>5. \A p \in T : /\ v[p] = View(N, l, p)
                     /\ N[p].type = IF lev[p] = 0 THEN "leaf" ELSE "internal"
    BY <1>3 DEF Calm
  <1>6. hi[r] = IF Orphan(l) THEN l.sep ELSE top BY <1>2 DEF Calm
  <1>7. Tree(T, v, lo, hi, lev, lev[r], top) /\ r \in T /\ lo[r] = 0 BY DEF Calm
  <1> QED BY <1>4, <1>5, <1>6, <1>7 DEF Shaped

\* What the writer owes the tree while it repairs an underflow.
LEMMA MendingOnly ==
  ASSUME NEW N, NEW r, NEW l, NEW T, NEW lo, NEW hi, NEW lev, NEW top,
         l.pc \in Repairing, Mending(N, r, l, T, lev)
  PROVE  Writing(N, r, l, T, lo, hi, lev, top)
PROOF
  <1>1. /\ l.pc # "split" /\ l.pc # "up" /\ l.pc \notin {"child", "leaf"}
        /\ l.pc # "unlink" /\ l.pc # "parent"
    BY DEF Repairing
  <1>2. Descending(N, r, l, T, lev) BY <1>1 DEF Descending
  <1>3. Splitting(N, r, l, T, lo, hi, lev) BY <1>1 DEF Splitting
  <1>4. Rising(N, r, l, T, lo, hi, lev, top) BY <1>1 DEF Rising
  <1>6. Unlinking(N, r, l, T, lev) BY <1>1 DEF Unlinking
  <1>7. Settling(N, r, l, T, lev) BY <1>1 DEF Settling
  <1> QED BY <1>2, <1>3, <1>4, <1>6, <1>7 DEF Writing

LEMMA UnlinkingOnly ==
  ASSUME NEW N, NEW r, NEW l, NEW T, NEW lo, NEW hi, NEW lev, NEW top,
         l.pc = "unlink", Unlinking(N, r, l, T, lev)
  PROVE  Writing(N, r, l, T, lo, hi, lev, top)
PROOF
  <1>1. /\ l.pc # "split" /\ l.pc # "up" /\ l.pc \notin {"child", "leaf"}
        /\ l.pc \notin Repairing /\ l.pc # "parent"
    BY DEF Repairing
  <1>2. Descending(N, r, l, T, lev) BY <1>1 DEF Descending
  <1>3. Splitting(N, r, l, T, lo, hi, lev) BY <1>1 DEF Splitting
  <1>4. Rising(N, r, l, T, lo, hi, lev, top) BY <1>1, Zenon DEF Rising
  <1>6. Mending(N, r, l, T, lev) BY <1>1 DEF Mending
  <1>7. Settling(N, r, l, T, lev) BY <1>1 DEF Settling
  <1> QED BY <1>2, <1>3, <1>4, <1>6, <1>7 DEF Writing

LEMMA SettlingOnly ==
  ASSUME NEW N, NEW r, NEW l, NEW T, NEW lo, NEW hi, NEW lev, NEW top,
         l.pc = "parent", Settling(N, r, l, T, lev)
  PROVE  Writing(N, r, l, T, lo, hi, lev, top)
PROOF
  <1>1. /\ l.pc # "split" /\ l.pc # "up" /\ l.pc \notin {"child", "leaf"}
        /\ l.pc \notin Repairing /\ l.pc # "unlink"
    BY DEF Repairing
  <1>2. Descending(N, r, l, T, lev) BY <1>1 DEF Descending
  <1>3. Splitting(N, r, l, T, lo, hi, lev) BY <1>1 DEF Splitting
  <1>4. Rising(N, r, l, T, lo, hi, lev, top) BY <1>1, Zenon DEF Rising
  <1>6. Mending(N, r, l, T, lev) BY <1>1 DEF Mending
  <1>7. Unlinking(N, r, l, T, lev) BY <1>1 DEF Unlinking
  <1> QED BY <1>2, <1>3, <1>4, <1>6, <1>7 DEF Writing

\* The keys of leaf n without k.
Taken(n, k) == RemoveAt(SubSeq(n.ent, 1, n.count), Below(n, k))

\* The leaf p that the writer has come to, with a key less.
Lost(wr, N, r, F, H, l, T, v, lo, hi, lev, top, p, ks, N2) ==
  /\ Rewritten(wr, N, r, F, H, T, lo, hi, lev, top, p, ks, N2)
  /\ Reach(wr, N, r, F, H, l, p, T, v, lo, hi, lev, top)
  /\ Len(ks) + 1 = N[p].count /\ N[p].count \in Nat
  /\ \A q \in T : IF q = r THEN N[q].type = "internal" => N[q].count >= 1
                  ELSE N[q].count >= Fewest(N[q])

LEMMA LeafLoses ==
  ASSUME NEW wr \in Threads, NEW N, NEW r, NEW F, NEW H, NEW T, NEW v, NEW lo, NEW hi, NEW lev,
         NEW top, Whole(wr, N, r, F, H, T, v, lo, hi, lev, top), NEW l, l = H[wr],
         l.pc = "leaf", l.request.op = "delete", NEW p, p = Here(l),
         Has(N[p], l.request.low), NEW ks,
         ks = Taken(N[p], l.request.low), NEW N2, Rewrites(N, p, ks, N2)
  PROVE  Lost(wr, N, r, F, H, l, T, v, lo, hi, lev, top, p, ks, N2)
PROOF
  <1>1. Writes(l) BY DEF Writes
  <1>2. Reach(wr, N, r, F, H, l, p, T, v, lo, hi, lev, top) BY <1>1, ReachIs
  <1>3. /\ Nodes(N, r, F) /\ Shaped(N, r, F, l, T, v, lo, hi, lev, top)
        /\ Filled(N, r, l, T) /\ l.request.low \in Nat
    BY WriterKnows
  <1>4. Calm(N, r, F, T, v, lo, hi, lev, top)
    <2>1. l.pc \notin Midway BY DEF Midway
    <2> QED BY <2>1, <1>3, CalmIs
  <1>5. /\ N[p] \in NodeType /\ IsNode(N[p]) /\ N[p].count \in Nat /\ N[p].type = "leaf"
        /\ InRange(SubSeq(N[p].ent, 1, N[p].count), lo[p], hi[p])
        /\ Len(SubSeq(N[p].ent, 1, N[p].count)) = N[p].count /\ N[p].count <= MaxLeaf
    BY <1>2, Zenon DEF Reach, Page
  <1>6. PICK old : old = SubSeq(N[p].ent, 1, N[p].count) OBVIOUS
  <1>7. PICK c \in Nat, n \in NodeType, k \in Nat : c = N[p].count /\ n = N[p] /\ k = l.request.low
    BY <1>3, <1>5
  <1>8. PICK a \in 1..Len(old) : a = Below(n, k)
    <2>1. Below(n, k) \in 1..n.count
      <3>1. IsNode(n) /\ InRange(old, lo[p], hi[p]) /\ old = SubSeq(n.ent, 1, n.count)
            /\ k \in ToSet(old)
        BY <1>5, <1>6, <1>7 DEF Has
      <3> QED BY <3>1, LeafHas
    <2> QED BY <2>1, <1>5, <1>6, <1>7
  <1>9. ks = RemoveAt(old, a) BY <1>6, <1>7, <1>8 DEF Taken
  <1>10. InRange(ks, lo[p], hi[p]) /\ Len(ks) = Len(old) - 1
    <2>1. InRange(old, lo[p], hi[p]) BY <1>5, <1>6, Zenon
    <2>2. /\ InRange(RemoveAt(old, a), lo[p], hi[p])
          /\ Len(RemoveAt(old, a)) = Len(old) - 1
      BY <2>1, RemoveInRange, Zenon
    <2> QED BY <2>2, <1>9, Zenon
  <1>11. Len(old) = c BY <1>5, <1>6, <1>7
  <1>12. Len(ks) + 1 = c /\ Len(ks) <= MaxLeaf BY <1>5, <1>7, <1>10, <1>11, Sizes
  <1>13. Rewritten(wr, N, r, F, H, T, lo, hi, lev, top, p, ks, N2)
    BY <1>2, <1>3, <1>4, <1>10, <1>12, LeafWritten
  <1>14. \A q \in T : IF q = r THEN N[q].type = "internal" => N[q].count >= 1
                      ELSE N[q].count >= Fewest(N[q])
    <2>1. \A q : ~Weak(l, q) BY DEF Weak, Repairing
    <2> QED BY <2>1, <1>3 DEF Filled
  <1>15. Len(ks) + 1 = N[p].count BY <1>7, <1>12, Zenon
  <1> QED BY <1>2, <1>5, <1>13, <1>14, <1>15, Zenon DEF Lost

LEMMA DeleteLeafSafe ==
  ASSUME NEW wr \in Threads, NEW N, NEW r, NEW F, NEW H, NEW T, NEW v, NEW lo, NEW hi, NEW lev,
         NEW top, Whole(wr, N, r, F, H, T, v, lo, hi, lev, top), NEW l, l = H[wr],
         l.pc = "leaf", l.request.op = "delete", NEW p, p = Here(l),
         Has(N[p], l.request.low), p = r \/ N[p].count > MinLeaf, NEW ks,
         ks = Taken(N[p], l.request.low), NEW N2, Rewrites(N, p, ks, N2),
         NEW d, Ended(d, l, l.got, "found"), NEW H2, Moves(H, wr, d, H2)
  PROVE  \E v2 : Whole(wr, N2, r, F, H2, T, v2, lo, hi, lev, top)
PROOF
  <1>1. /\ Rewritten(wr, N, r, F, H, T, lo, hi, lev, top, p, ks, N2)
        /\ Len(ks) + 1 = N[p].count /\ N[p].count \in Nat
        /\ \A q \in T : IF q = r THEN N[q].type = "internal" => N[q].count >= 1
                        ELSE N[q].count >= Fewest(N[q])
    <2>1. Lost(wr, N, r, F, H, l, T, v, lo, hi, lev, top, p, ks, N2) BY LeafLoses, Zenon
    <2> QED BY <2>1, Zenon DEF Lost
  <1>2. /\ Nodes(N2, r, F) /\ Undisturbed(wr, N, H, T, lo, hi, N2, T, lo, hi)
        /\ N2[p].count = Len(ks) /\ N2[p].type = "leaf"
        /\ \A q \in Pages : q # p => N2[q] = N[q]
    BY <1>1 DEF Rewritten
  <1>3. PICK v2 : Calm(N2, r, F, T, v2, lo, hi, lev, top) BY <1>1 DEF Rewritten
  <1>4. Fit(N2, r, T)
    <2>1. SUFFICES ASSUME NEW q \in T
                   PROVE  IF q = r THEN N2[q].type = "internal" => N2[q].count >= 1
                          ELSE N2[q].count >= Fewest(N2[q])
      BY DEF Fit
    <2>2. CASE q = p
      <3>1. CASE q = r BY <3>1, <2>2, <1>2
      <3>2. CASE q # r
        <4>1. PICK c \in Nat, m \in Nat : c = N[p].count /\ m = Len(ks) /\ m + 1 = c
          <5>1. Len(ks) \in Nat
            <6>1. Nodes(N2, r, F) /\ p \in Pages BY <2>2, <1>2, <1>3 DEF Calm
            <6>2. N2[p] \in NodeType BY <6>1 DEF Nodes
            <6> QED BY <6>2, <1>2 DEF NodeType
          <5> QED BY <5>1, <1>1
        <4>2. c > MinLeaf BY <3>2, <2>2, <4>1
        <4>3. m >= MinLeaf BY <4>1, <4>2, Sizes
        <4> QED BY <3>2, <2>2, <4>1, <4>3, <1>2 DEF Fewest
      <3> QED BY <3>1, <3>2
    <2>3. CASE q # p
      <3>1. q \in Pages BY <1>3 DEF Calm
      <3>2. N2[q] = N[q] BY <3>1, <2>3, <1>2
      <3> QED BY <3>2, <1>1
    <2> QED BY <2>2, <2>3
  <1>5. Rests(N2, r, F, T, v2, lo, hi, lev, top) BY <1>3, <1>4 DEF Rests
  <1>6. H[wr].pc # "idle" /\ Ended(d, H[wr], H[wr].got, "found") OBVIOUS
  <1>7. Whole(wr, N2, r, F, H2, T, v2, lo, hi, lev, top)
    BY <1>2, <1>5, <1>6, DoneStep
  <1> QED BY <1>7

\* Where the repair begins.
Underflows(l, n, res, l2) ==
  l2 = [l EXCEPT !.pc = "borrow_right", !.level = n, !.result = res]

LEMMA UnderflowIs ==
  ASSUME NEW l \in Locals, NEW n \in Nat, NEW res \in {"none", "found", "missing"},
         NEW l2, Underflows(l, n, res, l2)
  PROVE  /\ l2 \in Locals /\ l2.pc = "borrow_right" /\ l2.level = n /\ l2.held = l.held
         /\ l2.request = l.request
PROOF
  <1>1. l2 = [l EXCEPT !.pc = "borrow_right", !.level = n, !.result = res] BY DEF Underflows
  <1>2. "borrow_right" \in Pcs BY DEF Pcs, Repairing
  <1> QED BY <1>1, <1>2 DEF Locals

LEMMA DeleteLeafWeak ==
  ASSUME NEW wr \in Threads, NEW N, NEW r, NEW F, NEW H, NEW T, NEW v, NEW lo, NEW hi, NEW lev,
         NEW top, Whole(wr, N, r, F, H, T, v, lo, hi, lev, top), NEW l, l = H[wr],
         l.pc = "leaf", l.request.op = "delete", NEW p, p = Here(l),
         Has(N[p], l.request.low), p # r, ~(N[p].count > MinLeaf), NEW ks,
         ks = Taken(N[p], l.request.low), NEW N2, Rewrites(N, p, ks, N2),
         Len(l.held) # 1, NEW l2, Underflows(l, Len(l.held), "found", l2),
         NEW H2, Moves(H, wr, l2, H2)
  PROVE  \E v2 : Whole(wr, N2, r, F, H2, T, v2, lo, hi, lev, top)
PROOF
  <1>1. /\ Rewritten(wr, N, r, F, H, T, lo, hi, lev, top, p, ks, N2)
        /\ Reach(wr, N, r, F, H, l, p, T, v, lo, hi, lev, top)
        /\ Len(ks) + 1 = N[p].count /\ N[p].count \in Nat
        /\ \A q \in T : IF q = r THEN N[q].type = "internal" => N[q].count >= 1
                        ELSE N[q].count >= Fewest(N[q])
    <2>1. Lost(wr, N, r, F, H, l, T, v, lo, hi, lev, top, p, ks, N2) BY LeafLoses, Zenon
    <2> QED BY <2>1, Zenon DEF Lost
  <1>2. /\ Nodes(N2, r, F) /\ Undisturbed(wr, N, H, T, lo, hi, N2, T, lo, hi)
        /\ N2[p].count = Len(ks) /\ N2[p].type = "leaf"
        /\ \A q \in Pages : q # p => N2[q] = N[q]
    BY <1>1 DEF Rewritten
  <1>3. PICK v2 : Calm(N2, r, F, T, v2, lo, hi, lev, top) BY <1>1 DEF Rewritten
  <1>4. l \in Locals BY WriterKnows
  <1>5. PICK m \in Nat : m = Len(l.held) /\ m >= 1 /\ m # 1 BY <1>1, Zenon DEF Reach
  <1>6. /\ l2 \in Locals /\ l2.pc = "borrow_right" /\ l2.level = m /\ l2.held = l.held
        /\ l2.request = l.request
    BY <1>4, <1>5, UnderflowIs
  <1>7. /\ p \in T /\ p \in Pages /\ N[p].type = "leaf" /\ p = l.held[m]
        /\ Stacked(N, l, m, T, lev) /\ Path(l, m, T, lev) /\ Ready(N, r, l)
    BY <1>1, <1>5, Zenon DEF Reach
  <1>8. N2[p].count + 1 = N[p].count /\ N2[p].count \in Nat
    <2>1. N2[p] \in NodeType BY <1>2, <1>7 DEF Nodes
    <2> QED BY <2>1, <1>1, <1>2 DEF NodeType
  <1>9. N[p].count >= MinLeaf BY <1>1, <1>7 DEF Fewest
  <1>10. Shaped(N2, r, F, l2, T, v2, lo, hi, lev, top)
    <2>1. l2.pc \notin Midway BY <1>6 DEF Midway
    <2> QED BY <2>1, <1>3, CalmShaped
  <1>11. Filled(N2, r, l2, T)
    <2>1. SUFFICES ASSUME NEW q \in T
                   PROVE  IF q = r THEN N2[q].type = "internal" /\ ~Weak(l2, q)
                                          => N2[q].count >= 1
                          ELSE IF Weak(l2, q) THEN N2[q].count + 1 >= Fewest(N2[q])
                          ELSE N2[q].count >= Fewest(N2[q])
      BY DEF Filled
    <2>2. CASE q = p
      <3>1. Weak(l2, q) BY <2>2, <1>6, <1>7 DEF Weak, Repairing
      <3>2. N2[q].count + 1 >= Fewest(N2[q]) BY <2>2, <1>2, <1>8, <1>9 DEF Fewest
      <3> QED BY <3>1, <3>2, <2>2
    <2>3. CASE q # p
      <3>1. q \in Pages BY <1>3 DEF Calm
      <3>2. N2[q] = N[q] BY <3>1, <2>3, <1>2
      <3>3. ~Weak(l2, q) BY <2>3, <1>6, <1>7 DEF Weak
      <3> QED BY <3>2, <3>3, <1>1
    <2> QED BY <2>2, <2>3
  <1>12. Untouched(N, l, m, N2, T, lev, lev)
    <2>1. \A i \in 1..m : l.held[i] \in T BY <1>7 DEF Path
    <2>2. ASSUME NEW i \in 1..(m - 1) PROVE N2[l.held[i]] = N[l.held[i]]
      <3>1. i \in 1..m /\ m \in 1..m /\ i < m BY <1>5
      <3>2. l.held[i] # p BY <3>1, <1>7, SMTT(30) DEF Path
      <3>3. l.held[i] \in Pages BY <3>1, <2>1, <1>3 DEF Calm
      <3> QED BY <3>2, <3>3, <1>2
    <2> QED BY <2>1, <2>2 DEF Untouched
  <1>13. Stacked(N2, l2, m, T, lev)
    <2>1. m \in 1..m BY <1>5
    <2> QED BY <2>1, <1>6, <1>7, <1>12, StackedStill
  <1>14. Ready(N2, r, l2)
    <2>1. 1 \in 1..(m - 1)
      <3>1. \A x \in Nat : x >= 1 /\ x # 1 => 1 \in 1..(x - 1) OBVIOUS
      <3> QED BY <3>1, <1>5
    <2>2. N2[l.held[1]] = N[l.held[1]] BY <2>1, <1>12 DEF Untouched
    <2> QED BY <2>2, <1>6, <1>7 DEF Ready, SafeFor, Most, Fewest
  <1>15. Mending(N2, r, l2, T, lev)
    <2>1. N2[p].count < Fewest(N2[p])
      <3>1. PICK c \in Nat : c = N[p].count BY <1>1
      <3>2. ~(c > MinLeaf) BY <3>1
      <3> QED BY <3>1, <3>2, <1>2, <1>8, Sizes DEF Fewest
    <2>2. l2.request.op = "delete" /\ l2.level > 1
      <3>1. \A x \in Nat : x >= 1 /\ x # 1 => x > 1 OBVIOUS
      <3> QED BY <3>1, <1>5, <1>6
    <2>3. l2.pc # "merge" /\ ~(l2.pc # "borrow_right") BY <1>6
    <2>4. l2.held[l2.level] = p BY <1>6, <1>7
    <2> QED BY <2>1, <2>2, <2>3, <2>4, <1>6, <1>13, <1>14 DEF Mending
  <1>16. Writing(N2, r, l2, T, lo, hi, lev, top)
    <2>1. l2.pc \in Repairing BY <1>6 DEF Repairing
    <2> QED BY <2>1, <1>15, MendingOnly
  <1>17. Writes(H[wr]) /\ H[wr].pc # "idle" BY DEF Writes
  <1>18. l2.pc \notin ReaderPcs BY <1>6 DEF ReaderPcs
  <1>19. l2.request = H[wr].request /\ l2.held = H[wr].held BY <1>6
  <1>20. Whole(wr, N2, r, F, H2, T, v2, lo, hi, lev, top)
    BY <1>2, <1>6, <1>10, <1>11, <1>16, <1>17, <1>18, <1>19, BusyStep
  <1> QED BY <1>20

\* What DeleteLeaf does at the leaf p.
DeletesAt(t, l, p) ==
  /\ l.pc = "leaf" /\ l.request.op = "delete" /\ UNCHANGED <<root, free>>
  /\ \/ /\ ~Has(node[p], l.request.low)
        /\ Moves(th, t, Done(t, "missing"), th') /\ UNCHANGED node
     \/ /\ Has(node[p], l.request.low)
        /\ Rewrites(node, p, Taken(node[p], l.request.low), node')
        /\ \/ /\ p = root \/ node[p].count > MinLeaf \/ Len(l.held) = 1
              /\ Moves(th, t, Done(t, "found"), th')
           \/ /\ p # root /\ ~(node[p].count > MinLeaf) /\ Len(l.held) # 1
              /\ \E l2 : Underflows(l, Len(l.held), "found", l2) /\ Moves(th, t, l2, th')

LEMMA DeleteLeafIs ==
  ASSUME NEW t, DeleteLeaf(t), NEW l, l = th[t], NEW p, p = Here(l)
  PROVE  DeletesAt(t, l, p)
PROOF
  <1>1. p = LeafOf(t) /\ Key(t) = l.request.low BY NamesAre DEF Key
  <1>2. PICK k : k = Key(t) OBVIOUS
  <1>3. HasKey(p, k) <=> Has(node[p], l.request.low) BY <1>1, <1>2, NamesAre DEF HasKey, Has
  <1>4. Presence(t) = IF HasKey(p, k) THEN "found" ELSE "missing" BY <1>1, <1>2 DEF Presence
  <1>5. RemoveAt(Keys(p), leaf_find(p, k)) = Taken(node[p], l.request.low)
    BY <1>1, <1>2, NamesAre DEF Taken
  <1>6. PICK ks : ks = RemoveAt(Keys(p), leaf_find(p, k)) OBVIOUS
  <1>7. PICK m : m = Len(l.held) OBVIOUS
  <1>8. /\ At(t, "delete")
        /\ IF HasKey(p, k) THEN node' = [node EXCEPT ![p] = WithKeys(@, ks)]
                           ELSE UNCHANGED node
        /\ th' = [th EXCEPT ![t] =
             IF ~HasKey(p, k) \/ p = root \/ node[p].count > MinLeaf \/ m = 1
             THEN Done(t, Presence(t)) ELSE Underflow(t, m, "found")]
        /\ UNCHANGED <<root, free>>
    BY <1>1, <1>2, <1>6, <1>7 DEF DeleteLeaf
  <1>9. l.pc = "leaf" /\ l.request.op = "delete" BY <1>8 DEF At
  <1>10. CASE ~HasKey(p, k)
    <2>1. Presence(t) = "missing" BY <1>4, <1>10
    <2>2. th' = [th EXCEPT ![t] = Done(t, "missing")] /\ UNCHANGED node BY <2>1, <1>8, <1>10
    <2> QED BY <2>2, <1>3, <1>8, <1>9, <1>10 DEF DeletesAt, Moves
  <1>11. CASE HasKey(p, k)
    <2>1. Presence(t) = "found" BY <1>4, <1>11
    <2>2. Rewrites(node, p, Taken(node[p], l.request.low), node')
      BY <1>5, <1>6, <1>8, <1>11 DEF Rewrites
    <2>3. CASE p = root \/ node[p].count > MinLeaf \/ m = 1
      <3>1. th' = [th EXCEPT ![t] = Done(t, "found")] BY <2>1, <2>3, <1>8
      <3> QED BY <3>1, <2>2, <2>3, <1>3, <1>7, <1>8, <1>9, <1>11 DEF DeletesAt, Moves
    <2>4. CASE ~(p = root \/ node[p].count > MinLeaf \/ m = 1)
      <3>1. PICK l2 : l2 = Underflow(t, m, "found") OBVIOUS
      <3>2. Underflows(l, Len(l.held), "found", l2) BY <3>1, <1>7 DEF Underflow, Underflows
      <3>3. th' = [th EXCEPT ![t] = l2] BY <3>1, <2>4, <1>8, <1>11
      <3>4. Moves(th, t, l2, th') BY <3>3 DEF Moves
      <3> QED BY <3>2, <3>4, <2>2, <2>4, <1>3, <1>7, <1>8, <1>9, <1>11 DEF DeletesAt
    <2> QED BY <2>3, <2>4
  <1> QED BY <1>10, <1>11

LEMMA DeleteLeafStep ==
  ASSUME NEW wr \in Threads, InvOf(wr), DeleteLeaf(wr)
  PROVE  InvOf(wr)'
PROOF
  <1>1. PICK T, v, lo, hi, lev, top : Whole(wr, node, root, free, th, T, v, lo, hi, lev, top)
    BY DEF InvOf
  <1>2. PICK l : l = th[wr] OBVIOUS
  <1>3. PICK p : p = Here(l) OBVIOUS
  <1>4. DeletesAt(wr, l, p) BY <1>2, <1>3, DeleteLeafIs
  <1>5. l.pc = "leaf" /\ l.request.op = "delete" /\ root' = root /\ free' = free
    BY <1>4 DEF DeletesAt
  <1>6. Filled(node, root, th[wr], T) /\ l \in Locals BY <1>1, <1>2, WholeIs
  <1>7. CASE Moves(th, wr, Done(wr, "missing"), th') /\ UNCHANGED node
    <2>1. PICK d : d = Done(wr, "missing") OBVIOUS
    <2>2. Ended(d, th[wr], th[wr].got, "missing") BY <2>1, WriterDone
    <2>3. Filled(node, root, d, T)
      <3>1. d.pc \in ReaderPcs /\ th[wr].pc \in ReaderPcs
        BY <2>2, <1>2, <1>5 DEF ReaderPcs, Ended
      <3> QED BY <3>1, <1>6, FilledSame
    <2>4. th[wr].pc \notin Midway \cup {"idle"} BY <1>2, <1>5 DEF Midway
    <2>5. th[wr].got \in Seq(Nat) /\ Moves(th, wr, d, th') /\ wr \in Threads
      BY <2>1, <1>2, <1>6, <1>7 DEF Locals
    <2>6. Whole(wr, node, root, free, th', T, v, lo, hi, lev, top)
      BY <1>1, <2>2, <2>3, <2>4, <2>5, EndCalm
    <2> QED BY <2>6, <1>5, <1>7, Unmoved
  <1>8. ASSUME Has(node[p], l.request.low),
               Rewrites(node, p, Taken(node[p], l.request.low), node'),
               p = root \/ node[p].count > MinLeaf \/ Len(l.held) = 1,
               Moves(th, wr, Done(wr, "found"), th')
        PROVE  InvOf(wr)'
    <2>1. PICK d : d = Done(wr, "found") OBVIOUS
    <2>2. Ended(d, l, l.got, "found") BY <2>1, <1>2, WriterDone
    <2>3. Moves(th, wr, d, th') BY <2>1, <1>8
    <2>4. p = root \/ node[p].count > MinLeaf
      <3>1. CASE Len(l.held) = 1
        <4>1. Writes(l) BY <1>5 DEF Writes
        <4>2. Reach(wr, node, root, free, th, l, p, T, v, lo, hi, lev, top)
          BY <4>1, <1>1, <1>2, <1>3, <1>5, ReachIs
        <4>3. Ready(node, root, l) /\ p = l.held[1] /\ node[p].type = "leaf"
          BY <3>1, <4>2 DEF Reach
        <4> QED BY <4>3, <1>5 DEF Ready, SafeFor, Fewest
      <3> QED BY <3>1, <1>8
    <2>5. PICK v2 : Whole(wr, node', root, free, th', T, v2, lo, hi, lev, top)
      BY <1>1, <1>2, <1>3, <1>5, <1>8, <2>2, <2>3, <2>4, DeleteLeafSafe
    <2> QED BY <2>5, <1>5, Landed
  <1>9. ASSUME Has(node[p], l.request.low),
               Rewrites(node, p, Taken(node[p], l.request.low), node'),
               p # root, ~(node[p].count > MinLeaf), Len(l.held) # 1,
               NEW l2, Underflows(l, Len(l.held), "found", l2), Moves(th, wr, l2, th')
        PROVE  InvOf(wr)'
    <2>1. PICK v2 : Whole(wr, node', root, free, th', T, v2, lo, hi, lev, top)
      BY <1>1, <1>2, <1>3, <1>5, <1>9, DeleteLeafWeak
    <2> QED BY <2>1, <1>5, Landed
  <1> QED BY <1>4, <1>7, <1>8, <1>9 DEF DeletesAt

\* What the writer knows while it repairs the node n under its parent p.
Kin(wr, N, r, F, H, l, n, p, i, T, v, lo, hi, lev, top) ==
  /\ l.level \in Nat /\ l.level > 1 /\ l.request.op = "delete" /\ Writes(l)
  /\ n \in T /\ p \in T /\ n # p /\ n # r /\ n \in Pages /\ p \in Pages
  /\ N[p].type = "internal" /\ N[p].count \in Nat /\ N[p].count >= 1
  /\ N[p] \in NodeType /\ IsNode(N[p])
  /\ N[n].count \in Nat /\ N[n].count < Fewest(N[n]) /\ N[n].count + 1 >= Fewest(N[n])
  /\ lev[p] = lev[n] + 1 /\ lev[n] \in Nat
  /\ InnerFits(N[p].ent, N[p].child, lo[p], hi[p], lev[p], T, lo, hi, lev)
  /\ Len(N[p].ent) = N[p].count /\ Len(N[p].child) = N[p].count + 1
  /\ i \in 1..Len(N[p].child) /\ N[p].child[i] = n
  /\ Stacked(N, l, l.level, T, lev) /\ Path(l, l.level, T, lev) /\ Ready(N, r, l)
  /\ Elsewhere(wr, H, n) /\ Elsewhere(wr, H, p)
  /\ Calm(N, r, F, T, v, lo, hi, lev, top)
  /\ \A q \in T : q # n => IF q = r THEN N[q].type = "internal" => N[q].count >= 1
                            ELSE N[q].count >= Fewest(N[q])

LEMMA StackedSame ==
  ASSUME NEW N, NEW l, NEW l2, NEW n, NEW T, NEW lev, l2.held = l.held,
         Stacked(N, l, n, T, lev)
  PROVE  Stacked(N, l2, n, T, lev)
PROOF BY Zenon DEF Stacked

\* n is the page at the end of the path, p the one above it.
Pair(l, n, p) == n = l.held[l.level] /\ p = l.held[l.level - 1]
Under(l, p) == p = l.held[l.level - 1]

LEMMA KinIs ==
  ASSUME NEW wr \in Threads, NEW N, NEW r, NEW F, NEW H, NEW T, NEW v, NEW lo, NEW hi, NEW lev,
         NEW top, Whole(wr, N, r, F, H, T, v, lo, hi, lev, top), NEW l, l = H[wr],
         l.pc \in Repairing, NEW n, NEW p, Pair(l, n, p),
         NEW i, i = PlaceIn(N[p], n)
  PROVE  Kin(wr, N, r, F, H, l, n, p, i, T, v, lo, hi, lev, top)
PROOF
  <1>1. /\ l \in Locals /\ Nodes(N, r, F) /\ Shaped(N, r, F, l, T, v, lo, hi, lev, top)
        /\ Mending(N, r, l, T, lev) /\ Filled(N, r, l, T) /\ l.level \in Nat
    BY WriterKnows
  <1>2. PICK m \in Nat : m = l.level BY <1>1
  <1>3. /\ l.request.op = "delete" /\ m > 1 /\ Stacked(N, l, m, T, lev) /\ Ready(N, r, l)
        /\ N[n].count < Fewest(N[n])
    BY <1>1, <1>2, Zenon DEF Mending, Pair
  <1>4. Writes(l) BY <1>3 DEF Writes
  <1>5. Calm(N, r, F, T, v, lo, hi, lev, top)
    <2>1. l.pc \notin Midway BY DEF Repairing, Midway
    <2> QED BY <2>1, <1>1, CalmIs
  <1>6. Path(l, m, T, lev) /\ Leveled(T, lev) /\ \A q \in T : lev[q] <= lev[r]
    BY <1>1, <1>3, LeveledIs, StackedIs
  <1>7. PICK o \in Nat : o = m - 1 /\ o \in 1..(m - 1) /\ o \in 1..m /\ m \in 1..m /\ o < m
                         /\ o + 1 = m
    <2>1. \A x \in Nat : x > 1 => \E y \in Nat : y = x - 1 /\ y \in 1..(x - 1) /\ y \in 1..x
                                                 /\ x \in 1..x /\ y < x /\ y + 1 = x
      <3> TAKE x \in Nat
      <3> HAVE x > 1
      <3> WITNESS x - 1 \in Nat
      <3> QED OBVIOUS
    <2> QED BY <2>1, <1>3
  <1>8. n = l.held[m] /\ p = l.held[o] BY <1>2, <1>7 DEF Pair
  <1>9. /\ n \in T /\ p \in T /\ n # p /\ n \in ToSet(l.held) /\ p \in ToSet(l.held)
        /\ lev[p] = lev[n] + 1
    <2>1. n \in T /\ n \in ToSet(l.held) BY <1>6, <1>7, <1>8 DEF Path
    <2>2. p \in T /\ p \in ToSet(l.held) BY <1>6, <1>7, <1>8 DEF Path
    <2>3. n # p BY <1>6, <1>7, <1>8 DEF Path
    <2>4. lev[p] = lev[n] + 1 BY <1>6, <1>7, <1>8 DEF Path
    <2> QED BY <2>1, <2>2, <2>3, <2>4
  <1>10. n \in Pages /\ p \in Pages BY <1>5, <1>9 DEF Calm
  <1>11. lev[n] \in Nat /\ lev[p] \in Nat /\ lev[r] \in Nat /\ lev[p] <= lev[r]
    BY <1>1, <1>6, <1>9 DEF Leveled, Shaped
  <1>12. lev[p] # 0 /\ n # r BY <1>9, <1>11, SMTT(30)
  <1>13. N[p].type = "internal" BY <1>5, <1>9, <1>12, Zenon DEF Calm
  <1>14. /\ N[p] \in NodeType /\ IsNode(N[p]) /\ N[p].count \in Nat
         /\ N[n].count \in Nat
    BY <1>1, <1>9, PageIs, SMTT(30) DEF Page
  <1>15. Weak(l, n) /\ \A q : q # n => ~Weak(l, q) BY DEF Weak, Pair
  <1>16. N[n].count + 1 >= Fewest(N[n]) BY <1>1, <1>9, <1>12, <1>15 DEF Filled
  <1>17. ASSUME NEW q \in T, q # n
         PROVE  IF q = r THEN N[q].type = "internal" => N[q].count >= 1
                ELSE N[q].count >= Fewest(N[q])
    BY <1>1, <1>15, <1>17 DEF Filled
  <1>18. N[p].count >= 1
    <2>1. CASE p = r BY <2>1, <1>9, <1>13, <1>17, Zenon
    <2>2. CASE p # r
      <3>1. N[p].count >= Fewest(N[p]) BY <2>2, <1>9, <1>17
      <3>2. Fewest(N[p]) = MinInternal BY <1>13, Zenon DEF Fewest
      <3>3. N[p].count \in Nat BY <1>14, Zenon
      <3> QED BY <3>1, <3>2, <3>3, NoneEmpty, Zenon
    <2> QED BY <2>1, <2>2
  <1>19. /\ InnerFits(N[p].ent, N[p].child, lo[p], hi[p], lev[p], T, lo, hi, lev)
         /\ N[p].count = Len(N[p].ent) /\ Len(N[p].child) = N[p].count + 1
    <2>1. View(N, l, p) = Plain(N[p])
      <3>1. l.pc # "unlink" /\ ~Growing(l) BY DEF Growing, Repairing
      <3> QED BY <3>1, PlainView
    <2> QED BY <2>1, <1>1, <1>9, <1>13, InnerPage, SMTT(30)
  <1>20. i \in 1..Len(N[p].child) /\ N[p].child[i] = n
    <2>1. \E j \in 1..Len(N[p].child) : N[p].child[j] = n
      <3>1. \E j \in 1..Len(N[l.held[o]].child) : N[l.held[o]].child[j] = l.held[o + 1]
        BY <1>3, <1>7, Zenon DEF Stacked
      <3> QED BY <3>1, <1>7, <1>8, Zenon
    <2>2. DOMAIN N[p].child = 1..Len(N[p].child)
      <3>1. PICK cs \in Seq(T) : cs = N[p].child BY <1>19, Zenon DEF InnerFits
      <3> QED BY <3>1
    <2>3. \E j \in DOMAIN N[p].child : N[p].child[j] = n BY <2>1, <2>2, Zenon
    <2> QED BY <2>2, <2>3, Zenon DEF PlaceIn
  <1>21. Elsewhere(wr, H, n) /\ Elsewhere(wr, H, p)
    BY <1>4, <1>9, Mine
  <1> QED BY <1>2, <1>3, <1>4, <1>5, <1>6, <1>9, <1>10, <1>11, <1>12, <1>13, <1>14, <1>16, <1>17,
             <1>18, <1>19, <1>20, <1>21, Zenon DEF Kin

\* The kids of p on the two sides of its key j; one of them is n, sib the other.
Beside(wr, N, r, H, n, p, j, left, right, sib, T, lo, hi, lev) ==
  /\ j \in 1..N[p].count /\ left = N[p].child[j] /\ right = N[p].child[j + 1]
  /\ left \in T /\ right \in T /\ left # right /\ left # p /\ right # p
  /\ left \in Pages /\ right \in Pages /\ left # r /\ right # r
  /\ lev[left] = lev[n] /\ lev[right] = lev[n] /\ hi[left] = N[p].ent[j] /\ lo[right] = hi[left]
  /\ lo[left] \in Nat /\ hi[left] \in Nat /\ hi[right] \in Nat
  /\ lo[left] < hi[left] /\ lo[right] < hi[right]
  /\ N[left].type = N[n].type /\ N[right].type = N[n].type
  /\ N[n].type = IF lev[n] = 0 THEN "leaf" ELSE "internal"
  /\ Elsewhere(wr, H, left) /\ Elsewhere(wr, H, right)
  /\ sib \in Pages /\ sib # n /\ sib \in T /\ N[sib].type = N[n].type
  /\ N[sib].count \in Nat /\ N[sib].count >= Fewest(N[n])
  /\ (left = n /\ right = sib) \/ (left = sib /\ right = n)

\* left and right are neighbours under p, n is one of them and sib the other.
Neighbours(N, n, p, i, j, left, right, sib) ==
  /\ j >= 1 /\ j <= N[p].count /\ left = N[p].child[j] /\ right = N[p].child[j + 1]
  /\ (j = i /\ sib = right) \/ (j + 1 = i /\ sib = left)

\* What the repair knows of two neighbours.
LEMMA BesideIs ==
  ASSUME NEW wr, NEW N, NEW r, NEW F, NEW H, NEW l, NEW n, NEW p, NEW i, NEW T, NEW v,
         NEW lo, NEW hi, NEW lev, NEW top, Nodes(N, r, F),
         Kin(wr, N, r, F, H, l, n, p, i, T, v, lo, hi, lev, top),
         NEW j \in Nat, NEW left, NEW right, NEW sib, Elsewhere(wr, H, sib),
         Neighbours(N, n, p, i, j, left, right, sib)
  PROVE  Beside(wr, N, r, H, n, p, j, left, right, sib, T, lo, hi, lev)
PROOF
  <1>01. /\ j >= 1 /\ j <= N[p].count /\ left = N[p].child[j] /\ right = N[p].child[j + 1]
         /\ (j = i /\ sib = right) \/ (j + 1 = i /\ sib = left)
    BY Zenon DEF Neighbours
  <1>1. /\ Tree(T, v, lo, hi, lev, lev[r], top) /\ T = Pages \ F /\ r \in T
        /\ \A q \in T : N[q].type = IF lev[q] = 0 THEN "leaf" ELSE "internal"
    BY DEF Kin, Calm
  <1>2. Ranges(T, lo, hi, lev, lev[r], top) BY <1>1 DEF Tree
  <1>3. PICK ks, cs, c : ks = N[p].ent /\ cs = N[p].child /\ c = N[p].count /\ c \in Nat
    BY DEF Kin
  <1>4. /\ InnerFits(ks, cs, lo[p], hi[p], lev[p], T, lo, hi, lev)
        /\ Len(ks) = c /\ Len(cs) = c + 1 /\ i \in 1..(c + 1) /\ cs[i] = n
    BY <1>3 DEF Kin
  <1>5. \A a, b \in 1..(c + 1) : a < b => cs[a] # cs[b] BY <1>2, <1>4, Order
  <1>6. PICK o \in Nat : o = j + 1 OBVIOUS
  <1>7. j \in 1..c /\ j \in 1..(c + 1) /\ o \in 1..(c + 1) /\ j < o BY <1>01, <1>3, <1>6
  <1>8. left = cs[j] /\ right = cs[o] BY <1>01, <1>3, <1>6
  <1>9. left # right BY <1>5, <1>7, <1>8
  <1>10. /\ cs \in Seq(T) /\ Len(cs) = c + 1
         /\ \A a \in 1..(c + 1) : lev[cs[a]] + 1 = lev[p]
         /\ \A a \in 1..c : hi[cs[a]] = ks[a] /\ lo[cs[a + 1]] = ks[a]
    BY <1>4 DEF InnerFits
  <1>11. left \in T /\ right \in T BY <1>7, <1>8, <1>10
  <1>12. /\ lo[left] \in Nat /\ hi[left] \in Nat /\ hi[right] \in Nat /\ lo[right] \in Nat
         /\ lo[left] < hi[left] /\ lo[right] < hi[right]
         /\ lev[left] \in Nat /\ lev[right] \in Nat /\ lev[p] \in Nat /\ lev[r] \in Nat
         /\ lev[p] <= lev[r]
    <2>1. /\ lev[r] \in Nat
          /\ \A q \in T : lo[q] \in Nat /\ hi[q] \in Nat /\ lo[q] < hi[q] /\ lev[q] \in 0..lev[r]
      BY <1>2 DEF Ranges
    <2>2. \A q \in T : lev[q] \in Nat /\ lev[q] <= lev[r] BY <2>1
    <2>3. p \in T BY DEF Kin
    <2> QED BY <2>1, <2>2, <2>3, <1>1, <1>11
  <1>13. lev[left] + 1 = lev[p] /\ lev[right] + 1 = lev[p] BY <1>7, <1>8, <1>10
  <1>14. lev[p] = lev[n] + 1 /\ lev[n] \in Nat /\ n \in T /\ n # r BY DEF Kin
  <1>15. lev[left] = lev[n] /\ lev[right] = lev[n] BY <1>12, <1>13, <1>14
  <1>16. left # p /\ right # p /\ left # r /\ right # r
    <2>1. lev[left] # lev[p] /\ lev[right] # lev[p] BY <1>12, <1>13
    <2>2. lev[left] # lev[r] /\ lev[right] # lev[r] BY <1>12, <1>13
    <2> QED BY <2>1, <2>2
  <1>17. hi[left] = ks[j] /\ lo[right] = ks[j] BY <1>6, <1>7, <1>8, <1>10
  <1>18. /\ N[n].type = IF lev[n] = 0 THEN "leaf" ELSE "internal"
         /\ N[left].type = N[n].type /\ N[right].type = N[n].type
    <2>1. N[n].type = IF lev[n] = 0 THEN "leaf" ELSE "internal" BY <1>1, <1>14
    <2>2. N[left].type = IF lev[left] = 0 THEN "leaf" ELSE "internal" BY <1>1, <1>11
    <2>3. N[right].type = IF lev[right] = 0 THEN "leaf" ELSE "internal" BY <1>1, <1>11
    <2> QED BY <2>1, <2>2, <2>3, <1>15
  <1>19. (left = n /\ right = sib) \/ (left = sib /\ right = n) BY <1>01, <1>4, <1>6, <1>8
  <1>20. sib \in T /\ sib # n /\ sib # r /\ N[sib].type = N[n].type
    BY <1>9, <1>11, <1>16, <1>18, <1>19
  <1>21. Elsewhere(wr, H, left) /\ Elsewhere(wr, H, right)
    <2>1. Elsewhere(wr, H, n) BY DEF Kin
    <2> QED BY <2>1, <1>19
  <1>22. N[sib].count \in Nat /\ N[sib].count >= Fewest(N[n])
    <2>1. N[sib].count >= Fewest(N[sib]) BY <1>20 DEF Kin
    <2>2. Fewest(N[sib]) = Fewest(N[n]) BY <1>20 DEF Fewest
    <2>3. sib \in Pages BY <1>1, <1>20
    <2>4. N[sib] \in NodeType BY <2>3 DEF Nodes
    <2> QED BY <2>1, <2>2, <2>4 DEF NodeType
  <1>23. left \in Pages /\ right \in Pages /\ sib \in Pages BY <1>1, <1>11, <1>20
  <1>24. j \in 1..N[p].count /\ left = N[p].child[j] /\ right = N[p].child[j + 1]
    BY <1>01, <1>3, <1>7
  <1>25. hi[left] = N[p].ent[j] /\ lo[right] = hi[left] BY <1>3, <1>17
  <1> QED BY <1>9, <1>11, <1>12, <1>15, <1>16, <1>18, <1>19, <1>20, <1>21, <1>22, <1>23,
             <1>24, <1>25, Zenon DEF Beside

\* The ghosts after the boundary of left and right has moved to m.
MovedLo(T, lo, right, m) == [q \in T |-> IF q = right THEN m ELSE lo[q]]
MovedHi(T, hi, left, m) == [q \in T |-> IF q = left THEN m ELSE hi[q]]

LEMMA MovedIs ==
  ASSUME NEW T, NEW lo, NEW hi, NEW left, NEW right, NEW m
  PROVE  Moved(T, lo, hi, left, right, m, MovedLo(T, lo, right, m), MovedHi(T, hi, left, m))
PROOF BY DEF Moved, MovedLo, MovedHi

\* An entry of one of them has moved to the other, past the key j of p.
Traded(N, N2, r, F, p, j, m, left, right, lo, hi, lev, T) ==
  /\ Nodes(N2, r, F) /\ \A q \in Pages : q \notin {p, left, right} => N2[q] = N[q]
  /\ N2[p].type = "internal" /\ N2[p].count = N[p].count
  /\ Rekeyed(Plain(N[p]), Plain(N2[p]), j, m)
  /\ N2[left].type = N[left].type /\ N2[right].type = N[right].type
  /\ N2[left].count >= Fewest(N[left]) /\ N2[right].count >= Fewest(N[right])
  /\ m \in Nat /\ lo[left] < m /\ m < hi[right]
  /\ lev[left] = 0 =>
       /\ LeafPair(Plain(N2[left]), Plain(N2[right]), lo[left], m, hi[right])
       /\ N2[left].next = N[left].next /\ N2[right].next = N[right].next
  /\ lev[left] # 0 =>
       InnerPair(Plain(N2[left]), Plain(N2[right]), lo[left], m, hi[right], lev[left],
                 T, lo, hi, lev)

LEMMA TradeStep ==
  ASSUME NEW wr \in Threads, NEW N, NEW r, NEW F, NEW H, NEW T, NEW v, NEW lo, NEW hi, NEW lev,
         NEW top, Whole(wr, N, r, F, H, T, v, lo, hi, lev, top), NEW l, l = H[wr],
         l.pc \in Repairing, NEW n, NEW p, NEW i,
         Kin(wr, N, r, F, H, l, n, p, i, T, v, lo, hi, lev, top),
         NEW j, NEW left, NEW right, NEW sib,
         Beside(wr, N, r, H, n, p, j, left, right, sib, T, lo, hi, lev),
         NEW m, NEW N2, Traded(N, N2, r, F, p, j, m, left, right, lo, hi, lev, T),
         NEW d, Ended(d, l, l.got, l.result), NEW H2, Moves(H, wr, d, H2)
  PROVE  \E v2, lo2, hi2 : Whole(wr, N2, r, F, H2, T, v2, lo2, hi2, lev, top)
PROOF
  <1>1. /\ Calm(N, r, F, T, v, lo, hi, lev, top) /\ p \in T /\ p \in Pages
        /\ N[p].type = "internal" /\ N[p].count \in Nat /\ N[p].count >= 1
        /\ N[p] \in NodeType /\ IsNode(N[p]) /\ Elsewhere(wr, H, p) /\ n # p
    BY DEF Kin
  <1>2. /\ Tree(T, v, lo, hi, lev, lev[r], top) /\ T = Pages \ F /\ r \in T /\ hi[r] = top
        /\ lo[r] = 0
        /\ \A q \in T : /\ v[q] = Plain(N[q])
                        /\ N[q].type = IF lev[q] = 0 THEN "leaf" ELSE "internal"
    BY <1>1 DEF Calm
  <1>3. /\ j \in 1..N[p].count /\ left = N[p].child[j] /\ right = N[p].child[j + 1]
        /\ left \in T /\ right \in T /\ left # right /\ left # p /\ right # p
        /\ left # r /\ right # r /\ lev[right] = lev[left]
        /\ N[left].type = N[right].type
        /\ Elsewhere(wr, H, left) /\ Elsewhere(wr, H, right)
    BY DEF Beside
  <1>4. PICK lo2, hi2 : Moved(T, lo, hi, left, right, m, lo2, hi2) BY MovedIs
  <1>5. PICK v2 : v2 = [q \in T |-> Plain(N2[q])] OBVIOUS
  <1>6. \A q \in T : v2[q] = Plain(N2[q]) BY <1>5
  <1>7. Plain(N[p]).keys = N[p].ent /\ Plain(N[p]).kids = N[p].child BY <1>1 DEF Plain
  <1>8. v[p].keys = N[p].ent /\ v[p].kids = N[p].child BY <1>1, <1>2, <1>7
  <1>9. Len(v[p].keys) = N[p].count BY <1>1, <1>8 DEF IsNode
  <1>10. Rekeyed(v[p], v2[p], j, m) BY <1>1, <1>2, <1>6 DEF Traded
  <1>11. Same(v, v2, T \ {p, left, right})
    <2>1. ASSUME NEW q \in T \ {p, left, right} PROVE v2[q] = v[q]
      <3>1. q \in T /\ q \in Pages /\ q \notin {p, left, right} BY <1>2
      <3>2. N2[q] = N[q] BY <3>1 DEF Traded
      <3>3. v2[q] = Plain(N2[q]) /\ v[q] = Plain(N[q]) BY <3>1, <1>2, <1>6
      <3> QED BY <3>2, <3>3
    <2> QED BY <2>1 DEF Same
  <1>12. lev[p] # 0 BY <1>1, <1>2
  <1>13. /\ v2[left] = Plain(N2[left]) /\ v2[right] = Plain(N2[right])
         /\ v[left] = Plain(N[left]) /\ v[right] = Plain(N[right])
    BY <1>2, <1>3, <1>6
  <1>14. lev[left] = 0 =>
           /\ LeafPair(v2[left], v2[right], lo[left], m, hi[right])
           /\ v2[left].next = v[left].next /\ v2[right].next = v[right].next
    <2>1. SUFFICES ASSUME lev[left] = 0
                   PROVE  /\ LeafPair(v2[left], v2[right], lo[left], m, hi[right])
                          /\ v2[left].next = v[left].next /\ v2[right].next = v[right].next
      OBVIOUS
    <2>2. LeafPair(v2[left], v2[right], lo[left], m, hi[right]) BY <2>1, <1>13 DEF Traded
    <2>3. N2[left].next = N[left].next /\ N2[right].next = N[right].next BY <2>1 DEF Traded
    <2>4. \A x : Plain(x).next = x.next BY DEF Plain
    <2>5. v2[left].next = N2[left].next /\ v[left].next = N[left].next BY <2>4, <1>13
    <2>6. v2[right].next = N2[right].next /\ v[right].next = N[right].next BY <2>4, <1>13
    <2> QED BY <2>2, <2>3, <2>5, <2>6
  <1>15. lev[left] # 0 =>
           InnerPair(v2[left], v2[right], lo[left], m, hi[right], lev[left], T, lo, hi, lev)
    BY <1>13 DEF Traded
  <1>16. m \in Nat /\ lo[left] < m /\ m < hi[right] BY DEF Traded
  <1>17. Tree(T, v2, lo2, hi2, lev, lev[r], top)
    <2>1. j \in 1..Len(v[p].keys) BY <1>3, <1>9
    <2>2. left = v[p].kids[j] /\ right = v[p].kids[j + 1] BY <1>3, <1>8
    <2> QED BY <2>1, <2>2, <1>1, <1>2, <1>4, <1>10, <1>11, <1>12, <1>14, <1>15, <1>16, MoveTree, SMTT(30)
  <1>18. Nodes(N2, r, F) BY DEF Traded
  <1>19. ASSUME NEW q \in T, q \notin {p, left, right} PROVE N2[q] = N[q]
    <2>1. q \in Pages BY <1>2
    <2> QED BY <2>1, <1>19 DEF Traded
  <1>20. N2[p].type = "internal" /\ N2[p].count = N[p].count BY DEF Traded
  <1>21. /\ N2[left].type = N[left].type /\ N2[right].type = N[right].type
         /\ N2[left].count >= Fewest(N[left]) /\ N2[right].count >= Fewest(N[right])
    BY DEF Traded
  <1>22. Calm(N2, r, F, T, v2, lo2, hi2, lev, top)
    <2>1. \A q \in T : N2[q].type = IF lev[q] = 0 THEN "leaf" ELSE "internal"
      <3> TAKE q \in T
      <3>1. N[q].type = IF lev[q] = 0 THEN "leaf" ELSE "internal" BY <1>2
      <3>2. N2[q].type = N[q].type
        <4>1. CASE q \notin {p, left, right} BY <4>1, <1>19
        <4>2. CASE q = p BY <4>2, <1>1, <1>20
        <4>3. CASE q \in {left, right} BY <4>3, <1>21
        <4> QED BY <4>1, <4>2, <4>3
      <3> QED BY <3>1, <3>2
    <2>2. lo2[r] = 0 /\ hi2[r] = top BY <1>2, <1>3, <1>4 DEF Moved
    <2> QED BY <2>1, <2>2, <1>2, <1>6, <1>17 DEF Calm
  <1>23. Fit(N2, r, T)
    <2>1. SUFFICES ASSUME NEW q \in T
                   PROVE  IF q = r THEN N2[q].type = "internal" => N2[q].count >= 1
                          ELSE N2[q].count >= Fewest(N2[q])
      BY DEF Fit
    <2>2. CASE q = left
      <3>1. Fewest(N2[q]) = Fewest(N[q]) BY <2>2, <1>21 DEF Fewest
      <3> QED BY <3>1, <2>2, <1>3, <1>21
    <2>3. CASE q = right
      <3>1. Fewest(N2[q]) = Fewest(N[q]) BY <2>3, <1>21 DEF Fewest
      <3> QED BY <3>1, <2>3, <1>3, <1>21
    <2>4. CASE q = p
      <3>1. CASE q = r BY <3>1, <2>4, <1>1, <1>20
      <3>2. CASE q # r
        <4>1. q # n BY <2>4, <1>1
        <4>2. N[q].count >= Fewest(N[q]) BY <4>1, <3>2 DEF Kin
        <4>3. Fewest(N2[q]) = Fewest(N[q]) BY <2>4, <1>1, <1>20 DEF Fewest
        <4> QED BY <3>2, <4>2, <4>3, <2>4, <1>20
      <3> QED BY <3>1, <3>2
    <2>5. CASE q \notin {p, left, right}
      <3>1. N2[q] = N[q] BY <2>5, <1>19
      <3>2. q # n BY <2>5 DEF Beside
      <3>3. IF q = r THEN N[q].type = "internal" => N[q].count >= 1
            ELSE N[q].count >= Fewest(N[q])
        BY <3>2 DEF Kin
      <3> QED BY <3>1, <3>3
    <2> QED BY <2>2, <2>3, <2>4, <2>5
  <1>24. Rests(N2, r, F, T, v2, lo2, hi2, lev, top) BY <1>22, <1>23 DEF Rests
  <1>25. Undisturbed(wr, N, H, T, lo, hi, N2, T, lo2, hi2)
    <2>1. ASSUME NEW q \in T
          PROVE  \/ Elsewhere(wr, H, q)
                 \/ q \in T /\ N2[q] = N[q] /\ lo2[q] = lo[q] /\ hi2[q] = hi[q]
      <3>1. CASE q \in {p, left, right} BY <3>1, <1>1, <1>3
      <3>2. CASE q \notin {p, left, right}
        <4>1. lo2[q] = lo[q] /\ hi2[q] = hi[q] BY <3>2, <1>4 DEF Moved
        <4> QED BY <4>1, <3>2, <1>19
      <3> QED BY <3>1, <3>2
    <2> QED BY <2>1 DEF Undisturbed
  <1>26. H[wr].pc # "idle" /\ Ended(d, H[wr], H[wr].got, l.result) BY DEF Repairing
  <1>27. l.result \in {"none", "found", "missing"} BY WriterKnows
  <1>28. Whole(wr, N2, r, F, H2, T, v2, lo2, hi2, lev, top)
    BY <1>18, <1>24, <1>25, <1>26, <1>27, DoneStep
  <1> QED BY <1>28

\* Two pages a and b become x and y, and the separator j of p becomes m.
Swaps(N, a, x, b, y, p, j, m, N2) == N2 = [N EXCEPT ![a] = x, ![b] = y, ![p].ent[j] = m]
Swapped(N, r, F, a, x, b, y, p, j, m, N2) ==
  /\ Nodes(N2, r, F) /\ \A q \in Pages : q \notin {p, a, b} => N2[q] = N[q]
  /\ N2[a] = x /\ N2[b] = y /\ N2[p].type = "internal" /\ N2[p].count = N[p].count
  /\ Rekeyed(Plain(N[p]), Plain(N2[p]), j, m)

LEMMA SwapIs ==
  ASSUME NEW N, NEW r, NEW F, Nodes(N, r, F), NEW a \in Pages, NEW b \in Pages,
         NEW p \in Pages, a # b, a # p, b # p, a \notin F, b \notin F,
         NEW x \in NodeType, IsNode(x), x.type # "free",
         NEW y \in NodeType, IsNode(y), y.type # "free",
         N[p].type = "internal", NEW j \in 1..N[p].count, NEW m \in Nat,
         NEW N2, Swaps(N, a, x, b, y, p, j, m, N2)
  PROVE  Swapped(N, r, F, a, x, b, y, p, j, m, N2)
PROOF
  <1>1. /\ N \in [Pages -> NodeType] /\ N[p] \in NodeType /\ IsNode(N[p])
        /\ F = {q \in Pages : N[q].type = "free"} /\ r \in Pages
        /\ \A q \in Pages : IsNode(N[q])
    BY DEF Nodes
  <1>2. PICK o \in NodeType : o = N[p] BY <1>1
  <1>3. PICK e \in Seq(Nat) : e = o.ent BY DEF NodeType
  <1>4. Len(e) = o.count /\ o.count \in Nat /\ o.count <= MaxInternal /\ o.type = "internal"
        /\ j \in 1..Len(e)
    BY <1>1, <1>2, <1>3 DEF IsNode, NodeType
  <1>5. PICK g : g = [e EXCEPT ![j] = m] OBVIOUS
  <1>6. g \in Seq(Nat) /\ Len(g) = Len(e) BY <1>4, <1>5
  <1>7. PICK z : z = [o EXCEPT !.ent = g] OBVIOUS
  <1>8. /\ z.ent = g /\ z.type = o.type /\ z.count = o.count /\ z.child = o.child
        /\ z.next = o.next /\ z \in NodeType
    BY <1>6, <1>7 DEF NodeType
  <1>9. IsNode(z) BY <1>4, <1>6, <1>8 DEF IsNode
  <1>10. N2 = [N EXCEPT ![a] = x, ![b] = y, ![p].ent[j] = m] BY DEF Swaps
  <1>11. N2[p] = z
    <2>1. N2[p] = [N[p] EXCEPT !.ent[j] = m] BY <1>1, <1>10
    <2>2. N2[p] = [o EXCEPT !.ent = [o.ent EXCEPT ![j] = m]] BY <2>1, <1>2
    <2> QED BY <2>2, <1>3, <1>5, <1>7
  <1>12. N2[a] = x /\ N2[b] = y /\ DOMAIN N2 = Pages BY <1>1, <1>10
  <1>13. \A q \in Pages : q \notin {p, a, b} => N2[q] = N[q] BY <1>1, <1>10
  <1>14. ASSUME NEW q \in Pages
         PROVE  /\ N2[q] \in NodeType /\ IsNode(N2[q])
                /\ N2[q].type = "free" <=> q \in F
    <2>1. CASE q = a BY <2>1, <1>12
    <2>2. CASE q = b BY <2>2, <1>12
    <2>3. CASE q = p
      <3>1. p \notin F BY <1>1
      <3> QED BY <3>1, <2>3, <1>4, <1>8, <1>9, <1>11
    <2>4. CASE q \notin {p, a, b} BY <2>4, <1>1, <1>13
    <2> QED BY <2>1, <2>2, <2>3, <2>4
  <1>15. Nodes(N2, r, F)
    <2>1. N2 \in [Pages -> NodeType]
      <3>1. N2 = [q \in Pages |-> N2[q]] BY <1>10, <1>1
      <3> QED BY <3>1, <1>14
    <2>2. F = {q \in Pages : N2[q].type = "free"}
      <3>1. \A q \in F : q \in Pages BY <1>1
      <3> QED BY <3>1, <1>14
    <2> QED BY <2>1, <2>2, <1>1, <1>14 DEF Nodes
  <1>16. N2[p].type = "internal" /\ N2[p].count = N[p].count
    BY <1>2, <1>4, <1>8, <1>11
  <1>17. Rekeyed(Plain(N[p]), Plain(N2[p]), j, m)
    <2>1. Plain(o).keys = e /\ Plain(o).kids = o.child BY <1>3, <1>4 DEF Plain
    <2>2. Plain(z).keys = g /\ Plain(z).kids = o.child BY <1>4, <1>8 DEF Plain
    <2> QED BY <2>1, <2>2, <1>2, <1>5, <1>11 DEF Rekeyed
  <1> QED BY <1>12, <1>13, <1>15, <1>16, <1>17 DEF Swapped

\* What becomes of two leaves, of two inner nodes, when an entry moves from one
\* to the other: x and y are the new ones, the left one first.
LeafTrade(x, y, nx, ny, m, a, c) ==
  /\ x \in NodeType /\ IsNode(x) /\ y \in NodeType /\ IsNode(y)
  /\ x.type = "leaf" /\ y.type = "leaf" /\ x.count >= MinLeaf /\ y.count >= MinLeaf
  /\ x.next = nx /\ y.next = ny /\ m \in Nat /\ a < m /\ m < c
  /\ LeafPair(Plain(x), Plain(y), a, m, c)
InnerTrade(x, y, m, a, c, d, T, lo, hi, lev) ==
  /\ x \in NodeType /\ IsNode(x) /\ y \in NodeType /\ IsNode(y)
  /\ x.type = "internal" /\ y.type = "internal"
  /\ x.count >= MinInternal /\ y.count >= MinInternal
  /\ m \in Nat /\ a < m /\ m < c
  /\ InnerPair(Plain(x), Plain(y), a, m, c, d, T, lo, hi, lev)

\* a is what becomes of the left one of n and sib, b of the right one.
SideOf(n, sib, left, x, y, a, b) ==
  (left = n /\ a = x /\ b = y) \/ (left = sib /\ a = y /\ b = x)
Trade(N, n, a, b, left, right, m, T, lo, hi, lev) ==
  \/ N[n].type = "leaf" /\ LeafTrade(a, b, N[left].next, N[right].next, m, lo[left], hi[right])
  \/ N[n].type # "leaf" /\ InnerTrade(a, b, m, lo[left], hi[right], lev[left], T, lo, hi, lev)

LEMMA TradedIs ==
  ASSUME NEW wr, NEW N, NEW r, NEW F, NEW H, NEW l, NEW n, NEW p, NEW i, NEW T, NEW v,
         NEW lo, NEW hi, NEW lev, NEW top, Nodes(N, r, F),
         Kin(wr, N, r, F, H, l, n, p, i, T, v, lo, hi, lev, top),
         NEW j, NEW left, NEW right, NEW sib,
         Beside(wr, N, r, H, n, p, j, left, right, sib, T, lo, hi, lev),
         NEW m, NEW x, NEW y, NEW N2, Swaps(N, n, x, sib, y, p, j, m, N2),
         NEW a, NEW b, SideOf(n, sib, left, x, y, a, b),
         Trade(N, n, a, b, left, right, m, T, lo, hi, lev)
  PROVE  Traded(N, N2, r, F, p, j, m, left, right, lo, hi, lev, T)
PROOF
  <1>1. /\ x \in NodeType /\ IsNode(x) /\ x.type # "free"
        /\ y \in NodeType /\ IsNode(y) /\ y.type # "free" /\ m \in Nat
    <2>1. CASE N[n].type = "leaf"
      <3>1. LeafTrade(a, b, N[left].next, N[right].next, m, lo[left], hi[right])
        BY <2>1, Zenon DEF Trade
      <3>2. /\ a \in NodeType /\ IsNode(a) /\ a.type # "free"
            /\ b \in NodeType /\ IsNode(b) /\ b.type # "free" /\ m \in Nat
        BY <3>1, Zenon DEF LeafTrade
      <3> QED BY <3>2, Zenon DEF SideOf
    <2>2. CASE N[n].type # "leaf"
      <3>1. InnerTrade(a, b, m, lo[left], hi[right], lev[left], T, lo, hi, lev)
        BY <2>2, Zenon DEF Trade
      <3>2. /\ a \in NodeType /\ IsNode(a) /\ a.type # "free"
            /\ b \in NodeType /\ IsNode(b) /\ b.type # "free" /\ m \in Nat
        BY <3>1, Zenon DEF InnerTrade
      <3> QED BY <3>2, Zenon DEF SideOf
    <2> QED BY <2>1, <2>2, Zenon
  <1>2. /\ n \in Pages /\ p \in Pages /\ n # p /\ N[p].type = "internal" /\ T = Pages \ F
        /\ n \in T
    BY DEF Kin, Calm
  <1>3. /\ sib \in T /\ sib \in Pages /\ sib # n /\ j \in 1..N[p].count /\ left # p /\ right # p
        /\ (left = n /\ right = sib) \/ (left = sib /\ right = n)
        /\ left # right
    BY DEF Beside
  <1>4. sib # p BY <1>3
  <1>5. Swapped(N, r, F, n, x, sib, y, p, j, m, N2) BY <1>1, <1>2, <1>3, <1>4, SwapIs
  <1>6. N2[left] = a /\ N2[right] = b BY <1>3, <1>5 DEF Swapped, SideOf
  <1>7. /\ Nodes(N2, r, F) /\ \A q \in Pages : q \notin {p, left, right} => N2[q] = N[q]
        /\ N2[p].type = "internal" /\ N2[p].count = N[p].count
        /\ Rekeyed(Plain(N[p]), Plain(N2[p]), j, m)
    <2>1. {p, left, right} = {p, n, sib} BY <1>3
    <2> QED BY <2>1, <1>5 DEF Swapped
  <1>8. /\ N[left].type = N[n].type /\ N[right].type = N[n].type /\ lev[left] = lev[n]
        /\ N[n].type = IF lev[n] = 0 THEN "leaf" ELSE "internal"
    BY DEF Beside
  <1>9. CASE N[n].type = "leaf"
    <2>1. LeafTrade(a, b, N[left].next, N[right].next, m, lo[left], hi[right]) BY <1>9, Zenon DEF Trade
    <2>2. lev[left] = 0 BY <1>8, <1>9
    <2> QED BY <2>1, <2>2, <1>6, <1>7, <1>8, <1>9 DEF LeafTrade, Traded, Fewest
  <1>10. CASE N[n].type # "leaf"
    <2>1. InnerTrade(a, b, m, lo[left], hi[right], lev[left], T, lo, hi, lev) BY <1>10, Zenon DEF Trade
    <2>2. lev[left] # 0 BY <1>8, <1>10
    <2> QED BY <2>1, <2>2, <1>6, <1>7, <1>8, <1>10 DEF InnerTrade, Traded, Fewest
  <1> QED BY <1>9, <1>10

LEMMA Between ==
  \A a, b, k, m \in Nat : a < b /\ b <= k /\ k < m =>
    a <= a /\ b <= m /\ a <= k /\ a < m /\ a < k /\ b < m
PROOF OBVIOUS

Entries(n) == SubSeq(n.ent, 1, n.count)

\* A node with one entry less than it must have, and one with an entry to give.
Lacks(n) == n.count < Fewest(n) /\ n.count + 1 >= Fewest(n)
Spares(s) == s.count > Fewest(s)

\* The first entry of the right leaf s moves to the left leaf n.
LEMMA LeafFromRight ==
  ASSUME NEW n \in NodeType, IsNode(n), n.type = "leaf",
         NEW s \in NodeType, IsNode(s), s.type = "leaf",
         NEW a \in Nat, NEW b \in Nat, NEW c \in Nat, a < b,
         Within(n, a, b), Within(s, b, c), Lacks(n), Spares(s),
         NEW ks, ks = Entries(s)
  PROVE  LeafTrade(WithKeys(n, Put(n, ks[1])), WithKeys(s, Tail(ks)), n.next, s.next,
                   ks[2], a, c)
PROOF
  <1>1. /\ n.count \in Nat /\ s.count \in Nat /\ ks \in Seq(Nat) /\ Len(ks) = s.count
        /\ n.next \in PageNo /\ s.next \in PageNo
    BY KeysAre DEF Entries
  <1>2. s.count <= MaxLeaf /\ n.child = << >> /\ s.child = << >> BY DEF IsNode
  <1>01. n.count < MinLeaf /\ n.count + 1 >= MinLeaf /\ s.count > MinLeaf
    BY DEF Lacks, Spares, Fewest
  <1>3. PICK z \in Nat : /\ z = s.count /\ z >= 2 /\ z - 1 >= MinLeaf /\ z - 1 <= MaxLeaf
                         /\ z - 1 \in Nat
    <2>1. PICK x \in Nat, e \in Nat, f \in Nat : x = s.count /\ e = MinLeaf /\ f = MaxLeaf
      BY <1>1, Sizes
    <2>2. e < x /\ x <= f /\ 1 <= e BY <1>01, <1>2, <2>1, Sizes
    <2>3. x >= 2 /\ x - 1 >= e /\ x - 1 <= f /\ x - 1 \in Nat BY <2>2
    <2> QED BY <2>1, <2>3
  <1>4. InRange(ks, b, c) BY DEF Within, Entries
  <1>5. PICK k \in Nat, m \in Nat : k = ks[1] /\ m = ks[2] /\ b <= k /\ k < m /\ m < c
    <2>1. 1 \in 1..Len(ks) /\ 2 \in 1..Len(ks) BY <1>1, <1>3
    <2>2. /\ b <= ks[1] /\ ks[1] < ks[2] /\ ks[2] < c /\ ks[1] \in Nat /\ ks[2] \in Nat
      BY <2>1, <1>1, <1>4 DEF InRange, Ordered
    <2> QED BY <2>2
  <1>6. PICK old : old = SubSeq(n.ent, 1, n.count) OBVIOUS
  <1>7. InRange(old, a, b) BY <1>6 DEF Within
  <1>8. Within(n, a, m)
    <2>1. a <= a /\ b <= m BY <1>5, Between
    <2>2. InRange(old, a, m) BY <2>1, <1>7, WidenRange
    <2> QED BY <2>2, <1>6 DEF Within
  <1>9. ~Has(n, k)
    <2>1. SUFFICES ASSUME Has(n, k) PROVE FALSE OBVIOUS
    <2>2. k \in ToSet(old) BY <2>1, <1>6 DEF Has
    <2>3. PICK j \in 1..Len(old) : old[j] = k
      <3>1. old \in Seq(Nat) BY <1>7 DEF InRange
      <3> QED BY <3>1, <2>2 DEF ToSet
    <2>4. k < b BY <2>3, <1>7 DEF InRange
    <2>5. \A x, y \in Nat : ~(x < y /\ y <= x) OBVIOUS
    <2> QED BY <2>4, <2>5, <1>5
  <1>10. a <= k BY <1>5, Between
  <1>11. PICK k1 : k1 = Put(n, k) OBVIOUS
  <1>12. InRange(k1, a, m) /\ Len(k1) = n.count + 1
    BY <1>5, <1>8, <1>9, <1>10, <1>11, PutIs
  <1>13. PICK k2 : k2 = Tail(ks) OBVIOUS
  <1>14. InRange(k2, m, c) /\ Len(k2) = z - 1
    <2>1. k2 = SubSeq(ks, 2, z) BY <1>1, <1>3, <1>13, TailIs
    <2>2. \A i \in 2..z : m <= ks[i] /\ ks[i] < c
      <3> TAKE i \in 2..z
      <3>1. i \in 1..Len(ks) /\ 2 \in 1..Len(ks) BY <1>1, <1>3
      <3>2. i = 2 \/ ks[2] < ks[i] BY <3>1, <1>4 DEF InRange, Ordered
      <3>3. ks[i] \in Nat /\ ks[i] < c BY <3>1, <1>4 DEF InRange
      <3>4. \A x, y \in Nat : x = y \/ x < y => x <= y OBVIOUS
      <3>5. i = 2 => m = ks[i] BY <1>5
      <3>6. m <= ks[i] BY <3>2, <3>3, <3>4, <3>5, <1>5
      <3> QED BY <3>3, <3>6
    <2>3. 2 \in Nat /\ 1 <= 2 /\ 2 <= z + 1 /\ z <= Len(ks) BY <1>1, <1>3
    <2>4. InRange(SubSeq(ks, 2, z), m, c) /\ Len(SubSeq(ks, 2, z)) = z - 2 + 1
      BY <2>2, <2>3, <1>4, PartInRange
    <2> QED BY <2>1, <2>4, <1>3
  <1>15. PICK x : x = WithKeys(n, k1) OBVIOUS
  <1>16. PICK y : y = WithKeys(s, k2) OBVIOUS
  <1>17. k1 \in Seq(Nat) /\ k2 \in Seq(Nat) BY <1>12, <1>14 DEF InRange
  <1>18. Len(k1) <= MaxLeaf /\ Len(k2) <= MaxLeaf
    <2>1. PICK d \in Nat, e \in Nat, f \in Nat : d = n.count /\ e = MinLeaf /\ f = MaxLeaf
      BY <1>1, Sizes
    <2>2. d < e /\ 2 * e <= f BY <1>01, <2>1, Sizes
    <2>3. d + 1 <= f BY <2>2
    <2> QED BY <2>1, <2>3, <1>3, <1>12, <1>14
  <1>19. IsLeaf(x, k1, n.next) BY <1>2, <1>15, <1>17, <1>18, WithKeysIs
  <1>20. IsLeaf(y, k2, s.next) BY <1>2, <1>16, <1>17, <1>18, WithKeysIs
  <1>21. /\ Plain(x).keys = k1 /\ Plain(x).kids = << >> /\ x \in NodeType /\ IsNode(x)
         /\ x.type = "leaf" /\ x.count = Len(k1) /\ x.next = n.next
    <2>1. LeafData(x, k1, n.next) BY <1>17, <1>18, <1>19, LeafDataIs, Zenon
    <2> QED BY <2>1, Zenon DEF LeafData
  <1>22. /\ Plain(y).keys = k2 /\ Plain(y).kids = << >> /\ y \in NodeType /\ IsNode(y)
         /\ y.type = "leaf" /\ y.count = Len(k2) /\ y.next = s.next
    <2>1. LeafData(y, k2, s.next) BY <1>17, <1>18, <1>20, LeafDataIs, Zenon
    <2> QED BY <2>1, Zenon DEF LeafData
  <1>23. LeafPair(Plain(x), Plain(y), a, m, c) BY <1>12, <1>14, <1>21, <1>22 DEF LeafPair
  <1>24. x.count >= MinLeaf /\ y.count >= MinLeaf BY <1>01, <1>3, <1>12, <1>14, <1>21, <1>22
  <1>25. a < m BY <1>5, Between
  <1>26. LeafTrade(x, y, n.next, s.next, m, a, c)
    BY <1>5, <1>21, <1>22, <1>23, <1>24, <1>25 DEF LeafTrade
  <1> QED BY <1>5, <1>11, <1>13, <1>15, <1>16, <1>26

\* The last entry of the left leaf s moves to the right leaf n.
LEMMA LeafFromLeft ==
  ASSUME NEW n \in NodeType, IsNode(n), n.type = "leaf",
         NEW s \in NodeType, IsNode(s), s.type = "leaf",
         NEW a \in Nat, NEW b \in Nat, NEW c \in Nat, b < c,
         Within(s, a, b), Within(n, b, c), Lacks(n), Spares(s),
         NEW ks, ks = Entries(s)
  PROVE  LeafTrade(WithKeys(s, Front(ks)), WithKeys(n, Put(n, Last(ks))), s.next, n.next,
                   Last(ks), a, c)
PROOF
  <1>1. /\ n.count \in Nat /\ s.count \in Nat /\ ks \in Seq(Nat) /\ Len(ks) = s.count
        /\ n.next \in PageNo /\ s.next \in PageNo
    BY KeysAre DEF Entries
  <1>2. s.count <= MaxLeaf /\ n.child = << >> /\ s.child = << >> BY DEF IsNode
  <1>3. n.count < MinLeaf /\ n.count + 1 >= MinLeaf /\ s.count > MinLeaf
    BY DEF Lacks, Spares, Fewest
  <1>4. PICK z \in Nat : /\ z = s.count /\ z >= 2 /\ z - 1 >= MinLeaf /\ z - 1 <= MaxLeaf
                         /\ z - 1 \in Nat
    <2>1. PICK x \in Nat, e \in Nat, f \in Nat : x = s.count /\ e = MinLeaf /\ f = MaxLeaf
      BY <1>1, Sizes
    <2>2. e < x /\ x <= f /\ 1 <= e BY <1>2, <1>3, <2>1, Sizes
    <2>3. x >= 2 /\ x - 1 >= e /\ x - 1 <= f /\ x - 1 \in Nat BY <2>2
    <2> QED BY <2>1, <2>3
  <1>5. InRange(ks, a, b) BY DEF Within, Entries
  <1>6. PICK k \in Nat : k = Last(ks) /\ k = ks[z] BY <1>1, <1>4 DEF Last
  <1>7. a < k /\ k < b /\ \A i \in 1..(z - 1) : ks[i] < k
    <2>1. 1 \in 1..Len(ks) /\ z \in 1..Len(ks) /\ 1 < z BY <1>1, <1>4
    <2>2. a <= ks[1] /\ ks[1] < ks[z] /\ ks[z] < b /\ ks[1] \in Nat
      BY <2>1, <1>1, <1>5 DEF InRange, Ordered
    <2>3. ASSUME NEW i \in 1..(z - 1) PROVE ks[i] < ks[z]
      <3>1. i \in 1..Len(ks) /\ i < z BY <1>1, <1>4
      <3> QED BY <3>1, <2>1, <1>5 DEF InRange, Ordered
    <2>4. a < k
      <3>1. \A x, y, w \in Nat : x <= y /\ y < w => x < w OBVIOUS
      <3> QED BY <3>1, <2>2, <1>6
    <2> QED BY <2>2, <2>3, <2>4, <1>6
  <1>8. PICK old : old = SubSeq(n.ent, 1, n.count) OBVIOUS
  <1>9. InRange(old, b, c) BY <1>8 DEF Within
  <1>10. k <= b /\ k < c /\ k <= k
    <2>1. \A x, y, w \in Nat : x < y /\ y < w => x <= y /\ x < w /\ x <= x OBVIOUS
    <2> QED BY <2>1, <1>7
  <1>11. Within(n, k, c)
    <2>1. c <= c OBVIOUS
    <2>2. InRange(old, k, c) BY <2>1, <1>9, <1>10, WidenRange
    <2> QED BY <2>2, <1>8 DEF Within
  <1>12. ~Has(n, k)
    <2>1. SUFFICES ASSUME Has(n, k) PROVE FALSE OBVIOUS
    <2>2. k \in ToSet(old) BY <2>1, <1>8 DEF Has
    <2>3. PICK j \in 1..Len(old) : old[j] = k
      <3>1. old \in Seq(Nat) BY <1>9 DEF InRange
      <3> QED BY <3>1, <2>2 DEF ToSet
    <2>4. b <= k BY <2>3, <1>9 DEF InRange
    <2>5. \A x, y \in Nat : ~(x < y /\ y <= x) OBVIOUS
    <2> QED BY <2>4, <2>5, <1>7
  <1>13. PICK k1 : k1 = Front(ks) OBVIOUS
  <1>14. InRange(k1, a, k) /\ Len(k1) = z - 1
    <2>1. PICK y \in Nat : y = z - 1 BY <1>4
    <2>2. k1 = SubSeq(ks, 1, y) BY <2>1, <1>1, <1>4, <1>13 DEF Front
    <2>3. \A i \in 1..y : a <= ks[i] /\ ks[i] < k
      <3> TAKE i \in 1..y
      <3>1. i \in 1..Len(ks) BY <2>1, <1>1, <1>4
      <3>2. a <= ks[i] BY <3>1, <1>5 DEF InRange
      <3> QED BY <3>2, <2>1, <1>7
    <2>4. 1 \in Nat /\ 1 <= 1 /\ 1 <= y + 1 /\ y <= Len(ks) /\ y - 1 + 1 = y
      BY <2>1, <1>1, <1>4
    <2>5. InRange(SubSeq(ks, 1, y), a, k) /\ Len(SubSeq(ks, 1, y)) = y - 1 + 1
      BY <2>3, <2>4, <1>5, PartInRange
    <2> QED BY <2>1, <2>2, <2>4, <2>5
  <1>15. PICK k2 : k2 = Put(n, k) OBVIOUS
  <1>16. InRange(k2, k, c) /\ Len(k2) = n.count + 1
    BY <1>10, <1>11, <1>12, <1>15, PutIs
  <1>17. PICK x : x = WithKeys(s, k1) OBVIOUS
  <1>18. PICK y : y = WithKeys(n, k2) OBVIOUS
  <1>19. k1 \in Seq(Nat) /\ k2 \in Seq(Nat) BY <1>14, <1>16 DEF InRange
  <1>20. Len(k1) <= MaxLeaf /\ Len(k2) <= MaxLeaf
    <2>1. PICK d \in Nat, e \in Nat, f \in Nat : d = n.count /\ e = MinLeaf /\ f = MaxLeaf
      BY <1>1, Sizes
    <2>2. d < e /\ 2 * e <= f BY <1>3, <2>1, Sizes
    <2>3. d + 1 <= f BY <2>2
    <2> QED BY <2>1, <2>3, <1>4, <1>14, <1>16
  <1>21. IsLeaf(x, k1, s.next) BY <1>2, <1>17, <1>19, <1>20, WithKeysIs
  <1>22. IsLeaf(y, k2, n.next) BY <1>2, <1>18, <1>19, <1>20, WithKeysIs
  <1>23. /\ Plain(x).keys = k1 /\ Plain(x).kids = << >> /\ x \in NodeType /\ IsNode(x)
         /\ x.type = "leaf" /\ x.count = Len(k1) /\ x.next = s.next
    BY <1>19, <1>20, <1>21, LeafPlain
  <1>24. /\ Plain(y).keys = k2 /\ Plain(y).kids = << >> /\ y \in NodeType /\ IsNode(y)
         /\ y.type = "leaf" /\ y.count = Len(k2) /\ y.next = n.next
    BY <1>19, <1>20, <1>22, LeafPlain
  <1>25. LeafPair(Plain(x), Plain(y), a, k, c) BY <1>14, <1>16, <1>23, <1>24 DEF LeafPair
  <1>26. x.count >= MinLeaf /\ y.count >= MinLeaf BY <1>3, <1>4, <1>14, <1>16, <1>23, <1>24
  <1>27. LeafTrade(x, y, s.next, n.next, k, a, c)
    BY <1>7, <1>10, <1>23, <1>24, <1>25, <1>26 DEF LeafTrade
  <1> QED BY <1>6, <1>13, <1>15, <1>17, <1>18, <1>27

\* The first kid of the right inner node s moves to the left inner node n.
LEMMA InnerFromRight ==
  ASSUME NEW T, T \subseteq Pages, NEW lo, NEW hi, NEW lev, NEW h, NEW top,
         Ranges(T, lo, hi, lev, h, top),
         NEW n, n.type = "internal", n.count = Len(n.ent),
         NEW s, s.type = "internal", s.count = Len(s.ent), s.count <= MaxInternal,
         NEW a \in Nat, NEW b \in Nat, NEW c \in Nat, a < b, b < c, NEW d,
         InnerFits(n.ent, n.child, a, b, d, T, lo, hi, lev),
         InnerFits(s.ent, s.child, b, c, d, T, lo, hi, lev), Lacks(n), Spares(s)
  PROVE  InnerTrade(Internal(Append(n.ent, b), Append(n.child, s.child[1])),
                    Internal(Tail(s.ent), Tail(s.child)), s.ent[1], a, c, d, T, lo, hi, lev)
PROOF
  <1>1. PICK m : m = s.ent[1] OBVIOUS
  <1>2. PICK q : q = s.child[1] OBVIOUS
  <1>3. /\ n.ent \in Seq(Nat) /\ Len(n.ent) \in Nat /\ s.ent \in Seq(Nat) /\ Len(s.ent) \in Nat
    BY FitsTypes
  <1>4. /\ n.count < MinInternal /\ n.count + 1 >= MinInternal
        /\ s.count > MinInternal
    BY DEF Lacks, Spares, Fewest
  <1>5. Len(s.ent) >= 1 BY <1>3, <1>4, Sizes
  <1>6. /\ InnerFits(Tail(s.ent), Tail(s.child), m, c, d, T, lo, hi, lev)
        /\ Len(Tail(s.ent)) + 1 = Len(s.ent) /\ q \in T /\ lev[q] + 1 = d
        /\ lo[q] = b /\ hi[q] = m /\ m \in Nat
    BY <1>1, <1>2, <1>5, TailFits
  <1>7. /\ InnerFits(Append(n.ent, b), Append(n.child, q), a, m, d, T, lo, hi, lev)
        /\ Len(Append(n.ent, b)) = Len(n.ent) + 1
    BY <1>6, AppendFits
  <1>8. b < m /\ m < c
    <2>1. 1 \in 1..Len(s.ent) BY <1>3, <1>5
    <2> QED BY <1>1, <2>1, KeyBetween
  <1>9. a < m BY <1>6, <1>8
  <1>10. PICK k1 : k1 = Append(n.ent, b) OBVIOUS
  <1>11. PICK c1 : c1 = Append(n.child, q) OBVIOUS
  <1>12. PICK k2 : k2 = Tail(s.ent) OBVIOUS
  <1>13. PICK c2 : c2 = Tail(s.child) OBVIOUS
  <1>14. /\ InnerFits(k1, c1, a, m, d, T, lo, hi, lev) /\ InnerFits(k2, c2, m, c, d, T, lo, hi, lev)
    BY <1>6, <1>7, <1>10, <1>11, <1>12, <1>13
  <1>15. /\ k1 \in Seq(Nat) /\ c1 \in Seq(Pages) /\ Len(k1) \in Nat
         /\ k2 \in Seq(Nat) /\ c2 \in Seq(Pages) /\ Len(k2) \in Nat
    BY <1>14, FitsTypes
  <1>16. /\ Len(k1) >= MinInternal /\ Len(k1) <= MaxInternal
         /\ Len(k2) >= MinInternal /\ Len(k2) <= MaxInternal
    <2>1. Len(k1) = n.count + 1 /\ Len(k2) + 1 = s.count
      BY <1>6, <1>7, <1>10, <1>12
    <2>2. MinInternal \in Nat /\ MaxInternal \in Nat /\ MinInternal <= MaxInternal
      BY Sizes
    <2>3. n.count \in Nat /\ s.count \in Nat BY <1>3
    <2>4. PICK i \in Nat : i = n.count BY <2>3
    <2>5. PICK j \in Nat : j = s.count BY <2>3
    <2>6. i < MinInternal /\ i + 1 >= MinInternal /\ j > MinInternal /\ j <= MaxInternal
      BY <2>4, <2>5, <1>4
    <2>7. Len(k1) = i + 1 /\ Len(k2) + 1 = j BY <2>1, <2>4, <2>5
    <2>8. Len(k1) \in Nat /\ Len(k2) \in Nat BY <1>15, Zenon
    <2> QED BY <2>6, <2>7, <2>8, KeyMoved, Zenon
  <1>17. PICK x : x = Internal(k1, c1) OBVIOUS
  <1>18. PICK y : y = Internal(k2, c2) OBVIOUS
  <1>19. /\ x \in NodeType /\ IsNode(x) /\ x.type = "internal" /\ x.count = Len(k1)
         /\ Plain(x).keys = k1 /\ Plain(x).kids = c1
    BY <1>15, <1>16, <1>17, InternalIs
  <1>20. /\ y \in NodeType /\ IsNode(y) /\ y.type = "internal" /\ y.count = Len(k2)
         /\ Plain(y).keys = k2 /\ Plain(y).kids = c2
    BY <1>15, <1>16, <1>18, InternalIs
  <1>21. InnerPair(Plain(x), Plain(y), a, m, c, d, T, lo, hi, lev)
    BY <1>14, <1>19, <1>20 DEF InnerPair
  <1>22. InnerTrade(x, y, m, a, c, d, T, lo, hi, lev)
    BY <1>6, <1>8, <1>9, <1>16, <1>19, <1>20, <1>21 DEF InnerTrade
  <1> QED BY <1>1, <1>2, <1>10, <1>11, <1>12, <1>13, <1>17, <1>18, <1>22

\* The last kid of the left inner node s moves to the right inner node n.
LEMMA InnerFromLeft ==
  ASSUME NEW T, T \subseteq Pages, NEW lo, NEW hi, NEW lev, NEW h, NEW top,
         Ranges(T, lo, hi, lev, h, top),
         NEW n, n.type = "internal", n.count = Len(n.ent),
         NEW s, s.type = "internal", s.count = Len(s.ent), s.count <= MaxInternal,
         NEW a \in Nat, NEW b \in Nat, NEW c \in Nat, a < b, b < c, NEW d,
         InnerFits(s.ent, s.child, a, b, d, T, lo, hi, lev),
         InnerFits(n.ent, n.child, b, c, d, T, lo, hi, lev), Lacks(n), Spares(s)
  PROVE  InnerTrade(Internal(Front(s.ent), Front(s.child)),
                    Internal(<<b>> \o n.ent, <<Last(s.child)>> \o n.child), Last(s.ent), a, c,
                    d, T, lo, hi, lev)
PROOF
  <1>1. PICK m : m = Last(s.ent) OBVIOUS
  <1>2. PICK q : q = Last(s.child) OBVIOUS
  <1>3. /\ n.ent \in Seq(Nat) /\ Len(n.ent) \in Nat /\ s.ent \in Seq(Nat) /\ Len(s.ent) \in Nat
    BY FitsTypes
  <1>4. /\ n.count < MinInternal /\ n.count + 1 >= MinInternal
        /\ s.count > MinInternal
    BY DEF Lacks, Spares, Fewest
  <1>5. Len(s.ent) >= 1 BY <1>3, <1>4, Sizes
  <1>6. /\ InnerFits(Front(s.ent), Front(s.child), a, m, d, T, lo, hi, lev)
        /\ Len(Front(s.ent)) + 1 = Len(s.ent) /\ q \in T /\ lev[q] + 1 = d
        /\ hi[q] = b /\ lo[q] = m /\ m \in Nat
    BY <1>1, <1>2, <1>5, FrontFits
  <1>7. /\ InnerFits(<<b>> \o n.ent, <<q>> \o n.child, m, c, d, T, lo, hi, lev)
        /\ Len(<<b>> \o n.ent) = Len(n.ent) + 1
    BY <1>6, PrependFits
  <1>8. a < m /\ m < b
    <2>1. PICK o \in Nat : o = Len(s.ent) BY <1>3
    <2>2. o \in 1..Len(s.ent) BY <2>1, <1>5
    <2>3. m = s.ent[o] BY <1>1, <2>1 DEF Last
    <2> QED BY <2>2, <2>3, KeyBetween
  <1>9. m < c BY <1>6, <1>8
  <1>10. PICK k1 : k1 = Front(s.ent) OBVIOUS
  <1>11. PICK c1 : c1 = Front(s.child) OBVIOUS
  <1>12. PICK k2 : k2 = <<b>> \o n.ent OBVIOUS
  <1>13. PICK c2 : c2 = <<q>> \o n.child OBVIOUS
  <1>14. /\ InnerFits(k1, c1, a, m, d, T, lo, hi, lev) /\ InnerFits(k2, c2, m, c, d, T, lo, hi, lev)
    BY <1>6, <1>7, <1>10, <1>11, <1>12, <1>13
  <1>15. /\ k1 \in Seq(Nat) /\ c1 \in Seq(Pages) /\ Len(k1) \in Nat
         /\ k2 \in Seq(Nat) /\ c2 \in Seq(Pages) /\ Len(k2) \in Nat
    BY <1>14, FitsTypes
  <1>16. /\ Len(k1) >= MinInternal /\ Len(k1) <= MaxInternal
         /\ Len(k2) >= MinInternal /\ Len(k2) <= MaxInternal
    <2>1. Len(k1) + 1 = s.count /\ Len(k2) = n.count + 1 BY <1>6, <1>7, <1>10, <1>12
    <2>2. MinInternal \in Nat /\ MaxInternal \in Nat /\ MinInternal <= MaxInternal
      BY Sizes
    <2>3. n.count \in Nat /\ s.count \in Nat BY <1>3
    <2>4. PICK i \in Nat : i = n.count BY <2>3
    <2>5. PICK j \in Nat : j = s.count BY <2>3
    <2>6. i < MinInternal /\ i + 1 >= MinInternal /\ j > MinInternal /\ j <= MaxInternal
      BY <2>4, <2>5, <1>4
    <2>7. Len(k2) = i + 1 /\ Len(k1) + 1 = j BY <2>1, <2>4, <2>5
    <2>8. Len(k1) \in Nat /\ Len(k2) \in Nat BY <1>15, Zenon
    <2> QED BY <2>6, <2>7, <2>8, KeyMoved, Zenon
  <1>17. PICK x : x = Internal(k1, c1) OBVIOUS
  <1>18. PICK y : y = Internal(k2, c2) OBVIOUS
  <1>19. /\ x \in NodeType /\ IsNode(x) /\ x.type = "internal" /\ x.count = Len(k1)
         /\ Plain(x).keys = k1 /\ Plain(x).kids = c1
    BY <1>15, <1>16, <1>17, InternalIs
  <1>20. /\ y \in NodeType /\ IsNode(y) /\ y.type = "internal" /\ y.count = Len(k2)
         /\ Plain(y).keys = k2 /\ Plain(y).kids = c2
    BY <1>15, <1>16, <1>18, InternalIs
  <1>21. InnerPair(Plain(x), Plain(y), a, m, c, d, T, lo, hi, lev)
    BY <1>14, <1>19, <1>20 DEF InnerPair
  <1>22. InnerTrade(x, y, m, a, c, d, T, lo, hi, lev)
    BY <1>6, <1>8, <1>9, <1>16, <1>19, <1>20, <1>21 DEF InnerTrade
  <1> QED BY <1>1, <1>2, <1>10, <1>11, <1>12, <1>13, <1>17, <1>18, <1>22

-----------------------------------------------------------------------------
\* The repair of n goes on with the next attempt.
GoesOn(l, q, l2) == l2 = [l EXCEPT !.pc = q]
Poor(N, n, s) == N[s].count <= Fewest(N[n])

LEMMA GoesOnIs ==
  ASSUME NEW l \in Locals, NEW q \in Repairing, NEW l2, GoesOn(l, q, l2)
  PROVE  /\ l2 \in Locals /\ l2.pc = q /\ l2.request = l.request /\ l2.held = l.held
         /\ l2.level = l.level
PROOF
  <1>1. q \in Pcs BY DEF Pcs
  <1> QED BY <1>1 DEF GoesOn, Locals

LEMMA MendOn ==
  ASSUME NEW wr \in Threads, NEW N, NEW r, NEW F, NEW H, NEW T, NEW v, NEW lo, NEW hi, NEW lev,
         NEW top, Whole(wr, N, r, F, H, T, v, lo, hi, lev, top), NEW l, l = H[wr],
         l.pc \in Repairing, NEW q \in Repairing, NEW l2, GoesOn(l, q, l2),
         Mending(N, r, l2, T, lev), NEW H2, Moves(H, wr, l2, H2)
  PROVE  Whole(wr, N, r, F, H2, T, v, lo, hi, lev, top)
PROOF
  <1>1. /\ l \in Locals /\ Asked(l, wr) /\ OnItsWay(N, l, T, lo, hi) /\ Filled(N, r, l, T)
    BY WriterKnows
  <1>2. /\ l2 \in Locals /\ l2.pc = q /\ l2.request = l.request /\ l2.held = l.held
        /\ l2.level = l.level
    BY <1>1, GoesOnIs
  <1>3. /\ l.pc \notin Midway /\ l2.pc \notin Midway /\ l.pc # "idle" /\ l2.pc # "idle"
        /\ l2.pc \notin {"idle", "root", "return", "child", "leaf", "next", "more"}
    BY <1>2 DEF Repairing, Midway
  <1>4. Asked(l2, wr) BY <1>1, <1>2, <1>3 DEF Asked
  <1>5. Writes(l2) BY <1>2, Zenon DEF Mending, Writes
  <1>6. OnItsWay(N, l2, T, lo, hi) BY <1>3, <1>5 DEF OnItsWay
  <1>7. Took(wr, H, l2)
    <2>1. Latched(wr, H) /\ Writes(l) BY <1>2, <1>5, WholeIs DEF Writes
    <2> QED BY <2>1, <1>2 DEF Latched, Took
  <1>8. Filled(N, r, l2, T) BY <1>1, <1>2, FilledStill
  <1>9. Writing(N, r, l2, T, lo, hi, lev, top) BY <1>2, MendingOnly, Zenon
  <1> QED BY <1>2, <1>3, <1>4, <1>6, <1>7, <1>8, <1>9, CalmStep

\* No more is to be had from the right sibling, from the left one.
LEMMA RightFails ==
  ASSUME NEW wr \in Threads, NEW N, NEW r, NEW F, NEW H, NEW T, NEW v, NEW lo, NEW hi, NEW lev,
         NEW top, Whole(wr, N, r, F, H, T, v, lo, hi, lev, top), NEW l, l = H[wr],
         l.pc = "borrow_right", NEW n, NEW p, Pair(l, n, p),
         NEW i, i = PlaceIn(N[p], n), i <= N[p].count => Poor(N, n, N[p].child[i + 1]),
         NEW l2, GoesOn(l, "borrow_left", l2), NEW H2, Moves(H, wr, l2, H2)
  PROVE  Whole(wr, N, r, F, H2, T, v, lo, hi, lev, top)
PROOF
  <1>1. l \in Locals /\ Mending(N, r, l, T, lev) BY WriterKnows, Zenon
  <1>2. "borrow_left" \in Repairing /\ l.pc \in Repairing BY Zenon DEF Repairing
  <1>3. /\ l2.pc = "borrow_left" /\ l2.request = l.request /\ l2.held = l.held
        /\ l2.level = l.level
    BY <1>1, <1>2, GoesOnIs, SMTT(30)
  <1>4. /\ l.request.op = "delete" /\ l.level > 1
        /\ Stacked(N, l, l.level, T, lev) /\ Ready(N, r, l)
        /\ N[n].count < Fewest(N[n])
    BY <1>1, <1>2, Zenon DEF Mending, Pair
  <1>5. Stacked(N, l2, l.level, T, lev) BY <1>3, <1>4, StackedSame, Zenon
  <1>6. Ready(N, r, l2) BY <1>3, <1>4, Zenon DEF Ready
  <1>7. n = l2.held[l2.level] /\ p = l2.held[l2.level - 1] BY <1>3, Zenon DEF Pair
  <1>8. Mending(N, r, l2, T, lev)
    BY <1>3, <1>4, <1>5, <1>6, <1>7, Zenon DEF Mending, Poor
  <1> QED BY <1>2, <1>8, MendOn, Zenon

LEMMA LeftFails ==
  ASSUME NEW wr \in Threads, NEW N, NEW r, NEW F, NEW H, NEW T, NEW v, NEW lo, NEW hi, NEW lev,
         NEW top, Whole(wr, N, r, F, H, T, v, lo, hi, lev, top), NEW l, l = H[wr],
         l.pc = "borrow_left", NEW n, NEW p, Pair(l, n, p),
         NEW i, i = PlaceIn(N[p], n), i > 1 => Poor(N, n, N[p].child[i - 1]),
         NEW l2, GoesOn(l, "merge", l2), NEW H2, Moves(H, wr, l2, H2)
  PROVE  Whole(wr, N, r, F, H2, T, v, lo, hi, lev, top)
PROOF
  <1>1. l \in Locals /\ Mending(N, r, l, T, lev) BY WriterKnows, Zenon
  <1>2. "merge" \in Repairing /\ l.pc \in Repairing BY Zenon DEF Repairing
  <1>3. /\ l2.pc = "merge" /\ l2.request = l.request /\ l2.held = l.held
        /\ l2.level = l.level
    BY <1>1, <1>2, GoesOnIs, SMTT(30)
  <1>4. /\ l.request.op = "delete" /\ l.level > 1
        /\ Stacked(N, l, l.level, T, lev) /\ Ready(N, r, l)
        /\ N[n].count < Fewest(N[n])
        /\ i <= N[p].count => Poor(N, n, N[p].child[i + 1])
    BY <1>1, <1>2, Zenon DEF Mending, Pair, Poor
  <1>5. Stacked(N, l2, l.level, T, lev) BY <1>3, <1>4, StackedSame, Zenon
  <1>6. Ready(N, r, l2) BY <1>3, <1>4, Zenon DEF Ready
  <1>7. n = l2.held[l2.level] /\ p = l2.held[l2.level - 1] BY <1>3, Zenon DEF Pair
  <1>8. Mending(N, r, l2, T, lev)
    BY <1>3, <1>4, <1>5, <1>6, <1>7, Zenon DEF Mending, Poor
  <1> QED BY <1>2, <1>8, MendOn, Zenon

\* What BorrowRight makes of n, its right sibling s and the separator i of p.
GivesRight(N, n, p, i, s, N2) ==
  \/ /\ N[n].type = "leaf"
     /\ Swaps(N, n, WithKeys(N[n], Put(N[n], Entries(N[s])[1])),
              s, WithKeys(N[s], Tail(Entries(N[s]))), p, i, Entries(N[s])[2], N2)
  \/ /\ N[n].type # "leaf"
     /\ Swaps(N, n, Internal(Append(N[n].ent, N[p].ent[i]),
                             Append(N[n].child, N[s].child[1])),
              s, Internal(Tail(N[s].ent), Tail(N[s].child)), p, i, N[s].ent[1], N2)

\* The two pages that trade an entry, the left one first.
Sides(N, n, s, T, lo, hi, lev) ==
  /\ N[n] \in NodeType /\ IsNode(N[n]) /\ N[s] \in NodeType /\ IsNode(N[s])
  /\ N[s].type = N[n].type /\ Lacks(N[n])
  /\ N[n].type = "leaf" => Within(N[n], lo[n], hi[n]) /\ Within(N[s], lo[s], hi[s])
  /\ N[n].type # "leaf" =>
       /\ N[n].type = "internal"
       /\ N[n].count = Len(N[n].ent) /\ N[s].count = Len(N[s].ent)
       /\ N[n].count <= MaxInternal /\ N[s].count <= MaxInternal
       /\ InnerFits(N[n].ent, N[n].child, lo[n], hi[n], lev[n], T, lo, hi, lev)
       /\ InnerFits(N[s].ent, N[s].child, lo[s], hi[s], lev[n], T, lo, hi, lev)

LEMMA SidesAre ==
  ASSUME NEW wr, NEW N, NEW r, NEW F, NEW H, NEW l, NEW n, NEW p, NEW i, NEW T, NEW v,
         NEW lo, NEW hi, NEW lev, NEW top, Nodes(N, r, F), l.pc \notin Midway,
         Shaped(N, r, F, l, T, v, lo, hi, lev, top),
         Kin(wr, N, r, F, H, l, n, p, i, T, v, lo, hi, lev, top),
         NEW j, NEW left, NEW right, NEW s,
         Beside(wr, N, r, H, n, p, j, left, right, s, T, lo, hi, lev)
  PROVE  Sides(N, n, s, T, lo, hi, lev)
PROOF
  <1>1. \A q \in T : View(N, l, q) = Plain(N[q]) BY CalmIs
  <1>2. /\ n \in T /\ n \in Pages /\ N[n].count < Fewest(N[n])
        /\ N[n].count + 1 >= Fewest(N[n])
    BY DEF Kin
  <1>3. /\ s \in T /\ s \in Pages /\ N[s].type = N[n].type /\ lev[s] = lev[n]
        /\ N[n].type = IF lev[n] = 0 THEN "leaf" ELSE "internal"
    BY DEF Beside
  <1>4. N[n] \in NodeType /\ IsNode(N[n]) /\ N[s] \in NodeType /\ IsNode(N[s])
    BY <1>2, <1>3 DEF Nodes
  <1>5. Lacks(N[n]) BY <1>2 DEF Lacks
  <1>6. CASE N[n].type = "leaf"
    <2>1. Within(N[n], lo[n], hi[n]) BY <1>1, <1>2, <1>6, LeafPage DEF Within
    <2>2. Within(N[s], lo[s], hi[s]) BY <1>1, <1>3, <1>6, LeafPage DEF Within
    <2> QED BY <2>1, <2>2, <1>3, <1>4, <1>5, <1>6 DEF Sides
  <1>7. CASE N[n].type # "leaf"
    <2>1. N[n].type = "internal" BY <1>3, <1>7
    <2>2. /\ InnerFits(N[n].ent, N[n].child, lo[n], hi[n], lev[n], T, lo, hi, lev)
          /\ N[n].count = Len(N[n].ent) /\ N[n].count <= MaxInternal
      BY <2>1, <1>1, <1>2, InnerPage
    <2>3. /\ InnerFits(N[s].ent, N[s].child, lo[s], hi[s], lev[s], T, lo, hi, lev)
          /\ N[s].count = Len(N[s].ent) /\ N[s].count <= MaxInternal
      BY <2>1, <1>1, <1>3, InnerPage
    <2> QED BY <2>1, <2>2, <2>3, <1>3, <1>4, <1>5, <1>7 DEF Sides
  <1> QED BY <1>6, <1>7

\* s is the sibling next to place i under p, and it has an entry to give.
RightOf(N, p, i, s) == i <= N[p].count /\ s = N[p].child[i + 1]
LeftOf(N, p, i, s) == i > 1 /\ s = N[p].child[i - 1]

LEMMA SpareIs ==
  ASSUME NEW N, NEW n, NEW s, N[s].type = N[n].type, N[s].count \in Nat, ~Poor(N, n, s)
  PROVE  Spares(N[s])
PROOF
  <1>1. Fewest(N[s]) = Fewest(N[n]) BY DEF Fewest
  <1>2. PICK f \in Nat : f = Fewest(N[n]) BY Sizes DEF Fewest
  <1>3. PICK c \in Nat : c = N[s].count OBVIOUS
  <1>4. ~(c <= f) BY <1>2, <1>3 DEF Poor
  <1>5. c > f BY <1>4
  <1> QED BY <1>1, <1>2, <1>3, <1>5 DEF Spares

LEMMA RightGives ==
  ASSUME NEW wr \in Threads, NEW N, NEW r, NEW F, NEW H, NEW T, NEW v, NEW lo, NEW hi, NEW lev,
         NEW top, Whole(wr, N, r, F, H, T, v, lo, hi, lev, top), NEW l, l = H[wr],
         l.pc \in Repairing, NEW n, NEW p, Pair(l, n, p),
         NEW i, i = PlaceIn(N[p], n), NEW s, RightOf(N, p, i, s),
         ~Poor(N, n, s), Latchable(H, wr, s),
         NEW N2, GivesRight(N, n, p, i, s, N2),
         NEW d, Ended(d, l, l.got, l.result), NEW H2, Moves(H, wr, d, H2)
  PROVE  \E v2, lo2, hi2 : Whole(wr, N2, r, F, H2, T, v2, lo2, hi2, lev, top)
PROOF
  <1>1. Nodes(N, r, F) /\ Shaped(N, r, F, l, T, v, lo, hi, lev, top) BY WriterKnows, Zenon
  <1>2. Kin(wr, N, r, F, H, l, n, p, i, T, v, lo, hi, lev, top) BY KinIs
  <1>3. /\ i \in 1..Len(N[p].child) /\ N[p].child[i] = n /\ Writes(H[wr])
        /\ N[p].count \in Nat /\ Len(N[p].child) = N[p].count + 1
    BY <1>2, Zenon DEF Kin
  <1>4. Elsewhere(wr, H, s) BY <1>3, Mine, Zenon
  <1>5. PICK j \in Nat : j = i /\ j >= 1 /\ j <= N[p].count
    <2>1. PICK c \in Nat : c = N[p].count BY <1>3, Zenon
    <2>2. i \in 1..(c + 1) BY <2>1, <1>3, Zenon
    <2>3. i <= c BY <2>1, Zenon DEF RightOf
    <2>4. i \in Nat /\ i >= 1 /\ i <= c BY <2>2, <2>3, NotLastPlace, Zenon
    <2> QED BY <2>1, <2>4, Zenon
  <1>6. Beside(wr, N, r, H, n, p, j, n, s, s, T, lo, hi, lev)
    <2>1. j >= 1 /\ j <= N[p].count BY <1>5, Zenon
    <2>2. n = N[p].child[j] /\ s = N[p].child[j + 1] BY <1>3, <1>5, Zenon DEF RightOf
    <2>3. Neighbours(N, n, p, i, j, n, s, s) BY <2>1, <2>2, <1>5, Zenon DEF Neighbours
    <2>4. Nodes(N, r, F) BY <1>1, Zenon
    <2> QED BY <2>3, <2>4, <1>2, <1>4, <1>5, BesideIs, Zenon
  <1>7. Sides(N, n, s, T, lo, hi, lev)
    <2>1. l.pc \notin Midway BY DEF Repairing, Midway
    <2> QED BY <2>1, <1>1, <1>2, <1>6, SidesAre, Zenon
  <1>8. /\ lo[n] \in Nat /\ hi[n] \in Nat /\ hi[s] \in Nat /\ lo[s] = hi[n]
        /\ lo[n] < hi[n] /\ hi[n] < hi[s] /\ hi[n] = N[p].ent[j]
        /\ N[s].count \in Nat /\ s \in T
    BY <1>6, Zenon DEF Beside
  <1>9. Spares(N[s])
    <2>1. N[s].type = N[n].type BY <1>7, Zenon DEF Sides
    <2> QED BY <2>1, <1>8, SpareIs, Zenon
  <1>10. ASSUME NEW m, NEW x, NEW y, Swaps(N, n, x, s, y, p, j, m, N2),
                \/ /\ N[n].type = "leaf"
                   /\ LeafTrade(x, y, N[n].next, N[s].next, m, lo[n], hi[s])
                \/ /\ N[n].type # "leaf"
                   /\ InnerTrade(x, y, m, lo[n], hi[s], lev[n], T, lo, hi, lev)
         PROVE  \E v2, lo2, hi2 : Whole(wr, N2, r, F, H2, T, v2, lo2, hi2, lev, top)
    <2>1. Traded(N, N2, r, F, p, j, m, n, s, lo, hi, lev, T)
      <3>1. CASE /\ N[n].type = "leaf"
                 /\ LeafTrade(x, y, N[n].next, N[s].next, m, lo[n], hi[s])
        <4>1. Nodes(N, r, F) /\ Swaps(N, n, x, s, y, p, j, m, N2) BY <1>1, <1>10, Zenon
        <4>2. SideOf(n, s, n, x, y, x, y) BY Zenon DEF SideOf
        <4>3. Trade(N, n, x, y, n, s, m, T, lo, hi, lev) BY <3>1, Zenon DEF Trade
        <4> QED BY <4>1, <4>2, <4>3, <1>2, <1>6, TradedIs, Zenon
      <3>2. CASE /\ N[n].type # "leaf"
                 /\ InnerTrade(x, y, m, lo[n], hi[s], lev[n], T, lo, hi, lev)
        <4>1. Nodes(N, r, F) /\ Swaps(N, n, x, s, y, p, j, m, N2) BY <1>1, <1>10, Zenon
        <4>2. SideOf(n, s, n, x, y, x, y) BY Zenon DEF SideOf
        <4>3. Trade(N, n, x, y, n, s, m, T, lo, hi, lev) BY <3>2, Zenon DEF Trade
        <4> QED BY <4>1, <4>2, <4>3, <1>2, <1>6, TradedIs, Zenon
      <3> QED BY <3>1, <3>2, <1>10, Zenon
    <2> QED BY <2>1, <1>2, <1>6, TradeStep, Zenon
  <1>11. CASE N[n].type = "leaf"
    <2>1. PICK ks : ks = Entries(N[s]) OBVIOUS
    <2>2. PICK m, x, y : /\ m = ks[2] /\ x = WithKeys(N[n], Put(N[n], ks[1]))
                         /\ y = WithKeys(N[s], Tail(ks))
      OBVIOUS
    <2>3. Swaps(N, n, x, s, y, p, j, m, N2)
      BY <1>5, <1>11, <2>1, <2>2, Zenon DEF GivesRight
    <2>4. LeafTrade(WithKeys(N[n], Put(N[n], ks[1])), WithKeys(N[s], Tail(ks)), N[n].next,
                    N[s].next, ks[2], lo[n], hi[s])
      <3>1. /\ N[n] \in NodeType /\ IsNode(N[n]) /\ N[s] \in NodeType /\ IsNode(N[s])
            /\ N[n].type = "leaf" /\ N[s].type = "leaf" /\ Lacks(N[n])
            /\ Within(N[n], lo[n], hi[n]) /\ Within(N[s], hi[n], hi[s])
        BY <1>7, <1>8, <1>11, Zenon DEF Sides
      <3> QED BY <3>1, <2>1, <1>8, <1>9, LeafFromRight, Zenon
    <2>5. LeafTrade(x, y, N[n].next, N[s].next, m, lo[n], hi[s]) BY <2>2, <2>4, Zenon
    <2> QED BY <2>3, <2>5, <1>10, <1>11, Zenon
  <1>12. CASE N[n].type # "leaf"
    <2>1. PICK m, x, y : /\ m = N[s].ent[1]
                         /\ x = Internal(Append(N[n].ent, hi[n]),
                                         Append(N[n].child, N[s].child[1]))
                         /\ y = Internal(Tail(N[s].ent), Tail(N[s].child))
      OBVIOUS
    <2>2. Swaps(N, n, x, s, y, p, j, m, N2)
      BY <1>5, <1>8, <1>12, <2>1, Zenon DEF GivesRight
    <2>3. InnerTrade(Internal(Append(N[n].ent, hi[n]), Append(N[n].child, N[s].child[1])),
                     Internal(Tail(N[s].ent), Tail(N[s].child)), N[s].ent[1], lo[n], hi[s],
                     lev[n], T, lo, hi, lev)
      <3>1. /\ N[n].type = "internal" /\ N[s].type = "internal" /\ Lacks(N[n])
            /\ N[n].count = Len(N[n].ent) /\ N[s].count = Len(N[s].ent)
            /\ N[s].count <= MaxInternal
            /\ InnerFits(N[n].ent, N[n].child, lo[n], hi[n], lev[n], T, lo, hi, lev)
            /\ InnerFits(N[s].ent, N[s].child, hi[n], hi[s], lev[n], T, lo, hi, lev)
        BY <1>7, <1>8, <1>12, Zenon DEF Sides
      <3>2. Ranges(T, lo, hi, lev, lev[r], top) BY <1>1, Zenon DEF Shaped, Tree
      <3>3. T \subseteq Pages BY <1>1 DEF Shaped
      <3> QED BY <3>1, <3>2, <3>3, <1>8, <1>9, InnerFromRight, Zenon
    <2>4. InnerTrade(x, y, m, lo[n], hi[s], lev[n], T, lo, hi, lev) BY <2>1, <2>3, Zenon
    <2> QED BY <2>2, <2>4, <1>10, <1>12, Zenon
  <1> QED BY <1>11, <1>12, Zenon

\* What BorrowLeft makes of n, its left sibling s and the separator before n.
GivesLeft(N, n, p, i, s, N2) ==
  \/ /\ N[n].type = "leaf"
     /\ Swaps(N, n, WithKeys(N[n], Put(N[n], Last(Entries(N[s])))),
              s, WithKeys(N[s], Front(Entries(N[s]))), p, i - 1, Last(Entries(N[s])), N2)
  \/ /\ N[n].type # "leaf"
     /\ Swaps(N, n, Internal(<<N[p].ent[i - 1]>> \o N[n].ent,
                             <<Last(N[s].child)>> \o N[n].child),
              s, Internal(Front(N[s].ent), Front(N[s].child)), p, i - 1, Last(N[s].ent), N2)

LEMMA LeftGives ==
  ASSUME NEW wr \in Threads, NEW N, NEW r, NEW F, NEW H, NEW T, NEW v, NEW lo, NEW hi, NEW lev,
         NEW top, Whole(wr, N, r, F, H, T, v, lo, hi, lev, top), NEW l, l = H[wr],
         l.pc \in Repairing, NEW n, NEW p, Pair(l, n, p),
         NEW i, i = PlaceIn(N[p], n), NEW s, LeftOf(N, p, i, s),
         ~Poor(N, n, s), Latchable(H, wr, s),
         NEW N2, GivesLeft(N, n, p, i, s, N2),
         NEW d, Ended(d, l, l.got, l.result), NEW H2, Moves(H, wr, d, H2)
  PROVE  \E v2, lo2, hi2 : Whole(wr, N2, r, F, H2, T, v2, lo2, hi2, lev, top)
PROOF
  <1>1. Nodes(N, r, F) /\ Shaped(N, r, F, l, T, v, lo, hi, lev, top) BY WriterKnows, Zenon
  <1>2. Kin(wr, N, r, F, H, l, n, p, i, T, v, lo, hi, lev, top) BY KinIs
  <1>3. /\ i \in 1..Len(N[p].child) /\ N[p].child[i] = n /\ Writes(H[wr])
        /\ N[p].count \in Nat /\ Len(N[p].child) = N[p].count + 1
    BY <1>2, Zenon DEF Kin
  <1>4. Elsewhere(wr, H, s) BY <1>3, Mine, Zenon
  <1>5. PICK j \in Nat : j + 1 = i /\ j = i - 1 /\ j >= 1 /\ j <= N[p].count
    <2>1. PICK c \in Nat : c = N[p].count BY <1>3, Zenon
    <2>2. i \in 1..(c + 1) BY <2>1, <1>3, Zenon
    <2>3. i > 1 BY Zenon DEF LeftOf
    <2>4. i - 1 \in Nat /\ i - 1 >= 1 /\ i - 1 <= c /\ (i - 1) + 1 = i
      BY <2>2, <2>3, NotFirstPlace, Zenon
    <2> QED BY <2>1, <2>4, Zenon
  <1>6. Beside(wr, N, r, H, n, p, j, s, n, s, T, lo, hi, lev)
    <2>1. j >= 1 /\ j <= N[p].count /\ j + 1 = i BY <1>5, Zenon
    <2>2. n = N[p].child[j + 1] /\ s = N[p].child[j] BY <1>3, <1>5, Zenon DEF LeftOf
    <2>3. Neighbours(N, n, p, i, j, s, n, s) BY <2>1, <2>2, Zenon DEF Neighbours
    <2>4. Nodes(N, r, F) BY <1>1, Zenon
    <2> QED BY <2>3, <2>4, <1>2, <1>4, <1>5, BesideIs, Zenon
  <1>7. Sides(N, n, s, T, lo, hi, lev)
    <2>1. l.pc \notin Midway BY DEF Repairing, Midway
    <2> QED BY <2>1, <1>1, <1>2, <1>6, SidesAre, Zenon
  <1>8. /\ lo[s] \in Nat /\ hi[s] \in Nat /\ hi[n] \in Nat /\ lo[n] = hi[s]
        /\ lo[s] < hi[s] /\ hi[s] < hi[n] /\ hi[s] = N[p].ent[j]
        /\ N[s].count \in Nat /\ s \in T /\ lev[s] = lev[n]
    BY <1>6, Zenon DEF Beside
  <1>9. Spares(N[s])
    <2>1. N[s].type = N[n].type BY <1>7, Zenon DEF Sides
    <2> QED BY <2>1, <1>8, SpareIs, Zenon
  <1>10. ASSUME NEW m, NEW x, NEW y, Swaps(N, n, x, s, y, p, j, m, N2),
                \/ /\ N[n].type = "leaf"
                   /\ LeafTrade(y, x, N[s].next, N[n].next, m, lo[s], hi[n])
                \/ /\ N[n].type # "leaf"
                   /\ InnerTrade(y, x, m, lo[s], hi[n], lev[s], T, lo, hi, lev)
         PROVE  \E v2, lo2, hi2 : Whole(wr, N2, r, F, H2, T, v2, lo2, hi2, lev, top)
    <2>1. Traded(N, N2, r, F, p, j, m, s, n, lo, hi, lev, T)
      <3>1. CASE /\ N[n].type = "leaf"
                 /\ LeafTrade(y, x, N[s].next, N[n].next, m, lo[s], hi[n])
        <4>1. Nodes(N, r, F) /\ Swaps(N, n, x, s, y, p, j, m, N2) BY <1>1, <1>10, Zenon
        <4>2. SideOf(n, s, s, x, y, y, x) BY Zenon DEF SideOf
        <4>3. Trade(N, n, y, x, s, n, m, T, lo, hi, lev) BY <3>1, Zenon DEF Trade
        <4> QED BY <4>1, <4>2, <4>3, <1>2, <1>6, TradedIs, Zenon
      <3>2. CASE /\ N[n].type # "leaf"
                 /\ InnerTrade(y, x, m, lo[s], hi[n], lev[s], T, lo, hi, lev)
        <4>1. Nodes(N, r, F) /\ Swaps(N, n, x, s, y, p, j, m, N2) BY <1>1, <1>10, Zenon
        <4>2. SideOf(n, s, s, x, y, y, x) BY Zenon DEF SideOf
        <4>3. Trade(N, n, y, x, s, n, m, T, lo, hi, lev) BY <3>2, Zenon DEF Trade
        <4> QED BY <4>1, <4>2, <4>3, <1>2, <1>6, TradedIs, Zenon
      <3> QED BY <3>1, <3>2, <1>10, Zenon
    <2> QED BY <2>1, <1>2, <1>6, TradeStep, Zenon
  <1>11. CASE N[n].type = "leaf"
    <2>1. PICK ks : ks = Entries(N[s]) OBVIOUS
    <2>2. PICK m, x, y : /\ m = Last(ks) /\ x = WithKeys(N[n], Put(N[n], Last(ks)))
                         /\ y = WithKeys(N[s], Front(ks))
      OBVIOUS
    <2>3. Swaps(N, n, x, s, y, p, j, m, N2)
      BY <1>5, <1>11, <2>1, <2>2, Zenon DEF GivesLeft
    <2>4. LeafTrade(WithKeys(N[s], Front(ks)), WithKeys(N[n], Put(N[n], Last(ks))),
                    N[s].next, N[n].next, Last(ks), lo[s], hi[n])
      <3>1. /\ N[n] \in NodeType /\ IsNode(N[n]) /\ N[s] \in NodeType /\ IsNode(N[s])
            /\ N[n].type = "leaf" /\ N[s].type = "leaf" /\ Lacks(N[n])
            /\ Within(N[n], hi[s], hi[n]) /\ Within(N[s], lo[s], hi[s])
        BY <1>7, <1>8, <1>11, Zenon DEF Sides
      <3> QED BY <3>1, <2>1, <1>8, <1>9, LeafFromLeft, Zenon
    <2>5. LeafTrade(y, x, N[s].next, N[n].next, m, lo[s], hi[n]) BY <2>2, <2>4, Zenon
    <2> QED BY <2>3, <2>5, <1>10, <1>11, Zenon
  <1>12. CASE N[n].type # "leaf"
    <2>1. PICK m, x, y : /\ m = Last(N[s].ent)
                         /\ x = Internal(<<hi[s]>> \o N[n].ent,
                                         <<Last(N[s].child)>> \o N[n].child)
                         /\ y = Internal(Front(N[s].ent), Front(N[s].child))
      BY Zenon
    <2>2. Swaps(N, n, x, s, y, p, j, m, N2)
      BY <1>5, <1>8, <1>12, <2>1, Zenon DEF GivesLeft
    <2>3. InnerTrade(Internal(Front(N[s].ent), Front(N[s].child)),
                     Internal(<<hi[s]>> \o N[n].ent, <<Last(N[s].child)>> \o N[n].child),
                     Last(N[s].ent), lo[s], hi[n], lev[n], T, lo, hi, lev)
      <3>1. /\ N[n].type = "internal" /\ N[s].type = "internal" /\ Lacks(N[n])
            /\ N[n].count = Len(N[n].ent) /\ N[s].count = Len(N[s].ent)
            /\ N[s].count <= MaxInternal
            /\ InnerFits(N[n].ent, N[n].child, hi[s], hi[n], lev[n], T, lo, hi, lev)
            /\ InnerFits(N[s].ent, N[s].child, lo[s], hi[s], lev[n], T, lo, hi, lev)
        BY <1>7, <1>8, <1>12, Zenon DEF Sides
      <3>2. Ranges(T, lo, hi, lev, lev[r], top) BY <1>1, Zenon DEF Shaped, Tree
      <3>3. T \subseteq Pages BY <1>1 DEF Shaped
      <3> QED BY <3>1, <3>2, <3>3, <1>8, <1>9, InnerFromLeft, Zenon
    <2>4. InnerTrade(y, x, m, lo[s], hi[n], lev[s], T, lo, hi, lev) BY <2>1, <2>3, <1>8, Zenon
    <2> QED BY <2>2, <2>4, <1>10, <1>12, Zenon
  <1> QED BY <1>11, <1>12, Zenon

\* What BorrowRight and BorrowLeft do to the node n under its parent p.
BorrowsRight(t, l, n, p, i, s) ==
  /\ l.pc = "borrow_right" /\ UNCHANGED <<root, free>>
  /\ \/ /\ RightOf(node, p, i, s) /\ ~Poor(node, n, s) /\ Latchable(th, t, s)
        /\ GivesRight(node, n, p, i, s, node') /\ Moves(th, t, Done(t, l.result), th')
     \/ /\ i <= node[p].count => Poor(node, n, node[p].child[i + 1])
        /\ \E l2 : GoesOn(l, "borrow_left", l2) /\ Moves(th, t, l2, th')
        /\ UNCHANGED node
BorrowsLeft(t, l, n, p, i, s) ==
  /\ l.pc = "borrow_left" /\ UNCHANGED <<root, free>>
  /\ \/ /\ LeftOf(node, p, i, s) /\ ~Poor(node, n, s) /\ Latchable(th, t, s)
        /\ GivesLeft(node, n, p, i, s, node') /\ Moves(th, t, Done(t, l.result), th')
     \/ /\ i > 1 => Poor(node, n, node[p].child[i - 1])
        /\ \E l2 : GoesOn(l, "merge", l2) /\ Moves(th, t, l2, th')
        /\ UNCHANGED node

\* The nodes and siblings are pages with as many keys as they count.
Counted(n, s) == node[s].count \in Nat /\ n # s

LEMMA BorrowRightIs ==
  ASSUME NEW t, BorrowRight(t), th \in [Threads -> Locals], t \in Threads,
         NEW l, l = th[t], NEW n,
         NEW p, Pair(l, n, p), NEW i, i = PlaceIn(node[p], n),
         NEW s, s = node[p].child[i + 1], i <= node[p].count => Counted(n, s)
  PROVE  BorrowsRight(t, l, n, p, i, s)
PROOF
  <1>1. n = NodeAt(t) /\ p = Parent(t) BY NamesAre DEF Pair
  <1>2. i = Place(t) BY <1>1, Zenon DEF Place, PlaceIn
  <1>3. MinOf(n) = Fewest(node[n]) BY NamesAre
  <1>4. /\ l.pc = "borrow_right" /\ (i <= node[p].count => CanLatch(t, s))
        /\ UNCHANGED <<root, free>>
    BY <1>1, <1>2, Zenon DEF BorrowRight
  <1>5. CASE i <= node[p].count /\ node[s].count > MinOf(n)
    <2>1. Counted(n, s) BY <1>5, Zenon
    <2>2. ~Poor(node, n, s)
      <3>1. PICK f \in Nat : f = Fewest(node[n]) BY Sizes DEF Fewest
      <3>2. PICK c \in Nat : c = node[s].count BY <2>1, Zenon DEF Counted
      <3>3. c > f BY <3>1, <3>2, <1>3, <1>5, Zenon
      <3>4. ~(c <= f) BY <3>3, Compared, Zenon
      <3> QED BY <3>1, <3>2, <3>4, Zenon DEF Poor
    <2>3. RightOf(node, p, i, s) BY <1>5, Zenon DEF RightOf
    <2>4. Latchable(th, t, s) BY <1>4, <1>5, LatchableIs, Zenon
    <2>5. PICK ks : ks = Entries(node[s]) BY Zenon
    <2>6. /\ Keys(s) = ks
          /\ InsertAt(Keys(n), leaf_find(n, ks[1]), ks[1]) = Put(node[n], ks[1])
      BY <2>5, NamesAre, Zenon DEF Put, Entries
    <2>7. /\ node' =
               IF node[n].type = "leaf"
               THEN [node EXCEPT
                 ![n] = WithKeys(@, InsertAt(Keys(n), leaf_find(n, Keys(s)[1]), Keys(s)[1])),
                 ![s] = WithKeys(@, Tail(Keys(s))),
                 ![p].ent[i] = SeparatorAfter(s)]
               ELSE [node EXCEPT
                 ![n] = Internal(Append(@.ent, node[p].ent[i]),
                                 Append(@.child, node[s].child[1])),
                 ![s] = Internal(Tail(@.ent), Tail(@.child)),
                 ![p].ent[i] = node[s].ent[1]]
          /\ th' = [th EXCEPT ![t] = Done(t, l.result)]
      BY <1>1, <1>2, <1>5, Zenon DEF BorrowRight
    <2>8. GivesRight(node, n, p, i, s, node')
      <3>1. CASE node[n].type = "leaf"
        <4>1. node' = [node EXCEPT ![n] = WithKeys(node[n], Put(node[n], ks[1])),
                                   ![s] = WithKeys(node[s], Tail(ks)),
                                   ![p].ent[i] = ks[2]]
          BY <3>1, <2>1, <2>6, <2>7, Zenon DEF SeparatorAfter, Counted
        <4> QED BY <3>1, <4>1, <2>5, Zenon DEF GivesRight, Swaps
      <3>2. CASE node[n].type # "leaf"
        <4>1. node' = [node EXCEPT
                ![n] = Internal(Append(node[n].ent, node[p].ent[i]),
                                Append(node[n].child, node[s].child[1])),
                ![s] = Internal(Tail(node[s].ent), Tail(node[s].child)),
                ![p].ent[i] = node[s].ent[1]]
          BY <3>2, <2>1, <2>7, Zenon DEF Counted
        <4> QED BY <3>2, <4>1, Zenon DEF GivesRight, Swaps
      <3> QED BY <3>1, <3>2, Zenon
    <2>9. Moves(th, t, Done(t, l.result), th') BY <2>7, Zenon DEF Moves
    <2> QED BY <1>4, <2>2, <2>3, <2>4, <2>8, <2>9, Zenon DEF BorrowsRight
  <1>6. CASE ~(i <= node[p].count /\ node[s].count > MinOf(n))
    <2>1. i <= node[p].count => Poor(node, n, node[p].child[i + 1])
      <3>1. SUFFICES ASSUME i <= node[p].count PROVE Poor(node, n, s) BY Zenon
      <3>2. ~(node[s].count > Fewest(node[n])) BY <3>1, <1>3, <1>6, Zenon
      <3>3. PICK f \in Nat : f = Fewest(node[n]) BY Sizes DEF Fewest
      <3>4. PICK c \in Nat : c = node[s].count BY <3>1, Zenon DEF Counted
      <3>5. ~(c > f) BY <3>2, <3>3, <3>4, Zenon
      <3>6. c <= f BY <3>5, Compared, Zenon
      <3> QED BY <3>3, <3>4, <3>6, Zenon DEF Poor
    <2>2. th' = [th EXCEPT ![t].pc = "borrow_left"] /\ UNCHANGED node
      BY <1>1, <1>2, <1>6, Zenon DEF BorrowRight
    <2>3. PICK l2 : GoesOn(l, "borrow_left", l2) BY DEF GoesOn
    <2>4. Moves(th, t, l2, th') BY <2>2, <2>3 DEF Moves, GoesOn
    <2> QED BY <1>4, <2>1, <2>2, <2>3, <2>4, Zenon DEF BorrowsRight
  <1> QED BY <1>5, <1>6, Zenon
LEMMA BorrowLeftIs ==
  ASSUME NEW t, BorrowLeft(t), th \in [Threads -> Locals], t \in Threads,
         NEW l, l = th[t], NEW n,
         NEW p, Pair(l, n, p), NEW i, i = PlaceIn(node[p], n),
         NEW s, s = node[p].child[i - 1], i > 1 => Counted(n, s)
  PROVE  BorrowsLeft(t, l, n, p, i, s)
PROOF
  <1>1. n = NodeAt(t) /\ p = Parent(t) BY NamesAre DEF Pair
  <1>2. i = Place(t) BY <1>1, Zenon DEF Place, PlaceIn
  <1>3. MinOf(n) = Fewest(node[n]) BY NamesAre
  <1>4. /\ l.pc = "borrow_left" /\ (i > 1 => CanLatch(t, s))
        /\ UNCHANGED <<root, free>>
    BY <1>1, <1>2, Zenon DEF BorrowLeft
  <1>5. CASE i > 1 /\ node[s].count > MinOf(n)
    <2>1. Counted(n, s) BY <1>5, Zenon
    <2>2. ~Poor(node, n, s)
      <3>1. PICK f \in Nat : f = Fewest(node[n]) BY Sizes DEF Fewest
      <3>2. PICK c \in Nat : c = node[s].count BY <2>1, Zenon DEF Counted
      <3>3. c > f BY <3>1, <3>2, <1>3, <1>5, Zenon
      <3>4. ~(c <= f) BY <3>3, Compared, Zenon
      <3> QED BY <3>1, <3>2, <3>4, Zenon DEF Poor
    <2>3. LeftOf(node, p, i, s) BY <1>5, Zenon DEF LeftOf
    <2>4. Latchable(th, t, s) BY <1>4, <1>5, LatchableIs, Zenon
    <2>5. PICK ks : ks = Entries(node[s]) BY Zenon
    <2>6. /\ Keys(s) = ks
          /\ InsertAt(Keys(n), leaf_find(n, Last(ks)), Last(ks)) = Put(node[n], Last(ks))
      BY <2>5, NamesAre, Zenon DEF Put, Entries
    <2>7. /\ node' =
               IF node[n].type = "leaf"
               THEN [node EXCEPT
                 ![n] = WithKeys(@, InsertAt(Keys(n), leaf_find(n, Last(Keys(s))), Last(Keys(s)))),
                 ![s] = WithKeys(@, Front(Keys(s))),
                 ![p].ent[i - 1] = Last(Keys(s))]
               ELSE [node EXCEPT
                 ![n] = Internal(<<node[p].ent[i - 1]>> \o @.ent,
                                 <<Last(node[s].child)>> \o @.child),
                 ![s] = Internal(Front(@.ent), Front(@.child)),
                 ![p].ent[i - 1] = Last(node[s].ent)]
          /\ th' = [th EXCEPT ![t] = Done(t, l.result)]
      BY <1>1, <1>2, <1>5, Zenon DEF BorrowLeft
    <2>8. GivesLeft(node, n, p, i, s, node')
      <3>1. CASE node[n].type = "leaf"
        <4>1. node' = [node EXCEPT ![n] = WithKeys(node[n], Put(node[n], Last(ks))),
                                   ![s] = WithKeys(node[s], Front(ks)),
                                   ![p].ent[i - 1] = Last(ks)]
          BY <3>1, <2>1, <2>6, <2>7, Zenon DEF Counted
        <4> QED BY <3>1, <4>1, <2>5, Zenon DEF GivesLeft, Swaps
      <3>2. CASE node[n].type # "leaf"
        <4>1. node' = [node EXCEPT
                ![n] = Internal(<<node[p].ent[i - 1]>> \o node[n].ent,
                                <<Last(node[s].child)>> \o node[n].child),
                ![s] = Internal(Front(node[s].ent), Front(node[s].child)),
                ![p].ent[i - 1] = Last(node[s].ent)]
          BY <3>2, <2>1, <2>7, Zenon DEF Counted
        <4> QED BY <3>2, <4>1, Zenon DEF GivesLeft, Swaps
      <3> QED BY <3>1, <3>2, Zenon
    <2>9. Moves(th, t, Done(t, l.result), th') BY <2>7, Zenon DEF Moves
    <2> QED BY <1>4, <2>2, <2>3, <2>4, <2>8, <2>9, Zenon DEF BorrowsLeft
  <1>6. CASE ~(i > 1 /\ node[s].count > MinOf(n))
    <2>1. i > 1 => Poor(node, n, node[p].child[i - 1])
      <3>1. SUFFICES ASSUME i > 1 PROVE Poor(node, n, s) BY Zenon
      <3>2. ~(node[s].count > Fewest(node[n])) BY <3>1, <1>3, <1>6, Zenon
      <3>3. PICK f \in Nat : f = Fewest(node[n]) BY Sizes DEF Fewest
      <3>4. PICK c \in Nat : c = node[s].count BY <3>1, Zenon DEF Counted
      <3>5. ~(c > f) BY <3>2, <3>3, <3>4, Zenon
      <3>6. c <= f BY <3>5, Compared, Zenon
      <3> QED BY <3>3, <3>4, <3>6, Zenon DEF Poor
    <2>2. th' = [th EXCEPT ![t].pc = "merge"] /\ UNCHANGED node
      BY <1>1, <1>2, <1>6, Zenon DEF BorrowLeft
    <2>3. PICK l2 : GoesOn(l, "merge", l2) BY DEF GoesOn
    <2>4. Moves(th, t, l2, th') BY <2>2, <2>3 DEF Moves, GoesOn
    <2> QED BY <1>4, <2>1, <2>2, <2>3, <2>4, Zenon DEF BorrowsLeft
  <1> QED BY <1>5, <1>6, Zenon

\* The other kids of p are pages like n.
LEMMA KidCounted ==
  ASSUME NEW wr, NEW N, NEW r, NEW F, NEW H, NEW l, NEW n, NEW p, NEW i, NEW T, NEW v,
         NEW lo, NEW hi, NEW lev, NEW top, Nodes(N, r, F),
         Shaped(N, r, F, l, T, v, lo, hi, lev, top),
         Kin(wr, N, r, F, H, l, n, p, i, T, v, lo, hi, lev, top),
         NEW j \in 1..Len(N[p].child), j # i
  PROVE  /\ N[N[p].child[j]].count \in Nat /\ n # N[p].child[j]
         /\ N[p].child[j] \in Pages /\ N[p].child[j] \in T
PROOF
  <1>1. /\ InnerFits(N[p].ent, N[p].child, lo[p], hi[p], lev[p], T, lo, hi, lev)
        /\ i \in 1..Len(N[p].child) /\ N[p].child[i] = n
    BY DEF Kin
  <1>2. PICK cs \in Seq(T) : cs = N[p].child BY <1>1 DEF InnerFits
  <1>3. T \subseteq Pages BY DEF Shaped
  <1>4. cs[j] \in T BY <1>2
  <1>5. cs[j] \in Pages BY <1>3, <1>4
  <1>6. N[cs[j]] \in NodeType /\ IsNode(N[cs[j]]) BY <1>5 DEF Nodes
  <1>7. N[cs[j]].count \in Nat BY <1>6, KeysAre
  <1>8. Ranges(T, lo, hi, lev, lev[r], top) BY DEF Shaped, Tree
  <1>9. \A x, y \in 1..Len(N[p].child) : x < y => N[p].child[x] # N[p].child[y]
    BY <1>1, <1>8, Order
  <1>10. Len(cs) \in Nat BY <1>2
  <1>11. i < j \/ j < i BY <1>1, <1>2, <1>10
  <1>12. n # cs[j] BY <1>1, <1>2, <1>9, <1>11
  <1> QED BY <1>2, <1>4, <1>5, <1>7, <1>12

LEMMA BorrowRightStep ==
  ASSUME NEW wr \in Threads, InvOf(wr), BorrowRight(wr)
  PROVE  InvOf(wr)'
PROOF
  <1>1. PICK T, v, lo, hi, lev, top : Whole(wr, node, root, free, th, T, v, lo, hi, lev, top)
    BY DEF InvOf
  <1>2. PICK l : l = th[wr] OBVIOUS
  <1>3. PICK n, p : Pair(l, n, p) BY Zenon DEF Pair
  <1>5. PICK i : i = PlaceIn(node[p], n) OBVIOUS
  <1>6. PICK s : s = node[p].child[i + 1] OBVIOUS
  <1>7. l.pc = "borrow_right" BY <1>2, Zenon DEF BorrowRight
  <1>8. l.pc \in Repairing BY <1>7 DEF Repairing
  <1>9. Kin(wr, node, root, free, th, l, n, p, i, T, v, lo, hi, lev, top)
    BY <1>1, <1>2, <1>3, <1>5, <1>8, KinIs
  <1>10. /\ Nodes(node, root, free) /\ Shaped(node, root, free, l, T, v, lo, hi, lev, top)
         /\ wr \in Threads /\ l \in Locals /\ l.result \in {"none", "found", "missing"}
    BY <1>1, <1>2, WriterKnows
  <1>11. th \in [Threads -> Locals]
    <2>1. Threading(node, th, T, lo, hi) BY <1>1, WholeIs
    <2> QED BY <2>1 DEF Threading
  <1>12. i <= node[p].count => Counted(n, s)
    <2>1. SUFFICES ASSUME i <= node[p].count PROVE Counted(n, s) OBVIOUS
    <2>2. PICK c \in Nat : c = node[p].count BY <1>9 DEF Kin
    <2>3. i \in 1..(c + 1) /\ Len(node[p].child) = c + 1 BY <1>9, <2>2 DEF Kin
    <2>4. PICK j \in 1..(c + 1) : j = i + 1 /\ j # i
      <3>1. i <= c BY <2>1, <2>2
      <3> QED BY <3>1, <2>3
    <2>5. j \in 1..Len(node[p].child) BY <2>3
    <2>6. node[node[p].child[j]].count \in Nat /\ n # node[p].child[j]
      BY <2>4, <2>5, <1>9, <1>10, KidCounted, SMTT(30)
    <2> QED BY <2>4, <2>6, <1>6 DEF Counted
  <1>13. BorrowsRight(wr, l, n, p, i, s)
    BY <1>2, <1>3, <1>5, <1>6, <1>10, <1>11, <1>12, BorrowRightIs
  <1>14. root' = root /\ free' = free BY <1>13 DEF BorrowsRight
  <1>15. CASE /\ RightOf(node, p, i, s) /\ ~Poor(node, n, s) /\ Latchable(th, wr, s)
              /\ GivesRight(node, n, p, i, s, node')
              /\ Moves(th, wr, Done(wr, l.result), th')
    <2>1. PICK d : d = Done(wr, l.result) OBVIOUS
    <2>2. Ended(d, l, l.got, l.result) BY <2>1, <1>2, <1>10, WriterDone
    <2>3. Moves(th, wr, d, th') BY <2>1, <1>15, Zenon
    <2>4. PICK v2, lo2, hi2 : Whole(wr, node', root, free, th', T, v2, lo2, hi2, lev, top)
      BY <1>1, <1>2, <1>3, <1>5, <1>8, <1>15, <2>2, <2>3, RightGives
    <2> QED BY <2>4, <1>14, Landed
  <1>16. CASE /\ i <= node[p].count => Poor(node, n, node[p].child[i + 1])
              /\ \E l2 : GoesOn(l, "borrow_left", l2) /\ Moves(th, wr, l2, th')
              /\ UNCHANGED node
    <2>1. PICK l2 : GoesOn(l, "borrow_left", l2) /\ Moves(th, wr, l2, th') BY <1>16, Zenon
    <2>2. Whole(wr, node, root, free, th', T, v, lo, hi, lev, top)
      BY <1>1, <1>2, <1>3, <1>5, <1>7, <1>16, <2>1, RightFails
    <2> QED BY <2>2, <1>14, <1>16, Unmoved
  <1> QED BY <1>13, <1>15, <1>16 DEF BorrowsRight

LEMMA BorrowLeftStep ==
  ASSUME NEW wr \in Threads, InvOf(wr), BorrowLeft(wr)
  PROVE  InvOf(wr)'
PROOF
  <1>1. PICK T, v, lo, hi, lev, top : Whole(wr, node, root, free, th, T, v, lo, hi, lev, top)
    BY DEF InvOf
  <1>2. PICK l : l = th[wr] OBVIOUS
  <1>3. PICK n, p : Pair(l, n, p) BY Zenon DEF Pair
  <1>5. PICK i : i = PlaceIn(node[p], n) OBVIOUS
  <1>6. PICK s : s = node[p].child[i - 1] OBVIOUS
  <1>7. l.pc = "borrow_left" BY <1>2, Zenon DEF BorrowLeft
  <1>8. l.pc \in Repairing BY <1>7 DEF Repairing
  <1>9. Kin(wr, node, root, free, th, l, n, p, i, T, v, lo, hi, lev, top)
    BY <1>1, <1>2, <1>3, <1>5, <1>8, KinIs
  <1>10. /\ Nodes(node, root, free) /\ Shaped(node, root, free, l, T, v, lo, hi, lev, top)
         /\ wr \in Threads /\ l \in Locals /\ l.result \in {"none", "found", "missing"}
    BY <1>1, <1>2, WriterKnows
  <1>11. th \in [Threads -> Locals]
    <2>1. Threading(node, th, T, lo, hi) BY <1>1, WholeIs
    <2> QED BY <2>1 DEF Threading
  <1>12. i > 1 => Counted(n, s)
    <2>1. SUFFICES ASSUME i > 1 PROVE Counted(n, s) OBVIOUS
    <2>2. PICK c \in Nat : c = node[p].count BY <1>9 DEF Kin
    <2>3. i \in 1..(c + 1) /\ Len(node[p].child) = c + 1 BY <1>9, <2>2 DEF Kin
    <2>4. PICK j \in 1..(c + 1) : j = i - 1 /\ j # i BY <2>1, <2>3
    <2>5. j \in 1..Len(node[p].child) BY <2>3
    <2>6. node[node[p].child[j]].count \in Nat /\ n # node[p].child[j]
      BY <2>4, <2>5, <1>9, <1>10, KidCounted, SMTT(30)
    <2> QED BY <2>4, <2>6, <1>6 DEF Counted
  <1>13. BorrowsLeft(wr, l, n, p, i, s)
    BY <1>2, <1>3, <1>5, <1>6, <1>10, <1>11, <1>12, BorrowLeftIs
  <1>14. root' = root /\ free' = free BY <1>13 DEF BorrowsLeft
  <1>15. CASE /\ LeftOf(node, p, i, s) /\ ~Poor(node, n, s) /\ Latchable(th, wr, s)
              /\ GivesLeft(node, n, p, i, s, node')
              /\ Moves(th, wr, Done(wr, l.result), th')
    <2>1. PICK d : d = Done(wr, l.result) OBVIOUS
    <2>2. Ended(d, l, l.got, l.result) BY <2>1, <1>2, <1>10, WriterDone
    <2>3. Moves(th, wr, d, th') BY <2>1, <1>15, Zenon
    <2>4. PICK v2, lo2, hi2 : Whole(wr, node', root, free, th', T, v2, lo2, hi2, lev, top)
      BY <1>1, <1>2, <1>3, <1>5, <1>8, <1>15, <2>2, <2>3, LeftGives
    <2> QED BY <2>4, <1>14, Landed
  <1>16. CASE /\ i > 1 => Poor(node, n, node[p].child[i - 1])
              /\ \E l2 : GoesOn(l, "merge", l2) /\ Moves(th, wr, l2, th')
              /\ UNCHANGED node
    <2>1. PICK l2 : GoesOn(l, "merge", l2) /\ Moves(th, wr, l2, th') BY <1>16, Zenon
    <2>2. Whole(wr, node, root, free, th', T, v, lo, hi, lev, top)
      BY <1>1, <1>2, <1>3, <1>5, <1>7, <1>16, <2>1, LeftFails
    <2> QED BY <2>2, <1>14, <1>16, Unmoved
  <1> QED BY <1>13, <1>15, <1>16 DEF BorrowsLeft

-----------------------------------------------------------------------------
\* Two siblings in one page: x is the left one, y the right one.
Fitting(x, y) ==
  IF x.type = "leaf"
  THEN MinLeaf <= x.count + y.count /\ x.count + y.count <= MaxLeaf
  ELSE MinInternal <= x.count + y.count + 1 /\ x.count + y.count + 1 <= MaxInternal

LEMMA FittingIs ==
  ASSUME NEW x, NEW y, x.type = y.type, x.count \in Nat, y.count \in Nat, Lacks(x),
         y.count = Fewest(x)
  PROVE  Fitting(x, y) /\ Fitting(y, x)
PROOF
  <1>1. PICK a \in Nat : a = x.count OBVIOUS
  <1>2. PICK b \in Nat : b = y.count OBVIOUS
  <1>3. CASE x.type = "leaf"
    <2>1. Fewest(x) = MinLeaf BY <1>3 DEF Fewest
    <2>2. a < MinLeaf /\ b = MinLeaf BY <2>1, <1>1, <1>2 DEF Lacks
    <2>3. MinLeaf \in Nat /\ 2 * MinLeaf <= MaxLeaf /\ MaxLeaf \in Nat BY Sizes
    <2>4. MinLeaf <= a + b /\ a + b <= MaxLeaf /\ a + b = b + a BY <2>2, <2>3
    <2> QED BY <2>4, <1>1, <1>2, <1>3 DEF Fitting
  <1>4. CASE x.type # "leaf"
    <2>1. Fewest(x) = MinInternal BY <1>4 DEF Fewest
    <2>2. a < MinInternal /\ b = MinInternal BY <2>1, <1>1, <1>2 DEF Lacks
    <2>3. MinInternal \in Nat /\ 2 * MinInternal <= MaxInternal /\ MaxInternal \in Nat
      BY Sizes
    <2>4. MinInternal <= a + b + 1 /\ a + b + 1 <= MaxInternal /\ a + b = b + a
      BY <2>2, <2>3
    <2> QED BY <2>4, <1>1, <1>2, <1>4 DEF Fitting
  <1> QED BY <1>3, <1>4

LeafUnited(z, y, a, c) ==
  /\ z \in NodeType /\ IsNode(z) /\ z.type = "leaf" /\ z.count >= MinLeaf
  /\ Plain(z).kids = << >> /\ InRange(Plain(z).keys, a, c) /\ Plain(z).next = y.next
InnerUnited(z, a, c, d, T, lo, hi, lev) ==
  /\ z \in NodeType /\ IsNode(z) /\ z.type = "internal" /\ z.count >= MinInternal
  /\ InnerFits(Plain(z).keys, Plain(z).kids, a, c, d, T, lo, hi, lev)

LEMMA NextIs ==
  ASSUME NEW n, NEW ks, NEW nx, IsLeaf(n, ks, nx), NEW m \in PageNo,
         NEW z, z = [n EXCEPT !.next = m]
  PROVE  IsLeaf(z, ks, m)
PROOF
  <1>1. n = [type |-> n.type, count |-> n.count, next |-> n.next, child |-> n.child,
             ent |-> n.ent]
    BY DEF IsLeaf, NodeType
  <1>2. z = [type |-> n.type, count |-> n.count, next |-> m, child |-> n.child,
             ent |-> n.ent]
    BY <1>1
  <1>3. z \in NodeType BY <1>2 DEF IsLeaf, NodeType
  <1> QED BY <1>2, <1>3 DEF IsLeaf

LEMMA LeafUnion ==
  ASSUME NEW x \in NodeType, IsNode(x), x.type = "leaf",
         NEW y \in NodeType, IsNode(y), y.type = "leaf",
         NEW a \in Nat, NEW b \in Nat, NEW c \in Nat, a < b, b < c,
         Within(x, a, b), Within(y, b, c), Fitting(x, y)
  PROVE  LeafUnited([WithKeys(x, Entries(x) \o Entries(y)) EXCEPT !.next = y.next], y, a, c)
PROOF
  <1>1. PICK k1 : k1 = Entries(x) OBVIOUS
  <1>2. PICK k2 : k2 = Entries(y) OBVIOUS
  <1>3. InRange(k1, a, b) /\ InRange(k2, b, c) BY <1>1, <1>2 DEF Within, Entries
  <1>4. /\ Len(k1) = x.count /\ x.count \in Nat /\ Len(k2) = y.count /\ y.count \in Nat
        /\ y.next \in PageNo
    BY <1>1, <1>2, KeysAre DEF Entries
  <1>5. PICK ks : ks = k1 \o k2 OBVIOUS
  <1>6. a <= b /\ b <= c OBVIOUS
  <1>7. InRange(ks, a, c) /\ Len(ks) = Len(k1) + Len(k2)
    BY <1>3, <1>5, <1>6, JoinInRange
  <1>8. ks \in Seq(Nat) /\ Len(ks) <= MaxLeaf /\ Len(ks) >= MinLeaf
    <2>1. MinLeaf <= x.count + y.count /\ x.count + y.count <= MaxLeaf BY DEF Fitting
    <2>2. ks \in Seq(Nat) BY <1>7 DEF InRange
    <2> QED BY <2>1, <2>2, <1>4, <1>7, Sizes
  <1>9. PICK n : n = WithKeys(x, ks) OBVIOUS
  <1>10. IsLeaf(n, ks, x.next)
    <2>1. x.child = << >> BY DEF IsNode
    <2> QED BY <2>1, <1>8, <1>9, WithKeysIs
  <1>11. PICK z : z = [n EXCEPT !.next = y.next] OBVIOUS
  <1>12. IsLeaf(z, ks, y.next) BY <1>4, <1>10, <1>11, NextIs
  <1>13. /\ Plain(z).keys = ks /\ Plain(z).kids = << >> /\ Plain(z).next = y.next
         /\ z \in NodeType /\ IsNode(z) /\ z.type = "leaf" /\ z.count = Len(ks)
    BY <1>8, <1>12, LeafPlain
  <1>14. LeafUnited(z, y, a, c) BY <1>7, <1>8, <1>13 DEF LeafUnited
  <1> QED BY <1>1, <1>2, <1>5, <1>9, <1>11, <1>14

LEMMA InnerUnion ==
  ASSUME NEW T, T \subseteq Pages, NEW lo, NEW hi, NEW lev, NEW d,
         NEW x, x.type = "internal", x.count = Len(x.ent),
         NEW y, y.type = "internal", y.count = Len(y.ent),
         NEW a \in Nat, NEW b \in Nat, NEW c \in Nat,
         InnerFits(x.ent, x.child, a, b, d, T, lo, hi, lev),
         InnerFits(y.ent, y.child, b, c, d, T, lo, hi, lev), Fitting(x, y)
  PROVE  InnerUnited(Internal(x.ent \o <<b>> \o y.ent, x.child \o y.child), a, c, d,
                     T, lo, hi, lev)
PROOF
  <1>1. PICK ks : ks = x.ent \o <<b>> \o y.ent OBVIOUS
  <1>2. PICK cs : cs = x.child \o y.child OBVIOUS
  <1>3. InnerFits(ks, cs, a, c, d, T, lo, hi, lev) BY <1>1, <1>2, JoinFits
  <1>4. ks \in Seq(Nat) /\ cs \in Seq(Pages) /\ Len(ks) \in Nat BY <1>3, FitsTypes
  <1>5. /\ x.ent \in Seq(Nat) /\ Len(x.ent) \in Nat /\ y.ent \in Seq(Nat) /\ Len(y.ent) \in Nat
    BY FitsTypes
  <1>6. Len(ks) = x.count + y.count + 1
    <2>1. PICK m \in Nat : m = Len(x.ent) BY <1>5
    <2>2. PICK o \in Nat : o = Len(y.ent) BY <1>5
    <2>3. PICK one \in Seq(Nat) : one = <<b>> /\ Len(one) = 1 BY OneIs
    <2>4. PICK e : e = x.ent \o one OBVIOUS
    <2>5. e \in Seq(Nat) /\ Len(e) = m + 1 BY <1>5, <2>1, <2>3, <2>4, JoinIs
    <2>6. ks = e \o y.ent BY <1>1, <2>3, <2>4
    <2>7. Len(ks) = m + 1 + o
      <3>1. PICK f \in Seq(Nat) : f = y.ent BY <1>5
      <3>2. Len(e \o f) = Len(e) + Len(f) BY <2>5, JoinIs
      <3> QED BY <3>1, <3>2, <2>2, <2>5, <2>6
    <2>8. m + 1 + o = m + o + 1 OBVIOUS
    <2> QED BY <2>1, <2>2, <2>7, <2>8
  <1>7. MinInternal <= Len(ks) /\ Len(ks) <= MaxInternal BY <1>6 DEF Fitting
  <1>8. PICK z : z = Internal(ks, cs) OBVIOUS
  <1>9. /\ z \in NodeType /\ IsNode(z) /\ z.type = "internal" /\ z.count = Len(ks)
        /\ Plain(z).keys = ks /\ Plain(z).kids = cs
    BY <1>4, <1>7, <1>8, InternalIs
  <1>10. z.count >= MinInternal BY <1>4, <1>7, <1>9, Sizes
  <1>11. InnerUnited(z, a, c, d, T, lo, hi, lev) BY <1>3, <1>9, <1>10 DEF InnerUnited
  <1> QED BY <1>1, <1>2, <1>8, <1>11

\* The page left has taken in all that was in its right sibling.
Unites(N, N2, r, F, left, right, lo, hi, lev, T) ==
  /\ Nodes(N2, r, F) /\ \A q \in Pages : q # left => N2[q] = N[q]
  /\ N2[left].type = N[left].type /\ N2[left].count >= Fewest(N2[left])
  /\ lev[left] = 0 => /\ Plain(N2[left]).kids = << >>
                      /\ InRange(Plain(N2[left]).keys, lo[left], hi[right])
                      /\ Plain(N2[left]).next = N[right].next
  /\ lev[left] # 0 => InnerFits(Plain(N2[left]).keys, Plain(N2[left]).kids, lo[left],
                                hi[right], lev[left], T, lo, hi, lev)
Empties(l, l2, right, p) ==
  /\ l2.pc = "unlink" /\ l2.gone = right /\ l2.level = l.level
  /\ l2.held = l.held /\ l2.request = l.request /\ p = l2.held[l2.level - 1]

UnitedHi(T, hi, left, right) == [q \in T |-> IF q = left THEN hi[right] ELSE hi[q]]
LEMMA UnitedIs ==
  ASSUME NEW T, NEW hi, NEW left, NEW right
  PROVE  United(T, hi, left, right, UnitedHi(T, hi, left, right))
PROOF BY DEF United, UnitedHi

\* Two siblings in the page of the left one.
Fills(N, n, p, j, left, right, N2) ==
  \/ /\ N[n].type = "leaf"
     /\ N2 = [N EXCEPT ![left] =
                [WithKeys(N[left], Entries(N[left]) \o Entries(N[right])) EXCEPT
                   !.next = N[right].next]]
  \/ /\ N[n].type # "leaf"
     /\ N2 = [N EXCEPT ![left] = Internal(N[left].ent \o <<N[p].ent[j]>> \o N[right].ent,
                                          N[left].child \o N[right].child)]

\* The two of them as Beside has them, the left one first.
Facing(N, left, right, lo, hi, lev, T) ==
  /\ N[left] \in NodeType /\ IsNode(N[left]) /\ N[right] \in NodeType /\ IsNode(N[right])
  /\ N[left].type \in {"leaf", "internal"} /\ N[right].type = N[left].type
  /\ N[left].type = "leaf" =>
       Within(N[left], lo[left], hi[left]) /\ Within(N[right], hi[left], hi[right])
  /\ N[left].type = "internal" =>
       /\ N[left].count = Len(N[left].ent) /\ N[right].count = Len(N[right].ent)
       /\ InnerFits(N[left].ent, N[left].child, lo[left], hi[left], lev[left], T, lo, hi, lev)
       /\ InnerFits(N[right].ent, N[right].child, hi[left], hi[right], lev[left],
                    T, lo, hi, lev)

LEMMA FacingIs ==
  ASSUME NEW wr, NEW N, NEW r, NEW H, NEW n, NEW p, NEW j, NEW left, NEW right, NEW sib, NEW T,
         NEW lo, NEW hi, NEW lev,
         Beside(wr, N, r, H, n, p, j, left, right, sib, T, lo, hi, lev),
         Sides(N, n, sib, T, lo, hi, lev)
  PROVE  Facing(N, left, right, lo, hi, lev, T)
PROOF
  <1>1. /\ N[n] \in NodeType /\ IsNode(N[n]) /\ N[sib] \in NodeType /\ IsNode(N[sib])
        /\ N[sib].type = N[n].type
        /\ N[n].type = "leaf" => Within(N[n], lo[n], hi[n]) /\ Within(N[sib], lo[sib], hi[sib])
        /\ N[n].type # "leaf" =>
             /\ N[n].type = "internal"
             /\ N[n].count = Len(N[n].ent) /\ N[sib].count = Len(N[sib].ent)
             /\ InnerFits(N[n].ent, N[n].child, lo[n], hi[n], lev[n], T, lo, hi, lev)
             /\ InnerFits(N[sib].ent, N[sib].child, lo[sib], hi[sib], lev[n], T, lo, hi, lev)
    BY DEF Sides
  <1>2. lo[right] = hi[left] /\ lev[left] = lev[n] BY DEF Beside
  <1>3. CASE left = n /\ right = sib BY <1>1, <1>2, <1>3 DEF Facing
  <1>4. CASE left = sib /\ right = n BY <1>1, <1>2, <1>4 DEF Facing
  <1> QED BY <1>3, <1>4 DEF Beside

LEMMA MergeUnites ==
  ASSUME NEW wr, NEW N, NEW r, NEW F, Nodes(N, r, F), NEW T, T \subseteq Pages, NEW lo, NEW hi, NEW lev,
         NEW H, NEW n, NEW p, NEW j, NEW left, NEW right, NEW sib,
         Beside(wr, N, r, H, n, p, j, left, right, sib, T, lo, hi, lev),
         Facing(N, left, right, lo, hi, lev, T), Fitting(N[left], N[right]),
         NEW N2, Fills(N, n, p, j, left, right, N2)
  PROVE  Unites(N, N2, r, F, left, right, lo, hi, lev, T)
PROOF
  <1>1. /\ left \in Pages /\ left \in T /\ lev[left] = lev[n] /\ hi[left] = N[p].ent[j]
        /\ lo[left] \in Nat /\ hi[left] \in Nat /\ hi[right] \in Nat
        /\ lo[left] < hi[left] /\ hi[left] < hi[right]
        /\ N[left].type = N[n].type
        /\ N[n].type = IF lev[n] = 0 THEN "leaf" ELSE "internal"
    BY DEF Beside
  <1>2. left \notin F BY <1>1 DEF Nodes
  <1>3. ASSUME NEW x \in NodeType, IsNode(x), x.type = N[left].type,
               N2 = [N EXCEPT ![left] = x]
        PROVE  Nodes(N2, r, F) /\ Only(N, N2, left, x)
    <2>1. x.type # "free" BY <1>1, <1>3
    <2>2. F \ {left} = F BY <1>2
    <2>3. Only(N, N2, left, x) /\ (x.type # "free" => Nodes(N2, r, F \ {left}))
      BY <1>1, <1>3, OnlyIs
    <2>4. Nodes(N2, r, F \ {left}) BY <2>1, <2>3
    <2> QED BY <2>2, <2>3, <2>4
  <1>4. CASE N[n].type = "leaf"
    <2>1. PICK x : x = [WithKeys(N[left], Entries(N[left]) \o Entries(N[right])) EXCEPT
                          !.next = N[right].next]
      OBVIOUS
    <2>2. LeafUnited(x, N[right], lo[left], hi[right])
      <3>1. /\ N[left] \in NodeType /\ IsNode(N[left]) /\ N[left].type = "leaf"
            /\ N[right] \in NodeType /\ IsNode(N[right]) /\ N[right].type = "leaf"
            /\ Within(N[left], lo[left], hi[left]) /\ Within(N[right], hi[left], hi[right])
        BY <1>1, <1>4 DEF Facing
      <3> QED BY <3>1, <2>1, <1>1, LeafUnion
    <2>3. /\ x \in NodeType /\ IsNode(x) /\ x.type = "leaf" /\ x.count >= MinLeaf
          /\ Plain(x).kids = << >> /\ InRange(Plain(x).keys, lo[left], hi[right])
          /\ Plain(x).next = N[right].next
      BY <2>2 DEF LeafUnited
    <2>4. N2 = [N EXCEPT ![left] = x] BY <2>1, <1>4 DEF Fills
    <2>5. Nodes(N2, r, F) /\ Only(N, N2, left, x) BY <2>3, <2>4, <1>1, <1>3, <1>4
    <2>6. N2[left] = x /\ \A q \in Pages : q # left => N2[q] = N[q] BY <2>5 DEF Only
    <2>7. lev[left] = 0 BY <1>1, <1>4
    <2>8. x.count >= Fewest(x) BY <2>3 DEF Fewest
    <2> QED BY <2>3, <2>5, <2>6, <2>7, <2>8, <1>1, <1>4 DEF Unites
  <1>5. CASE N[n].type # "leaf"
    <2>1. PICK x : x = Internal(N[left].ent \o <<hi[left]>> \o N[right].ent,
                                N[left].child \o N[right].child)
      OBVIOUS
    <2>2. N[left].type = "internal" /\ lev[left] # 0 BY <1>1, <1>5
    <2>3. InnerUnited(x, lo[left], hi[right], lev[left], T, lo, hi, lev)
      <3>1. /\ N[right].type = "internal"
            /\ N[left].count = Len(N[left].ent) /\ N[right].count = Len(N[right].ent)
            /\ InnerFits(N[left].ent, N[left].child, lo[left], hi[left], lev[left],
                         T, lo, hi, lev)
            /\ InnerFits(N[right].ent, N[right].child, hi[left], hi[right], lev[left],
                         T, lo, hi, lev)
        BY <2>2 DEF Facing
      <3> QED BY <3>1, <2>1, <2>2, <1>1, InnerUnion
    <2>4. /\ x \in NodeType /\ IsNode(x) /\ x.type = "internal" /\ x.count >= MinInternal
          /\ InnerFits(Plain(x).keys, Plain(x).kids, lo[left], hi[right], lev[left],
                       T, lo, hi, lev)
      BY <2>3 DEF InnerUnited
    <2>5. N2 = [N EXCEPT ![left] = x] BY <2>1, <1>1, <1>5 DEF Fills
    <2>6. Nodes(N2, r, F) /\ Only(N, N2, left, x) BY <2>2, <2>4, <2>5, <1>3
    <2>7. N2[left] = x /\ \A q \in Pages : q # left => N2[q] = N[q] BY <2>6 DEF Only
    <2>8. x.count >= Fewest(x) BY <2>4 DEF Fewest
    <2> QED BY <2>2, <2>4, <2>6, <2>7, <2>8 DEF Unites
  <1> QED BY <1>4, <1>5

\* What leaves the parent stands right after the left one.
LEMMA GoneIs ==
  ASSUME NEW wr, NEW N, NEW r, NEW F, NEW H, NEW l, NEW n, NEW p, NEW i, NEW T, NEW v,
         NEW lo, NEW hi, NEW lev, NEW top,
         Kin(wr, N, r, F, H, l, n, p, i, T, v, lo, hi, lev, top),
         NEW j, NEW left, NEW right, NEW sib,
         Beside(wr, N, r, H, n, p, j, left, right, sib, T, lo, hi, lev)
  PROVE  \E o \in 2..Len(N[p].child) :
           o - 1 = j /\ o = PlaceIn(N[p], right) /\ N[p].child[o] = right
PROOF
  <1>1. /\ Calm(N, r, F, T, v, lo, hi, lev, top) /\ N[p].count \in Nat
        /\ InnerFits(N[p].ent, N[p].child, lo[p], hi[p], lev[p], T, lo, hi, lev)
        /\ Len(N[p].child) = N[p].count + 1
    BY DEF Kin
  <1>2. j \in 1..N[p].count /\ right = N[p].child[j + 1] BY DEF Beside
  <1>3. PICK o \in 2..Len(N[p].child) : o = j + 1 /\ j = o - 1 /\ o \in 1..Len(N[p].child)
    <2>1. PICK c \in Nat : c = N[p].count BY <1>1
    <2>2. j \in 1..c /\ Len(N[p].child) = c + 1 BY <2>1, <1>1, <1>2
    <2>3. j + 1 \in 2..(c + 1) /\ j + 1 \in 1..(c + 1) /\ j = (j + 1) - 1 BY <2>2
    <2> QED BY <2>2, <2>3
  <1>4. PlaceIn(N[p], right) = o
    <2>1. PICK h : Ranges(T, lo, hi, lev, h, top) BY <1>1 DEF Calm, Tree
    <2>2. PICK ks, cs : ks = N[p].ent /\ cs = N[p].child OBVIOUS
    <2>3. PICK a, b, d : InnerFits(ks, cs, a, b, d, T, lo, hi, lev) BY <1>1, <2>2
    <2>4. \A x, y \in 1..Len(cs) : x < y => cs[x] # cs[y] BY <2>1, <2>3, Order
    <2>5. cs \in Seq(T) BY <2>3 DEF InnerFits
    <2>6. DOMAIN cs = 1..Len(cs) /\ Len(cs) \in Nat BY <2>5
    <2>7. o \in 1..Len(cs) /\ cs[o] = right BY <2>2, <1>2, <1>3
    <2>8. \A x \in 1..Len(cs) : x = o \/ x < o \/ o < x BY <2>6, <2>7
    <2>9. \A x \in 1..Len(cs) : cs[x] = right => x = o BY <2>4, <2>7, <2>8
    <2>10. (CHOOSE x \in DOMAIN cs : cs[x] = right) = o BY <2>6, <2>7, <2>9
    <2> QED BY <2>2, <2>10 DEF PlaceIn
  <1> QED BY <1>2, <1>3, <1>4

Without(T, q, T2) == T2 = T \ {q}

LEMMA UniteShaped ==
  ASSUME NEW wr, NEW N, NEW r, NEW F, NEW H, NEW l, NEW n, NEW p, NEW i, NEW T, NEW v,
         NEW lo, NEW hi, NEW lev, NEW top, Nodes(N, r, F),
         Kin(wr, N, r, F, H, l, n, p, i, T, v, lo, hi, lev, top),
         NEW j, NEW left, NEW right, NEW sib,
         Beside(wr, N, r, H, n, p, j, left, right, sib, T, lo, hi, lev),
         NEW N2, Unites(N, N2, r, F, left, right, lo, hi, lev, T),
         NEW l2, Empties(l, l2, right, p), NEW T2, Without(T, right, T2)
  PROVE  \E v2, hi2 : /\ United(T, hi, left, right, hi2)
                      /\ Shaped(N2, r, F, l2, T2, v2, lo, hi2, lev, top)
PROOF
  <1>1. /\ Calm(N, r, F, T, v, lo, hi, lev, top) /\ p \in T /\ p \in Pages
        /\ N[p].type = "internal" /\ N[p] \in NodeType /\ IsNode(N[p]) /\ N[p].count \in Nat
        /\ InnerFits(N[p].ent, N[p].child, lo[p], hi[p], lev[p], T, lo, hi, lev)
        /\ Len(N[p].child) = N[p].count + 1 /\ Len(N[p].ent) = N[p].count
    BY DEF Kin
  <1>2. /\ Tree(T, v, lo, hi, lev, lev[r], top) /\ T = Pages \ F /\ r \in T /\ hi[r] = top
        /\ lo[r] = 0
        /\ \A q \in T : /\ v[q] = Plain(N[q])
                        /\ N[q].type = IF lev[q] = 0 THEN "leaf" ELSE "internal"
    BY <1>1 DEF Calm
  <1>3. /\ j \in 1..N[p].count /\ left = N[p].child[j] /\ right = N[p].child[j + 1]
        /\ left \in T /\ right \in T /\ left # right /\ left # p /\ right # p
        /\ left # r /\ right # r /\ lev[right] = lev[left]
    BY DEF Beside
  <1>4. PICK hi2 : United(T, hi, left, right, hi2) BY UnitedIs
  <1>5. PICK v2 : v2 = [q \in T |-> View(N2, l2, q)] OBVIOUS
  <1>6. \A q \in T : v2[q] = View(N2, l2, q) BY <1>5
  <1>7. N2[p] = N[p] BY <1>1, <1>3 DEF Unites
  <1>8. PICK o \in 2..Len(N[p].child) : o - 1 = j /\ o = PlaceIn(N[p], right) BY GoneIs
  <1>10. View(N2, l2, p) = Shorn(N[p], o)
    <2>1. /\ ~Growing(l2) /\ l2.pc = "unlink" /\ l2.gone = right
          /\ p = l2.held[l2.level - 1]
      BY DEF Empties, Growing
    <2> QED BY <2>1, <1>7, <1>8 DEF View
  <1>11. \A q \in T : q # p => View(N2, l2, q) = Plain(N2[q])
    <2>1. ~Growing(l2) /\ p = l2.held[l2.level - 1] BY DEF Empties, Growing
    <2> QED BY <2>1 DEF View
  <1>12. Plain(N[p]).keys = N[p].ent /\ Plain(N[p]).kids = N[p].child BY <1>1 DEF Plain
  <1>13. v[p].keys = N[p].ent /\ v[p].kids = N[p].child BY <1>1, <1>2, <1>12
  <1>14. Cut(v[p], v2[p], j)
    <2>1. v2[p] = Shorn(N[p], o) BY <1>1, <1>6, <1>10
    <2>2. v2[p].keys = RemoveAt(N[p].ent, o - 1) /\ v2[p].kids = RemoveAt(N[p].child, o)
      BY <2>1 DEF Shorn
    <2>3. PICK c \in Nat : c = N[p].count BY <1>1
    <2>4. o \in 2..(c + 1) BY <2>3, <1>1, <1>8
    <2>5. o - 1 = j /\ o = j + 1 BY <2>4, <1>8
    <2> QED BY <2>2, <2>5, <1>13 DEF Cut
  <1>15. Same(v, v2, T \ {p, left, right})
    <2>1. ASSUME NEW q \in T \ {p, left, right} PROVE v2[q] = v[q]
      <3>1. q \in T /\ q \in Pages /\ q # p /\ q # left BY <1>2
      <3>2. N2[q] = N[q] BY <3>1 DEF Unites
      <3>3. v2[q] = Plain(N2[q]) /\ v[q] = Plain(N[q]) BY <3>1, <1>2, <1>6, <1>11
      <3> QED BY <3>2, <3>3
    <2> QED BY <2>1 DEF Same
  <1>16. lev[p] # 0 BY <1>1, <1>2
  <1>17. v2[left] = Plain(N2[left]) /\ v[right] = Plain(N[right])
    BY <1>2, <1>3, <1>6, <1>11
  <1>18. lev[left] = 0 =>
           /\ v2[left].kids = << >> /\ InRange(v2[left].keys, lo[left], hi[right])
           /\ v2[left].next = v[right].next
    <2>1. SUFFICES ASSUME lev[left] = 0
                   PROVE  /\ v2[left].kids = << >>
                          /\ InRange(v2[left].keys, lo[left], hi[right])
                          /\ v2[left].next = v[right].next
      OBVIOUS
    <2>2. /\ v2[left].kids = << >> /\ InRange(v2[left].keys, lo[left], hi[right])
          /\ v2[left].next = N[right].next
      BY <2>1, <1>17 DEF Unites
    <2>3. \A x : Plain(x).next = x.next BY DEF Plain
    <2>4. v[right].next = N[right].next BY <2>3, <1>17
    <2> QED BY <2>2, <2>4
  <1>19. lev[left] # 0 =>
           InnerFits(v2[left].keys, v2[left].kids, lo[left], hi[right], lev[left],
                     T, lo, hi, lev)
    BY <1>17 DEF Unites
  <1>20. Tree(T \ {right}, v2, lo, hi2, lev, lev[r], top)
    <2>1. j \in 1..Len(v[p].keys) BY <1>1, <1>3, <1>13
    <2>2. left = v[p].kids[j] /\ right = v[p].kids[j + 1] BY <1>3, <1>13
    <2>3. CASE lev[left] = 0
      <3>1. LeafOne(v2[left], v[right], lo[left], hi[right]) BY <2>3, <1>18 DEF LeafOne
      <3> QED BY <3>1, <2>1, <2>2, <2>3, <1>1, <1>2, <1>4, <1>14, <1>15, <1>16, UniteTree
    <2>4. CASE lev[left] # 0
      <3>1. InnerFits(v2[left].keys, v2[left].kids, lo[left], hi[right], lev[left],
                      T, lo, hi, lev)
        BY <2>4, <1>19
      <3> QED BY <3>1, <2>1, <2>2, <2>4, <1>1, <1>2, <1>4, <1>14, <1>15, <1>16, UniteTree, ZenonT(40)
    <2> QED BY <2>3, <2>4
  <1>21. Shaped(N2, r, F, l2, T2, v2, lo, hi2, lev, top)
    <2>1. Loose(l2) = {right} /\ ~Orphan(l2) BY DEF Loose, Orphan, Empties
    <2>2. T \ {right} = (Pages \ F) \ Loose(l2) BY <2>1, <1>2
    <2>3. ASSUME NEW q \in T \ {right}
          PROVE  /\ v2[q] = View(N2, l2, q)
                 /\ N2[q].type = IF lev[q] = 0 THEN "leaf" ELSE "internal"
      <3>1. q \in T /\ q \in Pages BY <1>2
      <3>2. N2[q].type = N[q].type
        <4>1. CASE q = left BY <4>1 DEF Unites
        <4>2. CASE q # left
          <5>1. N2[q] = N[q] BY <4>2, <3>1 DEF Unites
          <5> QED BY <5>1
        <4> QED BY <4>1, <4>2
      <3> QED BY <3>1, <3>2, <1>2, <1>6
    <2>4. r \in T \ {right} /\ lo[r] = 0 /\ hi2[r] = top BY <1>2, <1>3, <1>4 DEF United
    <2>5. T2 = T \ {right} BY DEF Without
    <2> QED BY <2>1, <2>2, <2>3, <2>4, <2>5, <1>20 DEF Shaped
  <1> QED BY <1>4, <1>21
\* The writer empties a page into its left sibling and is to take it off the parent.
LEMMA MergeGoes ==
  ASSUME NEW wr \in Threads, NEW N, NEW r, NEW F, NEW H, NEW T, NEW v, NEW lo, NEW hi, NEW lev,
         NEW top, Whole(wr, N, r, F, H, T, v, lo, hi, lev, top), NEW l, l = H[wr],
         l.pc = "merge", NEW n, NEW p, Pair(l, n, p), NEW i,
         Kin(wr, N, r, F, H, l, n, p, i, T, v, lo, hi, lev, top),
         NEW j, NEW left, NEW right, NEW sib,
         Beside(wr, N, r, H, n, p, j, left, right, sib, T, lo, hi, lev),
         NEW N2, Unites(N, N2, r, F, left, right, lo, hi, lev, T),
         NEW l2 \in Locals, Empties(l, l2, right, p), Fresh(N2, l2.header),
         NEW H2, Moves(H, wr, l2, H2)
  PROVE  \E T2, v2, hi2 : Whole(wr, N2, r, F, H2, T2, v2, lo, hi2, lev, top)
PROOF
  <1>1. /\ l \in Locals /\ Nodes(N, r, F) /\ Shaped(N, r, F, l, T, v, lo, hi, lev, top)
        /\ Bound(top)
    BY WriterKnows
  <1>2. /\ l.level \in Nat /\ l.level > 1 /\ l.request.op = "delete" /\ Writes(l) /\ n # r
        /\ p \in Pages /\ p \in T /\ Path(l, l.level, T, lev) /\ Stacked(N, l, l.level, T, lev)
        /\ Ready(N, r, l) /\ Len(N[p].child) = N[p].count + 1
        /\ \A q \in T : q # n => IF q = r THEN N[q].type = "internal" => N[q].count >= 1
                                 ELSE N[q].count >= Fewest(N[q])
    BY Zenon DEF Kin
  <1>3. /\ left \in T /\ right \in T /\ left # right /\ left # p /\ right # p
        /\ left # r /\ right # r /\ left \in Pages /\ right \in Pages
        /\ lev[left] = lev[n] /\ lev[right] = lev[n] /\ N[right].type = N[n].type
        /\ N[n].type = IF lev[n] = 0 THEN "leaf" ELSE "internal"
        /\ Elsewhere(wr, H, left) /\ Elsewhere(wr, H, right) /\ (left = n \/ right = n)
    BY Zenon DEF Beside
  <1>4. /\ l2.pc = "unlink" /\ l2.gone = right /\ l2.level = l.level
        /\ l2.held = l.held /\ l2.request = l.request /\ p = l2.held[l2.level - 1]
    BY DEF Empties
  <1>5. /\ Nodes(N2, r, F) /\ \A q \in Pages : q # left => N2[q] = N[q]
        /\ N2[left].count >= Fewest(N2[left])
    BY DEF Unites
  <1>6. PICK T2 : T2 = T \ {right} OBVIOUS
  <1>7. Without(T, right, T2) BY <1>6 DEF Without
  <1>8. PICK v2, hi2 : /\ United(T, hi, left, right, hi2)
                       /\ Shaped(N2, r, F, l2, T2, v2, lo, hi2, lev, top)
    BY <1>1, <1>7, UniteShaped
  <1>9. T \subseteq Pages
    <2>1. l.pc \notin Midway BY DEF Midway
    <2> QED BY <1>1, <2>1 DEF Shaped
  <1>10. Undisturbed(wr, N, H, T, lo, hi, N2, T2, lo, hi2)
    <2>1. ASSUME NEW q \in T, q # left, q # right
          PROVE  q \in T2 /\ N2[q] = N[q] /\ hi2[q] = hi[q]
      BY <2>1, <1>5, <1>6, <1>8, <1>9 DEF United
    <2> QED BY <2>1, <1>3 DEF Undisturbed
  <1>11. Filled(N2, r, l2, T2)
    <2>1. ASSUME NEW q \in T2
          PROVE  IF q = r THEN N2[q].type = "internal" => N2[q].count >= 1
                 ELSE N2[q].count >= Fewest(N2[q])
      <3>1. q \in T /\ q # right /\ q \in Pages BY <1>6, <1>9
      <3>2. CASE q = left BY <3>2, <1>3, <1>5
      <3>3. CASE q # left
        <4>1. q # n /\ N2[q] = N[q] BY <3>1, <3>3, <1>3, <1>5
        <4> QED BY <4>1, <3>1, <1>2
      <3> QED BY <3>2, <3>3
    <2>2. \A q : ~Weak(l2, q) BY <1>4 DEF Weak, Repairing
    <2> QED BY <2>1, <2>2 DEF Filled
  <1>12. PICK m \in Nat : m = l.level - 1 /\ m \in 1..l.level /\ m < l.level /\ 1 \in 1..m
    BY <1>2, SMTT(30)
  <1>13. \A a \in 1..m : /\ l.held[a] \in T /\ l.held[a] \in Pages
                         /\ l.held[a] # left /\ l.held[a] # right
    <2> TAKE a \in 1..m
    <2>1. a \in 1..l.level /\ l.level \in 1..l.level /\ a < l.level BY <1>2, <1>12
    <2>2. l.held[a] \in T /\ lev[l.held[l.level]] < lev[l.held[a]] BY <2>1, <1>2 DEF Path
    <2>3. l.held[a] \in Pages BY <2>2, <1>9
    <2>4. Leveled(T, lev) BY <1>1, LeveledIs
    <2>5. PICK b, c \in Nat : b = lev[n] /\ c = lev[l.held[a]]
      <3>1. n \in T BY <1>3
      <3> QED BY <3>1, <2>2, <2>4 DEF Leveled
    <2>6. b < c BY <2>2, <2>5, Zenon DEF Pair
    <2>7. b # c BY <2>6, SMTT(30)
    <2> QED BY <2>2, <2>3, <2>5, <2>7, <1>3
  <1>14. Unlinking(N2, r, l2, T2, lev)
    <2>1. Stacked(N2, l2, m, T2, lev)
      <3>1. Untouched(N, l, m, N2, T2, lev, lev)
        <4>1. \A a \in 1..(m - 1) : a \in 1..m BY <1>12
        <4> QED BY <4>1, <1>5, <1>6, <1>13 DEF Untouched
      <3> QED BY <3>1, <1>2, <1>4, <1>12, StackedStill
    <2>2. Ready(N2, r, l2)
      <3>1. l.held[1] \in Pages /\ l.held[1] # left BY <1>12, <1>13
      <3>2. N2[l.held[1]] = N[l.held[1]] BY <3>1, <1>5
      <3>3. SafeFor(l.request.op, N2[l.held[1]]) <=> SafeFor(l.request.op, N[l.held[1]])
        BY <3>2, Zenon
      <3> QED BY <3>3, <1>2, <1>4 DEF Ready
    <2>3. N2[p] = N[p] /\ N2[right] = N[right] BY <1>2, <1>3, <1>5, Zenon
    <2>4. N2[right].type # "free" BY <2>3, <1>3, Zenon
    <2>5. PICK o \in 2..Len(N[p].child) : o = PlaceIn(N[p], right) /\ N[p].child[o] = right
      BY GoneIs, SMTT(30)
    <2>6. /\ l2.request.op = "delete" /\ l2.level > 1 /\ Stacked(N2, l2, l2.level - 1, T2, lev)
      BY <2>1, <1>2, <1>4, <1>12
    <2>7. PICK u : u = N2[l2.held[l2.level - 1]] OBVIOUS
    <2>8. u = N[p] BY <2>3, <2>7, <1>4
    <2>9. /\ Len(u.child) = u.count + 1 /\ PlaceIn(u, l2.gone) \in 2..Len(u.child)
          /\ u.child[PlaceIn(u, l2.gone)] = l2.gone
      BY <2>5, <2>8, <1>2, <1>4, Zenon
    <2> QED BY <2>2, <2>4, <2>6, <2>7, <2>9, <1>3, <1>4 DEF Unlinking
  <1>15. Writing(N2, r, l2, T2, lo, hi2, lev, top) BY <1>4, <1>14, UnlinkingOnly
  <1>16. l2.pc \notin ReaderPcs BY <1>4 DEF ReaderPcs
  <1>17. H[wr].pc # "idle" BY Zenon
  <1>19. Whole(wr, N2, r, F, H2, T2, v2, lo, hi2, lev, top)
    BY <1>2, <1>4, <1>5, <1>10, <1>11, <1>15, <1>16, <1>17, <1>8, BusyStep
  <1> QED BY <1>19

\* What Merge leaves for Unlink: the page to free and the header of its neighbour.
MergedTo(N, l, n, right, l2) ==
  l2 = [l EXCEPT !.pc = "unlink", !.gone = right,
                 !.header = IF N[n].type = "leaf" THEN HeadOf(N, N[right].next) ELSE NoHeader]
NextAway(N, left, right) == N[right].next \in PageNo /\ N[right].next # left

LEMMA NextAwayIs ==
  ASSUME NEW wr, NEW N, NEW r, NEW F, NEW l, NEW T, NEW v, NEW lo, NEW hi, NEW lev, NEW top,
         Nodes(N, r, F), Shaped(N, r, F, l, T, v, lo, hi, lev, top), l.pc \notin Midway,
         NEW H, NEW n, NEW p, NEW j, NEW left, NEW right, NEW sib,
         Beside(wr, N, r, H, n, p, j, left, right, sib, T, lo, hi, lev), N[n].type = "leaf"
  PROVE  NextAway(N, left, right)
PROOF
  <1>1. /\ right \in T /\ left \in T /\ N[right].type = "leaf" /\ lo[right] = hi[left]
        /\ lo[left] \in Nat /\ hi[left] \in Nat /\ hi[right] \in Nat
        /\ lo[left] < hi[left] /\ hi[left] < hi[right] /\ left \in Pages /\ right \in Pages
    BY DEF Beside
  <1>2. View(N, l, right) = Plain(N[right]) BY <1>1, CalmIs
  <1>3. /\ hi[right] = top => N[right].next = 0
        /\ hi[right] # top => N[right].next \in T /\ lo[N[right].next] = hi[right]
    BY <1>1, <1>2, LeafPage
  <1>4. N[right].next \in PageNo
    <2>1. N[right] \in NodeType BY <1>1 DEF Nodes
    <2> QED BY <2>1 DEF NodeType
  <1>5. N[right].next # left
    <2>1. CASE hi[right] = top BY <2>1, <1>1, <1>3, Sizes
    <2>2. CASE hi[right] # top
      <3>1. lo[N[right].next] = hi[right] BY <2>2, <1>3
      <3>2. lo[left] # hi[right] BY <1>1
      <3> QED BY <3>1, <3>2
    <2> QED BY <2>1, <2>2
  <1> QED BY <1>4, <1>5 DEF NextAway

\* l2 is l about to take the page g, with h of its neighbour, out of the tree.
Emptied(l, g, h, l2) == l2 = [l EXCEPT !.pc = "unlink", !.gone = g, !.header = h]

LEMMA EmptiedIs ==
  ASSUME NEW l \in Locals, NEW g \in PageNo,
         NEW h \in [page : PageNo, count : Nat, next : PageNo], NEW l2,
         Emptied(l, g, h, l2)
  PROVE  /\ l2 \in Locals /\ l2.pc = "unlink" /\ l2.gone = g /\ l2.header = h
         /\ l2.level = l.level /\ l2.held = l.held /\ l2.request = l.request
PROOF BY DEF Locals, Pcs, Emptied

LEMMA MergedIs ==
  ASSUME NEW N, NEW r, NEW F, Nodes(N, r, F), NEW l \in Locals, NEW p, NEW n,
         Pair(l, n, p), NEW left, NEW right \in Pages,
         N[n].type = "leaf" => NextAway(N, left, right),
         NEW N2, NEW T, NEW lo, NEW hi, NEW lev,
         Unites(N, N2, r, F, left, right, lo, hi, lev, T),
         NEW l2, MergedTo(N, l, n, right, l2)
  PROVE  l2 \in Locals /\ Empties(l, l2, right, p) /\ Fresh(N2, l2.header)
PROOF
  <1>1. \A q \in Pages : q # left => N2[q] = N[q] BY DEF Unites
  <1>2. PICK h : /\ h \in [page : PageNo, count : Nat, next : PageNo] /\ Fresh(N2, h)
                 /\ h = IF N[n].type = "leaf" THEN HeadOf(N, N[right].next) ELSE NoHeader
    <2>1. CASE N[n].type = "leaf"
      <3>1. PICK q \in PageNo : q = N[right].next /\ q # left BY <2>1 DEF NextAway
      <3>2. PICK h : h = HeadOf(N, q) OBVIOUS
      <3>3. h \in [page : PageNo, count : Nat, next : PageNo] /\ Fresh(N, h) /\ h.page = q
        BY <3>2, HeadIs
      <3>4. q # 0 => N2[q] = N[q] BY <3>1, <1>1
      <3>5. Fresh(N2, h) BY <3>3, <3>4 DEF Fresh
      <3> QED BY <2>1, <3>1, <3>2, <3>3, <3>5
    <2>2. CASE N[n].type # "leaf"
      <3>1. /\ NoHeader \in [page : PageNo, count : Nat, next : PageNo]
            /\ NoHeader.page = 0
        BY DEF NoHeader
      <3> QED BY <2>2, <3>1 DEF Fresh
    <2> QED BY <2>1, <2>2
  <1>3. Emptied(l, right, h, l2) BY <1>2 DEF MergedTo, Emptied
  <1>4. right \in PageNo OBVIOUS
  <1>5. /\ l2 \in Locals /\ l2.pc = "unlink" /\ l2.gone = right /\ l2.header = h
        /\ l2.level = l.level /\ l2.held = l.held /\ l2.request = l.request
    BY <1>2, <1>3, <1>4, EmptiedIs
  <1> QED BY <1>2, <1>5 DEF Empties, Pair

\* Where no sibling has an entry to give there is room for two of them in a page.
LEMMA FittingHere ==
  ASSUME NEW wr, NEW N, NEW r, NEW F, NEW H, NEW l, NEW n, NEW p, NEW i, NEW T, NEW v,
         NEW lo, NEW hi, NEW lev, NEW top,
         l.pc = "merge", Mending(N, r, l, T, lev), Pair(l, n, p),
         i = PlaceIn(N[p], n),
         Kin(wr, N, r, F, H, l, n, p, i, T, v, lo, hi, lev, top),
         NEW j \in Nat, NEW left, NEW right, NEW sib, (j = i /\ sib = right) \/ (j + 1 = i /\ sib = left),
         Beside(wr, N, r, H, n, p, j, left, right, sib, T, lo, hi, lev)
  PROVE  Fitting(N[left], N[right])
PROOF
  <1>1. /\ i <= N[p].count => N[N[p].child[i + 1]].count <= Fewest(N[n])
        /\ i > 1 => N[N[p].child[i - 1]].count <= Fewest(N[n])
    BY Zenon DEF Mending, Repairing, Pair
  <1>2. /\ N[n].count \in Nat /\ N[n].count < Fewest(N[n]) /\ N[n].count + 1 >= Fewest(N[n])
        /\ N[p].count \in Nat /\ i \in 1..(N[p].count + 1)
    BY Zenon DEF Kin
  <1>3. /\ j \in 1..N[p].count /\ left = N[p].child[j] /\ right = N[p].child[j + 1]
        /\ N[sib].type = N[n].type /\ N[sib].count \in Nat /\ N[sib].count >= Fewest(N[n])
        /\ (left = n /\ right = sib) \/ (left = sib /\ right = n)
    BY Zenon DEF Beside
  <1>4. N[sib].count <= Fewest(N[n])
    <2>1. PICK c \in Nat : c = N[p].count BY <1>2
    <2>2. i \in 1..(c + 1) /\ j \in 1..c BY <2>1, <1>2, <1>3, Zenon
    <2>3. CASE j = i /\ sib = right
      <3>1. i <= N[p].count BY <2>1, <2>2, <2>3, SMTT(30)
      <3> QED BY <3>1, <2>3, <1>1, <1>3, Zenon
    <2>4. CASE j + 1 = i /\ sib = left
      <3>1. i > 1 /\ i - 1 = j BY <2>2, <2>4
      <3> QED BY <3>1, <2>4, <1>1, <1>3, Zenon
    <2> QED BY <2>3, <2>4
  <1>5. N[sib].count = Fewest(N[n])
    <2>1. PICK f \in Nat : f = Fewest(N[n]) BY Sizes DEF Fewest
    <2>2. PICK c \in Nat : c = N[sib].count BY <1>3, Zenon
    <2>3. c <= f /\ c >= f BY <2>1, <2>2, <1>3, <1>4, Zenon
    <2> QED BY <2>1, <2>2, <2>3
  <1>6. Lacks(N[n]) BY <1>2 DEF Lacks
  <1>7. PICK x, y : x = N[n] /\ y = N[sib] OBVIOUS
  <1>8. Fitting(x, y) /\ Fitting(y, x)
    <2>1. x.type = y.type /\ x.count \in Nat /\ y.count \in Nat /\ Lacks(x) /\ y.count = Fewest(x)
      BY <1>2, <1>3, <1>5, <1>6, <1>7, Zenon
    <2> QED BY <2>1, FittingIs
  <1> QED BY <1>3, <1>7, <1>8, Zenon

\* What Merge does with the kids left and right of p.
Merges(t, l, n, p, j, left, right, sib) ==
  /\ l.pc = "merge" /\ UNCHANGED <<root, free>> /\ Latchable(th, t, sib)
  /\ Fills(node, n, p, j, left, right, node')
  /\ \E l2 : MergedTo(node, l, n, right, l2) /\ Moves(th, t, l2, th')

LEMMA MergeIs ==
  ASSUME NEW t, Merge(t), NEW l, l = th[t], NEW n,
         NEW p, Pair(l, n, p), NEW i, i = PlaceIn(node[p], n),
         NEW j, j = (IF i > 1 THEN i - 1 ELSE 1), NEW left, left = node[p].child[j],
         NEW right, right = node[p].child[j + 1],
         NEW sib, sib = (IF left = n THEN right ELSE left)
  PROVE  Merges(t, l, n, p, j, left, right, sib)
PROOF
  <1>1. n = NodeAt(t) /\ p = Parent(t) BY NamesAre, Zenon DEF Pair
  <1>2. i = Place(t) BY <1>1 DEF Place, PlaceIn
  <1>3. j = IF Place(t) > 1 THEN Place(t) - 1 ELSE 1 BY <1>2
  <1>4. /\ l.pc = "merge" /\ CanLatch(t, sib)
        /\ node' = [node EXCEPT ![left] =
             IF node[n].type = "leaf"
             THEN [WithKeys(@, Keys(left) \o Keys(right)) EXCEPT !.next = node[right].next]
             ELSE Internal(@.ent \o <<node[p].ent[j]>> \o node[right].ent,
                           @.child \o node[right].child)]
        /\ th' = [th EXCEPT ![t] = [l EXCEPT
             !.pc = "unlink", !.gone = right,
             !.header = IF node[n].type = "leaf" THEN HeaderOf(node[right].next)
                        ELSE NoHeader]]
        /\ UNCHANGED <<root, free>>
    BY <1>1, <1>3, Zenon DEF Merge
  <1>5. Keys(left) = Entries(node[left]) /\ Keys(right) = Entries(node[right])
    BY NamesAre, Zenon DEF Entries
  <1>6. Fills(node, n, p, j, left, right, node')
    <2>1. CASE node[n].type = "leaf"
      <3>1. node' = [node EXCEPT ![left] =
                [WithKeys(node[left], Entries(node[left]) \o Entries(node[right])) EXCEPT
                   !.next = node[right].next]]
        BY <2>1, <1>4, <1>5, Zenon
      <3> QED BY <2>1, <3>1, Zenon DEF Fills
    <2>2. CASE node[n].type # "leaf"
      <3>1. node' = [node EXCEPT ![left] =
                Internal(node[left].ent \o <<node[p].ent[j]>> \o node[right].ent,
                         node[left].child \o node[right].child)]
        BY <2>2, <1>4, Zenon
      <3> QED BY <2>2, <3>1, Zenon DEF Fills
    <2> QED BY <2>1, <2>2, Zenon
  <1>7. PICK l2 : MergedTo(node, l, n, right, l2) BY Zenon DEF MergedTo
  <1>8. HeaderOf(node[right].next) = HeadOf(node, node[right].next) BY Zenon DEF HeaderOf, HeadOf
  <1>9. Moves(th, t, l2, th') BY <1>4, <1>7, <1>8, Zenon DEF Moves, MergedTo
  <1>10. Latchable(th, t, sib) BY <1>4, LatchableIs, Zenon
  <1> QED BY <1>4, <1>6, <1>7, <1>9, <1>10, Zenon DEF Merges

LEMMA MergeStep ==
  ASSUME NEW wr \in Threads, InvOf(wr), Merge(wr)
  PROVE  InvOf(wr)'
PROOF
  <1>1. PICK T, v, lo, hi, lev, top : Whole(wr, node, root, free, th, T, v, lo, hi, lev, top)
    BY DEF InvOf
  <1>2. PICK l : l = th[wr] OBVIOUS
  <1>3. PICK n, p : Pair(l, n, p) BY Zenon DEF Pair
  <1>5. PICK i : i = PlaceIn(node[p], n) OBVIOUS
  <1>6. PICK j : j = (IF i > 1 THEN i - 1 ELSE 1) OBVIOUS
  <1>7. PICK left, right : left = node[p].child[j] /\ right = node[p].child[j + 1] OBVIOUS
  <1>8. PICK sib : sib = (IF left = n THEN right ELSE left) OBVIOUS
  <1>9. Merges(wr, l, n, p, j, left, right, sib)
    BY <1>2, <1>3, <1>5, <1>6, <1>7, <1>8, MergeIs, Zenon
  <1>10. /\ l.pc = "merge" /\ root' = root /\ free' = free /\ Latchable(th, wr, sib)
         /\ Fills(node, n, p, j, left, right, node')
    BY <1>9 DEF Merges
  <1>11. PICK l2 : MergedTo(node, l, n, right, l2) /\ Moves(th, wr, l2, th')
    BY <1>9 DEF Merges
  <1>12. l.pc \in Repairing /\ l.pc \notin Midway BY <1>10 DEF Repairing, Midway
  <1>13. Kin(wr, node, root, free, th, l, n, p, i, T, v, lo, hi, lev, top)
    BY <1>1, <1>2, <1>3, <1>5, <1>12, KinIs
  <1>14. /\ Nodes(node, root, free) /\ Shaped(node, root, free, l, T, v, lo, hi, lev, top)
         /\ l \in Locals /\ Mending(node, root, l, T, lev)
    BY <1>1, <1>2, WriterKnows
  <1>15. Elsewhere(wr, th, sib)
    <2>1. Writes(th[wr]) BY <1>2, <1>13 DEF Kin
    <2> QED BY <2>1, <1>1, <1>10, Mine
  <1>16. PICK c \in Nat : c = node[p].count /\ c >= 1 BY <1>13 DEF Kin
  <1>17. i \in 1..(c + 1) /\ Len(node[p].child) = c + 1 /\ node[p].child[i] = n
    BY <1>13, <1>16 DEF Kin
  <1>18. /\ j \in Nat /\ j >= 1 /\ j <= c
         /\ (j = i /\ sib = right) \/ (j + 1 = i /\ sib = left)
    <2>1. CASE i > 1
      <3>1. j = i - 1 /\ j \in 1..(c + 1) /\ j # i /\ j \in Nat /\ j >= 1 /\ j <= c /\ j + 1 = i
        BY <2>1, <1>6, <1>17
      <3>2. j \in 1..Len(node[p].child) BY <3>1, <1>17
      <3>3. n # node[p].child[j] BY <3>1, <3>2, <1>13, <1>14, KidCounted
      <3>4. sib = left BY <3>3, <1>7, <1>8
      <3> QED BY <3>1, <3>4
    <2>2. CASE ~(i > 1)
      <3>1. i = 1 /\ j = 1 BY <2>2, <1>6, <1>17
      <3>2. left = n BY <3>1, <1>7, <1>17
      <3> QED BY <3>1, <3>2, <1>8, <1>16
    <2> QED BY <2>1, <2>2
  <1>19. j \in Nat /\ j >= 1 /\ j <= node[p].count BY <1>16, <1>18
  <1>20. Beside(wr, node, root, th, n, p, j, left, right, sib, T, lo, hi, lev)
    <2>1. Neighbours(node, n, p, i, j, left, right, sib)
      BY <1>7, <1>18, <1>19, Zenon DEF Neighbours
    <2> QED BY <2>1, <1>13, <1>14, <1>15, <1>19, BesideIs, Zenon
  <1>21. Sides(node, n, sib, T, lo, hi, lev) BY <1>12, <1>13, <1>14, <1>20, SidesAre
  <1>22. Facing(node, left, right, lo, hi, lev, T) BY <1>20, <1>21, FacingIs
  <1>23. Fitting(node[left], node[right])
    <2>1. CASE j = i /\ sib = right
      BY <2>1, <1>3, <1>5, <1>10, <1>13, <1>14, <1>19, <1>20, FittingHere
    <2>2. CASE j + 1 = i /\ sib = left
      BY <2>2, <1>3, <1>5, <1>10, <1>13, <1>14, <1>19, <1>20, FittingHere
    <2> QED BY <2>1, <2>2, <1>18
  <1>24. T \subseteq Pages BY <1>12, <1>14 DEF Shaped
  <1>25. PICK N2 : N2 = node' OBVIOUS
  <1>26. Unites(node, N2, root, free, left, right, lo, hi, lev, T)
    BY <1>10, <1>14, <1>20, <1>22, <1>23, <1>24, <1>25, MergeUnites
  <1>27. right \in Pages BY <1>20 DEF Beside
  <1>28. node[n].type = "leaf" => NextAway(node, left, right)
    <2>1. SUFFICES ASSUME node[n].type = "leaf" PROVE NextAway(node, left, right) OBVIOUS
    <2> QED BY <2>1, <1>12, <1>14, <1>20, NextAwayIs
  <1>29. l2 \in Locals /\ Empties(l, l2, right, p) /\ Fresh(N2, l2.header)
    <2>1. CASE node[n].type = "leaf"
      <3>1. NextAway(node, left, right) BY <2>1, <1>28
      <3> QED BY <3>1, <2>1, <1>3, <1>11, <1>14, <1>26, <1>27, MergedIs
    <2>2. CASE node[n].type # "leaf"
      BY <2>2, <1>3, <1>11, <1>14, <1>26, <1>27, MergedIs
    <2> QED BY <2>1, <2>2
  <1>30. PICK T2, v2, hi2 : Whole(wr, N2, root, free, th', T2, v2, lo, hi2, lev, top)
    BY <1>1, <1>2, <1>3, <1>10, <1>11, <1>13, <1>20, <1>26, <1>29, MergeGoes
  <1> QED BY <1>10, <1>25, <1>30, Landed

\* What the writer knows of the parent p that the emptied page g is to leave.
LessKeys(n, o) == RemoveAt(n.ent, o - 1)
LessKids(n, o) == RemoveAt(n.child, o)
Leaving(wr, N, r, F, H, l, p, g, o, m, T, v, lo, hi, lev, top) ==
  /\ p \in T /\ p \in Pages /\ p \notin F /\ g \in Pages /\ g \notin T /\ g \notin F /\ p # g
  /\ N[p].type = "internal" /\ N[p].count \in Nat /\ lev[p] # 0 /\ lev[p] \in Nat
  /\ v[p].keys = LessKeys(N[p], o) /\ v[p].kids = LessKids(N[p], o)
  /\ LessKeys(N[p], o) \in Seq(Nat) /\ LessKids(N[p], o) \in Seq(Pages)
  /\ Len(LessKeys(N[p], o)) + 1 = N[p].count /\ Len(LessKeys(N[p], o)) <= MaxInternal
  /\ T = Pages \ (F \cup {g}) /\ \A q \in T : q # p => View(N, l, q) = Plain(N[q])
  /\ m \in Nat /\ m >= 1 /\ l.level = m + 1 /\ p = l.held[m] /\ l.request.op = "delete"
  /\ Stacked(N, l, m, T, lev) /\ Path(l, m, T, lev) /\ Ready(N, r, l)
  /\ Elsewhere(wr, H, p) /\ Writes(l) /\ Fresh(N, l.header)

LEMMA LeavingIs ==
  ASSUME NEW wr \in Threads, NEW N, NEW r, NEW F, NEW H, NEW T, NEW v, NEW lo, NEW hi, NEW lev,
         NEW top, Whole(wr, N, r, F, H, T, v, lo, hi, lev, top), NEW l, l = H[wr],
         l.pc = "unlink", NEW p, Under(l, p), NEW g, g = l.gone,
         NEW o, o = PlaceIn(N[p], g)
  PROVE  \E m : Leaving(wr, N, r, F, H, l, p, g, o, m, T, v, lo, hi, lev, top)
PROOF
  <1>1. /\ l \in Locals /\ Nodes(N, r, F) /\ Shaped(N, r, F, l, T, v, lo, hi, lev, top)
        /\ Unlinking(N, r, l, T, lev) /\ l.level \in Nat
    BY WriterKnows, Zenon
  <1>2. /\ l.request.op = "delete" /\ l.level > 1 /\ Stacked(N, l, l.level - 1, T, lev)
        /\ Ready(N, r, l) /\ Fresh(N, l.header) /\ g \in Pages /\ N[g].type # "free"
        /\ Len(N[p].child) = N[p].count + 1 /\ o \in 2..Len(N[p].child) /\ N[p].child[o] = g
    BY <1>1, Zenon DEF Unlinking, Under
  <1>3. PICK m \in Nat : m >= 1 /\ m = l.level - 1 /\ l.level = m + 1
    <2>1. l.level \in Nat /\ l.level > 1 BY <1>1, <1>2, Zenon
    <2>2. l.level - 1 \in Nat /\ l.level - 1 >= 1 /\ l.level = (l.level - 1) + 1
      BY <2>1, OneDown, Zenon
    <2> QED BY <2>2, Zenon
  <1>4. Stacked(N, l, m, T, lev) BY <1>2, <1>3
  <1>5. Leveled(T, lev) BY <1>1, LeveledIs
  <1>6. Path(l, m, T, lev) BY <1>1, <1>3, <1>4, <1>5, StackedIs
  <1>7. p = l.held[m] BY <1>3, Zenon DEF Under
  <1>8. p \in T /\ p \in ToSet(l.held)
    <2>1. m \in 1..m BY <1>3
    <2> QED BY <2>1, <1>6, <1>7 DEF Path
  <1>9. /\ T = Pages \ (F \cup {g}) /\ g \notin T
    <2>1. Loose(l) = {g} BY DEF Loose
    <2>2. T = (Pages \ F) \ {g} BY <2>1, <1>1 DEF Shaped
    <2> QED BY <2>2
  <1>10. p \in Pages /\ p \notin F /\ p # g BY <1>8, <1>9, Zenon
  <1>11. g \notin F BY <1>1, <1>2 DEF Nodes
  <1>12. N[p] \in NodeType /\ IsNode(N[p]) BY <1>1, <1>10, Zenon DEF Nodes
  <1>13. PICK c \in Nat : c = N[p].count BY <1>12, Zenon DEF NodeType
  <1>14. o \in 2..(c + 1) /\ Len(N[p].child) = c + 1 BY <1>2, <1>13
  <1>15. N[p].type = "internal" /\ lev[p] # 0
    <2>1. N[p].type = IF lev[p] = 0 THEN "leaf" ELSE "internal" BY <1>1, <1>8 DEF Shaped
    <2>2. N[p].type # "internal" => N[p].child = << >> BY <1>12 DEF IsNode
    <2>3. Len(<< >>) # c + 1 OBVIOUS
    <2>4. N[p].type = "internal" BY <2>2, <2>3, <1>14
    <2> QED BY <2>1, <2>4
  <1>16. View(N, l, p) = Shorn(N[p], o)
    <2>1. ~Growing(l) BY DEF Growing
    <2> QED BY <2>1 DEF View, Under
  <1>17. v[p].keys = LessKeys(N[p], o) /\ v[p].kids = LessKids(N[p], o)
    <2>1. v[p] = Shorn(N[p], o) BY <1>1, <1>8, <1>16, ZenonT(40) DEF Shaped
    <2> QED BY <2>1 DEF Shorn, LessKeys, LessKids
  <1>18. InnerFits(v[p].keys, v[p].kids, lo[p], hi[p], lev[p], T, lo, hi, lev)
    <2>1. Fits(v[p], p, T, lo, hi, lev, top) BY <1>1, <1>8 DEF Shaped, Tree
    <2> QED BY <2>1, <1>15 DEF Fits
  <1>19. T \subseteq Pages BY <1>9
  <1>20. v[p].keys \in Seq(Nat) /\ v[p].kids \in Seq(Pages)
    <2>1. PICK ks, cs : ks = v[p].keys /\ cs = v[p].kids BY Zenon
    <2>2. PICK a, b, d : InnerFits(ks, cs, a, b, d, T, lo, hi, lev) BY <2>1, <1>18, Zenon
    <2>3. ks \in Seq(Nat) /\ cs \in Seq(Pages) BY <2>2, <1>19, FitsTypes
    <2> QED BY <2>1, <2>3
  <1>21. Len(LessKeys(N[p], o)) + 1 = c /\ Len(LessKeys(N[p], o)) <= MaxInternal
    <2>1. PICK ks \in Seq(Nat) : ks = N[p].ent BY <1>12, Zenon DEF NodeType
    <2>2. Len(ks) = c /\ c <= MaxInternal BY <2>1, <1>12, <1>13, <1>15 DEF IsNode
    <2>3. PICK x \in 1..Len(ks) : x = o - 1 BY <2>2, <1>14, SMTT(30)
    <2>4. Len(RemoveAt(ks, x)) = Len(ks) - 1 BY <2>1, RemoveIs, Zenon
    <2>5. Len(RemoveAt(ks, x)) = c - 1 BY <2>2, <2>4
    <2>6. LessKeys(N[p], o) = RemoveAt(ks, x) BY <2>1, <2>3 DEF LessKeys
    <2>7. (c - 1) + 1 = c /\ c - 1 <= MaxInternal BY <2>2, Sizes
    <2> QED BY <2>5, <2>6, <2>7, Zenon
  <1>22. \A q \in T : q # p => View(N, l, q) = Plain(N[q])
    <2>1. ~Growing(l) BY DEF Growing
    <2> QED BY <2>1, Zenon DEF View, Under
  <1>23. Writes(l) BY <1>2 DEF Writes
  <1>24. Elsewhere(wr, H, p)
    <2>1. Writes(H[wr]) /\ p \in ToSet(H[wr].held) BY <1>8, <1>23
    <2> QED BY <2>1, Mine
  <1>25. lev[p] \in Nat BY <1>5, <1>8 DEF Leveled
  <1>26. LessKeys(N[p], o) \in Seq(Nat) /\ LessKids(N[p], o) \in Seq(Pages)
    BY <1>17, <1>20
  <1> QED BY <1>2, <1>3, <1>4, <1>6, <1>7, <1>8, <1>9, <1>10, <1>11, <1>13, <1>15, <1>17,
             <1>21, <1>22, <1>23, <1>24, <1>25, <1>26, Zenon DEF Leaving

\* The separator and the kid are off, the page is free.
Frees(N, p, o, g, N2) ==
  N2 = [N EXCEPT ![p] = Internal(LessKeys(N[p], o), LessKids(N[p], o)), ![g] = FreePage]
Freed(N, r, F, p, o, g, N2) ==
  /\ Nodes(N2, r, F \cup {g}) /\ \A q \in Pages : q # p /\ q # g => N2[q] = N[q]
  /\ N2[p].type = "internal" /\ N2[p].count = Len(LessKeys(N[p], o)) /\ N2[p].count \in Nat
  /\ Plain(N2[p]).keys = LessKeys(N[p], o) /\ Plain(N2[p]).kids = LessKids(N[p], o)

LEMMA FreeIs ==
  ASSUME NEW wr, NEW N, NEW r, NEW F, Nodes(N, r, F), NEW H, NEW l, NEW p, NEW g, NEW o, NEW m,
         NEW T, NEW v, NEW lo, NEW hi, NEW lev, NEW top,
         Leaving(wr, N, r, F, H, l, p, g, o, m, T, v, lo, hi, lev, top),
         NEW N2, Frees(N, p, o, g, N2)
  PROVE  Freed(N, r, F, p, o, g, N2)
PROOF
  <1>1. /\ p \in Pages /\ p \notin F /\ g \in Pages /\ p # g
        /\ LessKeys(N[p], o) \in Seq(Nat) /\ LessKids(N[p], o) \in Seq(Pages)
        /\ Len(LessKeys(N[p], o)) <= MaxInternal
    BY DEF Leaving
  <1>2. PICK ks \in Seq(Nat), cs \in Seq(Pages) : ks = LessKeys(N[p], o) /\ cs = LessKids(N[p], o)
    BY <1>1
  <1>3. PICK M : Reshapes(N, p, ks, cs, M) BY DEF Reshapes
  <1>4. Len(ks) <= MaxInternal BY <1>1, <1>2
  <1>5. p \notin F => Reshaped(N, r, F, p, ks, cs, M) BY <1>1, <1>3, <1>4, InnerWritten
  <1>6. /\ Nodes(M, r, F) /\ \A q \in Pages : q # p => M[q] = N[q]
        /\ M[p].type = "internal" /\ M[p].count = Len(ks) /\ M[p].count \in Nat
        /\ Plain(M[p]).keys = ks /\ Plain(M[p]).kids = cs
    BY <1>1, <1>5 DEF Reshaped
  <1>7. PICK x : x = FreePage OBVIOUS
  <1>8. x \in NodeType /\ IsNode(x) /\ x.type = "free" BY <1>7, FreePageIs
  <1>9. PICK M2 : M2 = [M EXCEPT ![g] = x] OBVIOUS
  <1>10. Only(M, M2, g, x) /\ (x.type = "free" => Nodes(M2, r, F \cup {g}))
    BY <1>1, <1>6, <1>8, <1>9, OnlyIs
  <1>11. M2 = N2 BY <1>1, <1>2, <1>3, <1>7, <1>9 DEF Frees, Reshapes
  <1>12. M2[p] = M[p] /\ \A q \in Pages : q # g => M2[q] = M[q] BY <1>1, <1>10 DEF Only
  <1>13. Nodes(N2, r, F \cup {g}) BY <1>8, <1>10, <1>11
  <1> QED BY <1>2, <1>6, <1>11, <1>12, <1>13 DEF Freed

\* The repair goes on at the parent.
Rises(l, l2) ==
  l2 = [l EXCEPT !.pc = "parent", !.level = l.level - 1, !.gone = 0, !.header = NoHeader]

LEMMA RisesIs ==
  ASSUME NEW l \in Locals, NEW m \in Nat, l.level = m + 1, NEW l2, Rises(l, l2)
  PROVE  /\ l2 \in Locals /\ l2.pc = "parent" /\ l2.level = m /\ l2.held = l.held
         /\ l2.request = l.request
PROOF
  <1>1. l.level - 1 = m OBVIOUS
  <1>2. l2 = [l EXCEPT !.pc = "parent", !.level = m, !.gone = 0, !.header = NoHeader]
    BY <1>1 DEF Rises
  <1>3. NoHeader \in [page : PageNo, count : Nat, next : PageNo] /\ 0 \in PageNo
    BY DEF NoHeader
  <1> QED BY <1>2, <1>3 DEF Locals, Pcs

LEMMA UnlinkGoes ==
  ASSUME NEW wr \in Threads, NEW N, NEW r, NEW F, NEW H, NEW T, NEW v, NEW lo, NEW hi, NEW lev,
         NEW top, Whole(wr, N, r, F, H, T, v, lo, hi, lev, top), NEW l, l = H[wr],
         l.pc = "unlink", NEW p, NEW g, NEW o, NEW m,
         Leaving(wr, N, r, F, H, l, p, g, o, m, T, v, lo, hi, lev, top),
         NEW N2, Frees(N, p, o, g, N2), NEW l2, Rises(l, l2), NEW H2, Moves(H, wr, l2, H2)
  PROVE  \E v2 : Whole(wr, N2, r, F \cup {g}, H2, T, v2, lo, hi, lev, top)
PROOF
  <1>1. /\ l \in Locals /\ Nodes(N, r, F) /\ Shaped(N, r, F, l, T, v, lo, hi, lev, top)
        /\ Filled(N, r, l, T)
    BY WriterKnows
  <1>2. /\ p \in T /\ p \in Pages /\ g \in Pages /\ g \notin T /\ p # g
        /\ N[p].type = "internal" /\ N[p].count \in Nat /\ lev[p] # 0 /\ lev[p] \in Nat
        /\ v[p].keys = LessKeys(N[p], o) /\ v[p].kids = LessKids(N[p], o)
        /\ Len(LessKeys(N[p], o)) + 1 = N[p].count
        /\ T = Pages \ (F \cup {g}) /\ \A q \in T : q # p => View(N, l, q) = Plain(N[q])
        /\ m \in Nat /\ m >= 1 /\ l.level = m + 1 /\ p = l.held[m] /\ l.request.op = "delete"
        /\ Stacked(N, l, m, T, lev) /\ Path(l, m, T, lev) /\ Ready(N, r, l)
        /\ Elsewhere(wr, H, p) /\ Writes(l)
    BY DEF Leaving
  <1>3. Freed(N, r, F, p, o, g, N2) BY <1>1, FreeIs
  <1>4. /\ Nodes(N2, r, F \cup {g}) /\ \A q \in Pages : q # p /\ q # g => N2[q] = N[q]
        /\ N2[p].type = "internal" /\ N2[p].count = Len(LessKeys(N[p], o))
        /\ Plain(N2[p]).keys = LessKeys(N[p], o) /\ Plain(N2[p]).kids = LessKids(N[p], o)
        /\ N2[p].count \in Nat
    BY <1>3 DEF Freed
  <1>5. /\ l2 \in Locals /\ l2.pc = "parent" /\ l2.level = m /\ l2.held = l.held
        /\ l2.request = l.request
    BY <1>1, <1>2, RisesIs, SMTT(30)
  <1>6. \A q \in T : q # p => N2[q] = N[q] BY <1>2, <1>4
  <1>7. PICK F2 : F2 = F \cup {g} OBVIOUS
  <1>8. PICK v2 : v2 = [q \in T |-> Plain(N2[q])] OBVIOUS
  <1>9. \A q \in T : q # p => v2[q] = v[q]
    <2> TAKE q \in T
    <2> HAVE q # p
    <2>1. v[q] = Plain(N[q]) BY <1>1, <1>2 DEF Shaped
    <2>2. v2[q] = Plain(N2[q]) /\ N2[q] = N[q] BY <1>6, <1>8, Zenon
    <2> QED BY <2>1, <2>2
  <1>10. v2[p].keys = v[p].keys /\ v2[p].kids = v[p].kids BY <1>2, <1>4, <1>8
  <1>11. Calm(N2, r, F2, T, v2, lo, hi, lev, top)
    <2>1. Tree(T, v, lo, hi, lev, lev[r], top) BY <1>1 DEF Shaped
    <2>2. ASSUME NEW q \in T
          PROVE  /\ v2[q].keys = v[q].keys /\ v2[q].kids = v[q].kids
                 /\ lev[q] = 0 => v2[q].next = v[q].next
      BY <1>2, <1>9, <1>10
    <2>3. Tree(T, v2, lo, hi, lev, lev[r], top) BY <2>1, <2>2, TreeAlike
    <2>4. ~Orphan(l) BY DEF Orphan
    <2>5. r \in T /\ lo[r] = 0 /\ hi[r] = top BY <2>4, <1>1 DEF Shaped
    <2>6. ASSUME NEW q \in T
          PROVE  /\ v2[q] = Plain(N2[q])
                 /\ N2[q].type = IF lev[q] = 0 THEN "leaf" ELSE "internal"
      <3>1. N[q].type = IF lev[q] = 0 THEN "leaf" ELSE "internal" BY <1>1 DEF Shaped
      <3>2. N2[q].type = N[q].type
        <4>1. CASE q = p BY <4>1, <1>2, <1>4
        <4>2. CASE q # p
          <5>1. N2[q] = N[q] BY <4>2, <1>6
          <5> QED BY <5>1
        <4> QED BY <4>1, <4>2
      <3> QED BY <3>1, <3>2, <1>8
    <2> QED BY <2>3, <2>5, <2>6, <1>2, <1>7 DEF Calm
  <1>12. Shaped(N2, r, F2, l2, T, v2, lo, hi, lev, top)
    <2>1. l2.pc \notin Midway BY <1>5 DEF Midway
    <2> QED BY <2>1, <1>11, CalmShaped
  <1>13. \A q : ~Weak(l, q) BY Zenon DEF Weak, Repairing
  <1>14. PICK c, d \in Nat : c = N[p].count /\ d = N2[p].count /\ d + 1 = c BY <1>2, <1>4
  <1>15. PICK f \in Nat : f = Fewest(N[p]) /\ f = Fewest(N2[p])
    BY <1>2, <1>4, Sizes DEF Fewest
  <1>16. Filled(N2, r, l2, T)
    <2>1. ASSUME NEW q \in T
          PROVE  IF q = r THEN N2[q].type = "internal" /\ ~Weak(l2, q) => N2[q].count >= 1
                 ELSE IF Weak(l2, q) THEN N2[q].count + 1 >= Fewest(N2[q])
                 ELSE N2[q].count >= Fewest(N2[q])
      <3>1. IF q = r THEN N[q].type = "internal" => N[q].count >= 1
            ELSE N[q].count >= Fewest(N[q])
        BY <1>1, <1>13 DEF Filled
      <3>2. CASE q = p
        <4>1. Weak(l2, q) BY <3>2, <1>2, <1>5 DEF Weak
        <4>2. q # r => d + 1 >= f BY <3>1, <3>2, <1>14, <1>15
        <4> QED BY <4>1, <4>2, <3>2, <1>14, <1>15
      <3>3. CASE q # p
        <4>1. ~Weak(l2, q) BY <3>3, <1>2, <1>5 DEF Weak
        <4>2. N2[q] = N[q] BY <3>3, <1>6
        <4> QED BY <4>1, <4>2, <3>1
      <3> QED BY <3>2, <3>3
    <2> QED BY <2>1 DEF Filled
  <1>17. \A a \in 1..m : /\ l.held[a] \in T /\ (a # m => N2[l.held[a]] = N[l.held[a]])
    <2> TAKE a \in 1..m
    <2>1. l.held[a] \in T BY <1>2 DEF Path
    <2>2. a # m => l.held[a] # p
      <3>1. m \in 1..m /\ (a # m => a < m) BY <1>2
      <3> QED BY <3>1, <1>2 DEF Path
    <2> QED BY <2>1, <2>2, <1>6
  <1>18. Settling(N2, r, l2, T, lev)
    <2>1. m \in 1..m /\ 1 \in 1..m /\ (m > 1 => 1 # m) /\ \A a \in 1..(m - 1) : a \in 1..m /\ a # m
      BY <1>2
    <2>2. Stacked(N2, l2, m, T, lev)
      <3>1. Untouched(N, l, m, N2, T, lev, lev) BY <2>1, <1>17 DEF Untouched
      <3> QED BY <3>1, <2>1, <1>2, <1>5, StackedStill
    <2>3. l2.level > 1 => Ready(N2, r, l2)
      <3>1. SUFFICES ASSUME m > 1 PROVE Ready(N2, r, l2) BY <1>5
      <3>2. N2[l.held[1]] = N[l.held[1]] BY <3>1, <2>1, <1>17
      <3>3. SafeFor(l.request.op, N2[l.held[1]]) <=> SafeFor(l.request.op, N[l.held[1]])
        BY <3>2
      <3> QED BY <3>3, <1>2, <1>5 DEF Ready
    <2>4. l2.level = 1 => p = r \/ N2[p].count >= Fewest(N2[p])
      <3>1. SUFFICES ASSUME m = 1, p # r PROVE N2[p].count >= Fewest(N2[p]) BY <1>5
      <3>2. SafeFor(l.request.op, N[p]) BY <3>1, <1>2 DEF Ready
      <3>3. N[p].count > Fewest(N[p]) BY <3>2, <1>2 DEF SafeFor
      <3>4. d >= f BY <3>3, <1>14, <1>15
      <3> QED BY <3>4, <1>14, <1>15
    <2>5. l2.held[l2.level] = p BY <1>2, <1>5
    <2> QED BY <2>2, <2>3, <2>4, <2>5, <1>2, <1>4, <1>5 DEF Settling
  <1>19. Writing(N2, r, l2, T, lo, hi, lev, top) BY <1>5, <1>18, SettlingOnly
  <1>20. Undisturbed(wr, N, H, T, lo, hi, N2, T, lo, hi) BY <1>2, <1>6 DEF Undisturbed
  <1>21. Nodes(N2, r, F2) BY <1>4, <1>7
  <1>22. l2.pc \notin ReaderPcs BY <1>5 DEF ReaderPcs
  <1>23. H[wr].pc # "idle" OBVIOUS
  <1>24. Whole(wr, N2, r, F2, H2, T, v2, lo, hi, lev, top)
    BY <1>2, <1>5, <1>12, <1>16, <1>19, <1>20, <1>21, <1>22, <1>23, BusyStep
  <1> QED BY <1>7, <1>24

\* What Unlink does to the parent p of the page that is gone.
Unlinks(t, l, p, o) ==
  /\ l.pc = "unlink" /\ UNCHANGED root /\ free' = free \cup {l.gone}
  /\ Fresh(node, l.header) => Frees(node, p, o, l.gone, node')
  /\ \E l2 : Rises(l, l2) /\ Moves(th, t, l2, th')

LEMMA UnlinkIs ==
  ASSUME NEW t, Unlink(t), Nodes(node, root, free), NEW l \in Locals, l = th[t],
         NEW p, Under(l, p), NEW o, o = PlaceIn(node[p], l.gone), p # l.gone
  PROVE  Unlinks(t, l, p, o)
PROOF
  <1>1. p = Parent(t) BY NamesAre DEF Under
  <1>2. o = CHOOSE j \in DOMAIN node[Parent(t)].child : node[Parent(t)].child[j] = th[t].gone
    BY <1>1 DEF PlaceIn
  <1>3. /\ l.pc = "unlink" /\ UNCHANGED root /\ free' = free \cup {l.gone}
        /\ node' = [HeaderWritten(node, l.header) EXCEPT
                      ![p] = Internal(RemoveAt(@.ent, o - 1), RemoveAt(@.child, o)),
                      ![l.gone] = FreePage]
        /\ th' = [th EXCEPT ![t] = [l EXCEPT !.pc = "parent", !.level = l.level - 1, !.gone = 0,
                                              !.header = NoHeader]]
    <2>1. /\ th[t].pc = "unlink" /\ UNCHANGED root /\ free' = free \cup {th[t].gone}
          /\ th' = [th EXCEPT ![t] = [th[t] EXCEPT !.pc = "parent", !.level = @ - 1, !.gone = 0,
                                              !.header = NoHeader]]
      BY DEF Unlink
    <2>2. node' = [HeaderWritten(node, th[t].header) EXCEPT
                      ![Parent(t)] = Internal(RemoveAt(@.ent, o - 1), RemoveAt(@.child, o)),
                      ![th[t].gone] = FreePage]
      BY <1>2, Zenon DEF Unlink
    <2> QED BY <2>1, <2>2, <1>1
  <1>4. Fresh(node, l.header) => Frees(node, p, o, l.gone, node')
    <2>1. SUFFICES ASSUME Fresh(node, l.header) PROVE Frees(node, p, o, l.gone, node')
      OBVIOUS
    <2>2. HeaderWritten(node, l.header) = node BY <2>1, HeaderBack, Zenon
    <2>3. node' = [node EXCEPT
                     ![p] = Internal(RemoveAt(node[p].ent, o - 1), RemoveAt(node[p].child, o)),
                     ![l.gone] = FreePage]
      BY <2>2, <1>3
    <2> QED BY <2>3 DEF Frees, LessKeys, LessKids
  <1>5. PICK l2 : Rises(l, l2) BY Zenon DEF Rises
  <1>6. Moves(th, t, l2, th') BY <1>3, <1>5 DEF Moves, Rises
  <1> QED BY <1>3, <1>4, <1>5, <1>6, Zenon DEF Unlinks

LEMMA UnlinkStep ==
  ASSUME NEW wr \in Threads, InvOf(wr), Unlink(wr)
  PROVE  InvOf(wr)'
PROOF
  <1>1. PICK T, v, lo, hi, lev, top : Whole(wr, node, root, free, th, T, v, lo, hi, lev, top)
    BY DEF InvOf
  <1>2. PICK l : l = th[wr] OBVIOUS
  <1>3. PICK p, g : Under(l, p) /\ g = l.gone BY Zenon DEF Under
  <1>4. PICK o : o = PlaceIn(node[p], g) OBVIOUS
  <1>5. l.pc = "unlink" BY <1>2 DEF Unlink
  <1>6. PICK m : Leaving(wr, node, root, free, th, l, p, g, o, m, T, v, lo, hi, lev, top)
    BY <1>1, <1>2, <1>3, <1>4, <1>5, LeavingIs
  <1>7. Nodes(node, root, free) /\ l \in Locals BY <1>1, <1>2, WriterKnows
  <1>8. p # l.gone /\ Fresh(node, l.header) BY <1>3, <1>6 DEF Leaving
  <1>9. Unlinks(wr, l, p, o) BY <1>2, <1>3, <1>4, <1>7, <1>8, UnlinkIs
  <1>10. /\ root' = root /\ free' = free \cup {g} /\ Frees(node, p, o, g, node')
    BY <1>3, <1>8, <1>9 DEF Unlinks
  <1>11. PICK l2 : Rises(l, l2) /\ Moves(th, wr, l2, th') BY <1>9 DEF Unlinks
  <1>12. PICK F2 : F2 = free \cup {g} OBVIOUS
  <1>13. \E v2 : Whole(wr, node', root, free \cup {g}, th', T, v2, lo, hi, lev, top)
    BY <1>1, <1>2, <1>5, <1>6, <1>10, <1>11, UnlinkGoes
  <1> QED BY <1>10, <1>13, Landed

\* What the writer knows of the node n that has lost a kid.
Settles(wr, N, r, F, H, l, n, T, v, lo, hi, lev, top) ==
  /\ n \in T /\ n \in Pages /\ n \notin F /\ N[n].type = "internal" /\ N[n].count \in Nat
  /\ N[n].count = Len(N[n].ent) /\ N[n].ent \in Seq(Nat) /\ lev[n] # 0
  /\ l.level \in Nat /\ l.level >= 1 /\ Stacked(N, l, l.level, T, lev)
  /\ (l.level > 1 => Ready(N, r, l)) /\ (l.level = 1 => n = r \/ N[n].count >= Fewest(N[n]))
  /\ Calm(N, r, F, T, v, lo, hi, lev, top) /\ l.request.op = "delete" /\ Writes(l)
  /\ Elsewhere(wr, H, n) /\ Asked(l, wr)
  /\ \A q \in T : q # n => IF q = r THEN N[q].type = "internal" => N[q].count >= 1
                           ELSE N[q].count >= Fewest(N[q])

LEMMA SettlesIs ==
  ASSUME NEW wr \in Threads, NEW N, NEW r, NEW F, NEW H, NEW T, NEW v, NEW lo, NEW hi, NEW lev,
         NEW top, Whole(wr, N, r, F, H, T, v, lo, hi, lev, top), NEW l, l = H[wr],
         l.pc = "parent", NEW n, n = l.held[l.level]
  PROVE  Settles(wr, N, r, F, H, l, n, T, v, lo, hi, lev, top)
PROOF
  <1>1. /\ l \in Locals /\ Nodes(N, r, F) /\ Shaped(N, r, F, l, T, v, lo, hi, lev, top)
        /\ Settling(N, r, l, T, lev) /\ l.level \in Nat /\ Filled(N, r, l, T) /\ Asked(l, wr)
    BY WriterKnows
  <1>2. /\ l.request.op = "delete" /\ Stacked(N, l, l.level, T, lev) /\ N[n].type = "internal"
        /\ (l.level > 1 => Ready(N, r, l)) /\ (l.level = 1 => n = r \/ N[n].count >= Fewest(N[n]))
    BY <1>1 DEF Settling
  <1>3. Leveled(T, lev) BY <1>1, LeveledIs
  <1>4. Path(l, l.level, T, lev) BY <1>1, <1>2, <1>3, StackedIs
  <1>5. PICK m \in Nat : m = l.level /\ m \in 1..Len(l.held) /\ Len(l.held) \in Nat
    BY <1>1, <1>4 DEF Path
  <1>6. m >= 1 /\ m \in 1..m BY <1>5
  <1>7. n \in T /\ n \in ToSet(l.held) BY <1>4, <1>5, <1>6 DEF Path
  <1>8. l.pc \notin Midway BY DEF Midway
  <1>9. Calm(N, r, F, T, v, lo, hi, lev, top) BY <1>1, <1>8, CalmIs
  <1>10. n \in Pages /\ n \notin F BY <1>7, <1>9 DEF Calm
  <1>11. N[n] \in NodeType /\ IsNode(N[n]) BY <1>1, <1>10 DEF Nodes
  <1>12. N[n].count \in Nat /\ N[n].count = Len(N[n].ent) /\ N[n].ent \in Seq(Nat)
    BY <1>2, <1>11 DEF NodeType, IsNode
  <1>13. lev[n] # 0 BY <1>2, <1>7, <1>9 DEF Calm
  <1>14. Writes(l) BY <1>2 DEF Writes
  <1>15. Elsewhere(wr, H, n)
    <2>1. Writes(H[wr]) /\ n \in ToSet(H[wr].held) BY <1>7, <1>14
    <2> QED BY <2>1, Mine
  <1>16. ASSUME NEW q \in T, q # n
         PROVE  IF q = r THEN N[q].type = "internal" => N[q].count >= 1
                ELSE N[q].count >= Fewest(N[q])
    <2>1. ~Weak(l, q) BY <1>16 DEF Weak
    <2> QED BY <2>1, <1>1 DEF Filled
  <1>17. l.level >= 1 BY <1>5, <1>6
  <1> QED BY <1>1, <1>2, <1>7, <1>9, <1>10, <1>12, <1>13, <1>14, <1>15, <1>16, <1>17 DEF Settles

\* The root has no key and gives way to its only kid.
Shrinks(N, r, F, N2, r2, F2) ==
  r2 = N[r].child[1] /\ N2 = [N EXCEPT ![r] = FreePage] /\ F2 = F \cup {r}

LEMMA RootShrinks ==
  ASSUME NEW wr \in Threads, NEW N, NEW r, NEW F, NEW H, NEW T, NEW v, NEW lo, NEW hi, NEW lev,
         NEW top, Whole(wr, N, r, F, H, T, v, lo, hi, lev, top), NEW l, l = H[wr],
         l.pc = "parent", Settles(wr, N, r, F, H, l, r, T, v, lo, hi, lev, top), N[r].count = 0,
         NEW N2, NEW r2, NEW F2, Shrinks(N, r, F, N2, r2, F2),
         NEW d, Ended(d, l, l.got, l.result), NEW H2, Moves(H, wr, d, H2)
  PROVE  \E T2 : Whole(wr, N2, r2, F2, H2, T2, v, lo, hi, lev, top)
PROOF
  <1>1. /\ r \in T /\ r \in Pages /\ r \notin F /\ N[r].type = "internal"
        /\ N[r].count = Len(N[r].ent) /\ N[r].ent \in Seq(Nat) /\ lev[r] # 0
        /\ Calm(N, r, F, T, v, lo, hi, lev, top) /\ Elsewhere(wr, H, r)
        /\ \A q \in T : q # r => N[q].count >= Fewest(N[q])
    BY DEF Settles
  <1>2. Nodes(N, r, F) /\ l.result \in {"none", "found", "missing"} BY WriterKnows
  <1>3. /\ Tree(T, v, lo, hi, lev, lev[r], top) /\ T = Pages \ F /\ lo[r] = 0 /\ hi[r] = top
        /\ \A q \in T : /\ v[q] = Plain(N[q])
                        /\ N[q].type = IF lev[q] = 0 THEN "leaf" ELSE "internal"
    BY <1>1 DEF Calm
  <1>4. N[r].ent = << >>
    <2>1. PICK ks \in Seq(Nat) : ks = N[r].ent /\ Len(ks) = 0 BY <1>1
    <2>2. ks = << >> BY <2>1
    <2> QED BY <2>1, <2>2
  <1>5. v[r].keys = << >> /\ v[r].kids = N[r].child
    <2>1. v[r] = Plain(N[r]) /\ N[r].type = "internal" BY <1>1, <1>3
    <2>2. v[r].keys = N[r].ent /\ v[r].kids = N[r].child BY <2>1 DEF Plain
    <2> QED BY <2>2, <1>4
  <1>6. PICK h : h = lev[r] OBVIOUS
  <1>7. PICK T2, kid : kid = v[r].kids[1] /\ OneLower(T, T2, v, lo, hi, lev, r, h, top, kid)
    <2>1. Tree(T, v, lo, hi, lev, h, top) BY <1>3, <1>6
    <2>2. HighestIs(v, lo, hi, lev, r, h, top) BY <1>1, <1>3, <1>5, <1>6 DEF HighestIs
    <2> QED BY <2>1, <2>2, <1>1, ShrinkTree2
  <1>8. kid = r2 /\ N2 = [N EXCEPT ![r] = FreePage] /\ F2 = F \cup {r}
    BY <1>5, <1>7 DEF Shrinks
  <1>9. T2 = T \ {r} BY <1>7 DEF OneLower
  <1>10. /\ Tree(T2, v, lo, hi, lev, lev[r2], top) /\ r2 \in T2 /\ lo[r2] = 0 /\ hi[r2] = top
    BY <1>7, <1>8 DEF OneLower
  <1>11. PICK x : x = FreePage OBVIOUS
  <1>12. x \in NodeType /\ IsNode(x) /\ x.type = "free" BY <1>11, FreePageIs
  <1>13. Nodes(N2, r, F2) /\ \A q \in Pages : q # r => N2[q] = N[q]
    <2>1. N2 = [N EXCEPT ![r] = x] BY <1>8, <1>11
    <2>2. Only(N, N2, r, x) /\ (x.type = "free" => Nodes(N2, r, F \cup {r}))
      BY <2>1, <1>1, <1>2, <1>12, OnlyIs
    <2> QED BY <2>2, <1>8, <1>12 DEF Only
  <1>14. T2 \subseteq Pages /\ \A q \in T2 : q \in T /\ q # r /\ q \in Pages
    BY <1>3, <1>9
  <1>15. Nodes(N2, r2, F2) BY <1>10, <1>13, <1>14 DEF Nodes
  <1>16. \A q \in T2 : N2[q] = N[q] BY <1>13, <1>14
  <1>17. Rests(N2, r2, F2, T2, v, lo, hi, lev, top)
    <2>1. T2 = Pages \ F2 BY <1>3, <1>8, <1>9
    <2>2. \A q \in T2 : /\ v[q] = Plain(N2[q])
                        /\ N2[q].type = IF lev[q] = 0 THEN "leaf" ELSE "internal"
      BY <1>3, <1>14, <1>16
    <2>3. Calm(N2, r2, F2, T2, v, lo, hi, lev, top) BY <2>1, <2>2, <1>10 DEF Calm
    <2>4. ASSUME NEW q \in T2 PROVE N2[q].count >= Fewest(N2[q]) BY <1>1, <1>14, <1>16
    <2>5. ASSUME NEW q \in T2 PROVE N2[q].count >= 1
      <3>1. PICK f \in Nat : f = Fewest(N2[q]) /\ 1 <= f BY Sizes DEF Fewest
      <3>2. N2[q] \in NodeType BY <1>14, <1>15 DEF Nodes
      <3>3. PICK c \in Nat : c = N2[q].count BY <3>2 DEF NodeType
      <3>4. c >= f BY <3>1, <3>3, <2>4
      <3>5. c >= 1 BY <3>1, <3>4
      <3> QED BY <3>3, <3>5
    <2>6. Fit(N2, r2, T2) BY <2>4, <2>5 DEF Fit
    <2> QED BY <2>3, <2>6 DEF Rests
  <1>18. Undisturbed(wr, N, H, T, lo, hi, N2, T2, lo, hi)
    <2>1. ASSUME NEW q \in T, q # r PROVE q \in T2 /\ N2[q] = N[q]
      BY <2>1, <1>9, <1>16
    <2> QED BY <2>1, <1>1 DEF Undisturbed
  <1>19. H[wr].pc # "idle" OBVIOUS
  <1>20. Ended(d, H[wr], H[wr].got, l.result) OBVIOUS
  <1>21. Whole(wr, N2, r2, F2, H2, T2, v, lo, hi, lev, top)
    BY <1>2, <1>15, <1>17, <1>18, <1>19, <1>20, DoneStep
  <1> QED BY <1>21

\* The node has enough keys: the deletion is done.
LEMMA DeleteEnds ==
  ASSUME NEW wr \in Threads, NEW N, NEW r, NEW F, NEW H, NEW T, NEW v, NEW lo, NEW hi, NEW lev,
         NEW top, Whole(wr, N, r, F, H, T, v, lo, hi, lev, top), NEW l, l = H[wr],
         l.pc = "parent", NEW n, Settles(wr, N, r, F, H, l, n, T, v, lo, hi, lev, top),
         n = r => N[n].count >= 1, n # r => N[n].count >= Fewest(N[n]),
         NEW d, Ended(d, l, l.got, l.result), NEW H2, Moves(H, wr, d, H2)
  PROVE  Whole(wr, N, r, F, H2, T, v, lo, hi, lev, top)
PROOF
  <1>1. \A q \in T : q # n => IF q = r THEN N[q].type = "internal" => N[q].count >= 1
                              ELSE N[q].count >= Fewest(N[q])
    BY DEF Settles
  <1>2. /\ l \in Locals /\ l.got \in Seq(Nat) /\ l.result \in {"none", "found", "missing"}
        /\ wr \in Threads
    BY WriterKnows
  <1>3. d.pc = "return" BY <1>2, EndedIs
  <1>4. \A q : ~Weak(d, q) BY <1>3 DEF Weak, Repairing
  <1>5. Filled(N, r, d, T) BY <1>1, <1>4 DEF Filled
  <1>6. H[wr].pc \notin Midway \cup {"idle"} BY DEF Midway
  <1>7. Ended(d, H[wr], l.got, l.result) OBVIOUS
  <1> QED BY <1>2, <1>5, <1>6, <1>7, EndCalm

\* The node has too few keys and is repaired in its turn.
LEMMA DeleteGoesOn ==
  ASSUME NEW wr \in Threads, NEW N, NEW r, NEW F, NEW H, NEW T, NEW v, NEW lo, NEW hi, NEW lev,
         NEW top, Whole(wr, N, r, F, H, T, v, lo, hi, lev, top), NEW l, l = H[wr],
         l.pc = "parent", NEW n, n = l.held[l.level],
         Settles(wr, N, r, F, H, l, n, T, v, lo, hi, lev, top),
         N[n].count < Fewest(N[n]), l.level # 1,
         NEW l2, Underflows(l, l.level, l.result, l2), NEW H2, Moves(H, wr, l2, H2)
  PROVE  Whole(wr, N, r, F, H2, T, v, lo, hi, lev, top)
PROOF
  <1>1. /\ l.level \in Nat /\ l.level >= 1 /\ Stacked(N, l, l.level, T, lev)
        /\ (l.level > 1 => Ready(N, r, l)) /\ l.request.op = "delete" /\ Writes(l)
        /\ Asked(l, wr)
    BY DEF Settles
  <1>2. l \in Locals /\ l.result \in {"none", "found", "missing"} /\ Filled(N, r, l, T)
    BY WriterKnows
  <1>3. /\ l2 \in Locals /\ l2.pc = "borrow_right" /\ l2.level = l.level /\ l2.held = l.held
        /\ l2.request = l.request
    BY <1>1, <1>2, UnderflowIs
  <1>4. /\ l.pc \notin Midway /\ l2.pc \notin Midway /\ l2.pc # "idle"
        /\ l2.pc \notin {"idle", "root", "return", "child", "leaf", "next", "more"}
        /\ l2.pc \in Repairing
    BY <1>3 DEF Repairing, Midway
  <1>5. Asked(l2, wr) BY <1>1, <1>3, <1>4 DEF Asked
  <1>6. Writes(l2) BY <1>1, <1>3 DEF Writes
  <1>7. OnItsWay(N, l2, T, lo, hi) BY <1>4, <1>6 DEF OnItsWay
  <1>8. Took(wr, H, l2)
    <2>1. Latched(wr, H) BY WholeIs
    <2> QED BY <2>1, <1>1, <1>3 DEF Latched, Took
  <1>9. Filled(N, r, l2, T)
    <2>1. l.pc \in Repairing \cup {"parent"} /\ l2.pc \in Repairing \cup {"parent"} BY <1>4
    <2>2. l.held[l.level] = l2.held[l2.level] BY <1>3
    <2> QED BY <2>1, <2>2, <1>2, FilledStill
  <1>10. l.level > 1 BY <1>1
  <1>11. Stacked(N, l2, l2.level, T, lev) /\ Ready(N, r, l2)
    <2>1. Stacked(N, l, l.level, T, lev) /\ Ready(N, r, l) BY <1>1, <1>10, Zenon
    <2>2. Stacked(N, l2, l.level, T, lev) BY <2>1, <1>3, StackedSame, Zenon
    <2>3. Ready(N, r, l2) BY <2>1, <1>3, Zenon DEF Ready
    <2> QED BY <2>2, <2>3, <1>3, Zenon
  <1>12. Mending(N, r, l2, T, lev) BY <1>1, <1>3, <1>10, <1>11 DEF Mending
  <1>13. Writing(N, r, l2, T, lo, hi, lev, top) BY <1>4, <1>12, MendingOnly
  <1> QED BY <1>3, <1>4, <1>5, <1>7, <1>8, <1>9, <1>13, CalmStep, Zenon

\* What propagate_delete does at the node n, which has lost a kid.
Resettles(t, l, n) ==
  /\ l.pc = "parent"
  /\ \/ /\ n = root /\ node[n].count = 0 /\ Shrinks(node, root, free, node', root', free')
        /\ Moves(th, t, Done(t, l.result), th')
     \/ /\ n = root => node[n].count > 0
        /\ UNCHANGED <<node, root, free>>
        /\ \/ /\ n = root \/ node[n].count >= MinInternal \/ l.level = 1
              /\ Moves(th, t, Done(t, l.result), th')
           \/ /\ n # root /\ ~(node[n].count >= MinInternal) /\ l.level # 1
              /\ \E l2 : Underflows(l, l.level, l.result, l2) /\ Moves(th, t, l2, th')

LEMMA ResettlesIs ==
  ASSUME NEW t, propagate_delete(t), NEW l, l = th[t], NEW n, n = l.held[l.level]
  PROVE  Resettles(t, l, n)
PROOF
  <1>1. l.pc = "parent" /\ NodeAt(t) = n BY DEF propagate_delete, NodeAt
  <1>2. CASE n = root /\ node[n].count = 0 /\ ShrinkRoot(t)
    <2>1. Shrinks(node, root, free, node', root', free') BY <1>2 DEF ShrinkRoot, Shrinks
    <2>2. Moves(th, t, Done(t, l.result), th') BY <1>2 DEF ShrinkRoot, Moves
    <2> QED BY <2>1, <2>2, <1>1, <1>2 DEF Resettles
  <1>3. CASE /\ n # root \/ node[n].count > 0
             /\ th' = [th EXCEPT ![t] =
                  IF n = root \/ node[n].count >= MinInternal \/ l.level = 1
                  THEN Done(t, l.result) ELSE Underflow(t, l.level, l.result)]
             /\ UNCHANGED <<node, root, free>>
    <2>1. CASE n = root \/ node[n].count >= MinInternal \/ l.level = 1
      <3>1. Moves(th, t, Done(t, l.result), th') BY <2>1, <1>3 DEF Moves
      <3> QED BY <3>1, <2>1, <1>1, <1>3 DEF Resettles
    <2>2. CASE ~(n = root \/ node[n].count >= MinInternal \/ l.level = 1)
      <3>1. PICK l2 : l2 = Underflow(t, l.level, l.result) OBVIOUS
      <3>2. Underflows(l, l.level, l.result, l2) BY <3>1 DEF Underflow, Underflows
      <3>3. Moves(th, t, l2, th') BY <3>1, <2>2, <1>3 DEF Moves
      <3> QED BY <3>2, <3>3, <2>2, <1>1, <1>3 DEF Resettles
    <2> QED BY <2>1, <2>2, Zenon
  <1> QED BY <1>1, <1>2, <1>3 DEF propagate_delete

\* propagate_delete of the writer.
LEMMA PropagateDeleteStep ==
  ASSUME NEW wr \in Threads, InvOf(wr), propagate_delete(wr)
  PROVE  InvOf(wr)'
PROOF
  <1>1. PICK T, v, lo, hi, lev, top : Whole(wr, node, root, free, th, T, v, lo, hi, lev, top)
    BY DEF InvOf
  <1>2. PICK l : l = th[wr] OBVIOUS
  <1>3. PICK n : n = l.held[l.level] OBVIOUS
  <1>4. Resettles(wr, l, n) BY <1>2, <1>3, ResettlesIs
  <1>5. l.pc = "parent" BY <1>4 DEF Resettles
  <1>6. Settles(wr, node, root, free, th, l, n, T, v, lo, hi, lev, top)
    BY <1>1, <1>2, <1>3, <1>5, SettlesIs
  <1>7. l.result \in {"none", "found", "missing"} BY <1>1, <1>2, WriterKnows
  <1>8. PICK d : d = Done(wr, l.result) OBVIOUS
  <1>9. Ended(d, l, l.got, l.result) BY <1>2, <1>7, <1>8, WriterDone
  <1>10. Fewest(node[n]) = MinInternal /\ node[n].count \in Nat BY <1>6 DEF Settles, Fewest
  <1>11. CASE /\ n = root /\ node[n].count = 0 /\ Shrinks(node, root, free, node', root', free')
              /\ Moves(th, wr, d, th')
    <2>1. node[root].count = 0 /\ Settles(wr, node, root, free, th, l, root, T, v, lo, hi, lev, top)
      BY <1>6, <1>11
    <2>2. PICK T2 : Whole(wr, node', root', free', th', T2, v, lo, hi, lev, top)
      BY <2>1, <1>1, <1>2, <1>5, <1>9, <1>11, RootShrinks
    <2> QED BY <2>2, Landed
  <1>12. ASSUME n = root => node[n].count > 0, UNCHANGED <<node, root, free>>,
                n = root \/ node[n].count >= MinInternal \/ l.level = 1, Moves(th, wr, d, th')
         PROVE  InvOf(wr)'
    <2>1. n = root => node[n].count >= 1 BY <1>10, <1>12
    <2>2. n # root => node[n].count >= Fewest(node[n]) BY <1>6, <1>10, <1>12 DEF Settles
    <2>3. Whole(wr, node, root, free, th', T, v, lo, hi, lev, top)
      BY <2>1, <2>2, <1>1, <1>2, <1>5, <1>6, <1>9, <1>12, DeleteEnds
    <2> QED BY <2>3, <1>12, Unmoved
  <1>13. ASSUME UNCHANGED <<node, root, free>>, ~(node[n].count >= MinInternal), l.level # 1,
                NEW l2, Underflows(l, l.level, l.result, l2), Moves(th, wr, l2, th')
         PROVE  InvOf(wr)'
    <2>1. node[n].count < Fewest(node[n])
      <3>1. MinInternal \in Nat BY Sizes
      <3> QED BY <3>1, <1>10, <1>13
    <2>2. Whole(wr, node, root, free, th', T, v, lo, hi, lev, top)
      BY <2>1, <1>1, <1>2, <1>3, <1>5, <1>6, <1>13, DeleteGoesOn
    <2> QED BY <2>2, <1>13, Unmoved
  <1> QED BY <1>4, <1>8, <1>11, <1>12, <1>13 DEF Resettles

-----------------------------------------------------------------------------
(* Every step, and what the invariant says.                                *)
\* The steps of an insertion or a deletion.
WriterOp(t) ==
  \/ InsertLeaf(t) \/ SplitLeaf(t) \/ PropagateInsert(t) \/ NewRoot(t)
  \/ DeleteLeaf(t) \/ BorrowRight(t) \/ BorrowLeft(t) \/ Merge(t) \/ Unlink(t)
  \/ propagate_delete(t)

LEMMA OnlyWr ==
  ASSUME NEW wr \in Threads, InvOf(wr), NEW t \in Threads, WriterOp(t)
  PROVE  t = wr
PROOF
  <1>1. SUFFICES ASSUME t # wr PROVE FALSE OBVIOUS
  <1>2. PICK T, v, lo, hi, lev, top : Whole(wr, node, root, free, th, T, v, lo, hi, lev, top)
    BY DEF InvOf
  <1>3. Writes(th[t]) => th[t].pc \in Outside
    <2>1. Alone(wr, th) BY <1>2, WholeIs
    <2> QED BY <2>1, <1>1 DEF Alone
  <1>4. OnItsWay(node, th[t], T, lo, hi) BY <1>2, WholeIs
  <1>5. th[t].pc \in ReaderPcs BY <1>3, <1>4 DEF OnItsWay, ReaderPcs, Outside
  <1>6. ~(th[t].pc = "leaf" /\ th[t].request.op \in {"insert", "delete"})
    BY <1>3 DEF Writes, Outside
  <1>7. \/ th[t].pc = "leaf" /\ th[t].request.op \in {"insert", "delete"}
        \/ th[t].pc \in {"split", "up", "borrow_right", "borrow_left", "merge", "unlink", "parent"}
    <2>1. CASE InsertLeaf(t) BY <2>1 DEF InsertLeaf, At
    <2>2. CASE SplitLeaf(t) BY <2>2 DEF SplitLeaf
    <2>3. CASE PropagateInsert(t) BY <2>3, Zenon DEF PropagateInsert
    <2>4. CASE NewRoot(t) BY <2>4 DEF NewRoot
    <2>5. CASE DeleteLeaf(t) BY <2>5 DEF DeleteLeaf, At
    <2>6. CASE BorrowRight(t) BY <2>6, Zenon DEF BorrowRight
    <2>7. CASE BorrowLeft(t) BY <2>7, Zenon DEF BorrowLeft
    <2>8. CASE Merge(t) BY <2>8, Zenon DEF Merge
    <2>9. CASE Unlink(t) BY <2>9, Zenon DEF Unlink
    <2>10. CASE propagate_delete(t) BY <2>10 DEF propagate_delete
    <2> QED BY <2>1, <2>2, <2>3, <2>4, <2>5, <2>6, <2>7, <2>8, <2>9, <2>10 DEF WriterOp
  <1> QED BY <1>5, <1>6, <1>7 DEF ReaderPcs

LEMMA WriterOpStep ==
  ASSUME NEW wr \in Threads, InvOf(wr), WriterOp(wr)
  PROVE  InvOf(wr)'
PROOF
  <1>1. CASE InsertLeaf(wr) BY <1>1, InsertLeafStep
  <1>2. CASE SplitLeaf(wr) BY <1>2, SplitLeafStep
  <1>3. CASE PropagateInsert(wr) BY <1>3, PropagateInsertStep
  <1>4. CASE NewRoot(wr) BY <1>4, NewRootStep
  <1>5. CASE DeleteLeaf(wr) BY <1>5, DeleteLeafStep
  <1>6. CASE BorrowRight(wr) BY <1>6, BorrowRightStep
  <1>7. CASE BorrowLeft(wr) BY <1>7, BorrowLeftStep
  <1>8. CASE Merge(wr) BY <1>8, MergeStep
  <1>9. CASE Unlink(wr) BY <1>9, UnlinkStep
  <1>10. CASE propagate_delete(wr) BY <1>10, PropagateDeleteStep
  <1> QED BY <1>1, <1>2, <1>3, <1>4, <1>5, <1>6, <1>7, <1>8, <1>9, <1>10 DEF WriterOp

\* A thread comes to the root while no insertion or deletion is in the tree: from
\* here on wr is its name.
LEMMA Handover ==
  ASSUME NEW wr \in Threads, InvOf(wr), Apart', NEW t \in Threads \ {wr}, LatchRoot(t),
         Writes(th[t]), th'[t].pc \notin Outside
  PROVE  InvOf(t)
PROOF
  <1>1. PICK T, v, lo, hi, lev, top : Whole(wr, node, root, free, th, T, v, lo, hi, lev, top)
    BY DEF InvOf
  <1>2. /\ Nodes(node, root, free) /\ Shaped(node, root, free, th[wr], T, v, lo, hi, lev, top)
        /\ Filled(node, root, th[wr], T) /\ Threading(node, th, T, lo, hi) /\ Alone(wr, th)
        /\ Bound(top) /\ th[t] \in Locals /\ OnItsWay(node, th[t], T, lo, hi)
        /\ OnItsWay(node, th[wr], T, lo, hi)
    BY <1>1, WholeIs
  <1>3. th[t].pc = "root" /\ th[t].held = << >>
    <2>1. th[t].pc = "root" BY DEF LatchRoot
    <2> QED BY <2>1, <1>2 DEF OnItsWay
  <1>4. th'[wr] = th[wr] /\ th'[t].request = th[t].request
    <2>1. PICK d : th' = [th EXCEPT ![t] = d] /\ d.request = th[t].request
      <3>1. PICK l \in Locals : l = th[t] BY <1>2
      <3>2. CASE l.want # root
        <4>1. PICK d : d = [l EXCEPT !.want = root] OBVIOUS
        <4>2. th' = [th EXCEPT ![t] = d] BY <3>1, <3>2, <4>1 DEF LatchRoot
        <4>3. d.request = l.request BY <4>1 DEF Locals
        <4> QED BY <4>2, <4>3, <3>1
      <3>3. CASE l.want = root
        <4>1. PICK held : held = <<root>> OBVIOUS
        <4>2. PICK d : d = Reached(t, root, held) OBVIOUS
        <4>3. Arrived(d, l, node[root], root, held) BY <4>2, <3>1, ReachedIs
        <4>4. th' = [th EXCEPT ![t] = d] BY <3>1, <3>3, <4>1, <4>2 DEF LatchRoot
        <4>5. d.request = l.request BY <4>3 DEF Arrived, Locals
        <4> QED BY <4>4, <4>5, <3>1
      <3> QED BY <3>2, <3>3
    <2>2. DOMAIN th = Threads BY <1>2 DEF Threading
    <2> QED BY <2>1, <2>2
  <1>5. Writes(th[wr]) => th[wr].pc \in Outside
    <2>1. Inside(t)' BY <1>4 DEF Inside, Writer, Writes
    <2>2. ~Inside(wr)' BY <2>1 DEF Apart
    <2> QED BY <2>2, <1>4 DEF Inside, Writer, Writes
  <1>6. th[wr].pc \in ReaderPcs BY <1>2, <1>5 DEF OnItsWay, ReaderPcs, Outside
  <1>7. th[t].pc \in ReaderPcs /\ th[t].pc \notin Midway BY <1>3 DEF ReaderPcs, Midway
  <1>8. Filled(node, root, th[t], T) BY <1>2, <1>6, <1>7, FilledSame
  <1>9. Shaped(node, root, free, th[t], T, v, lo, hi, lev, top)
    <2>1. th[wr].pc \notin Midway BY <1>6 DEF ReaderPcs, Midway
    <2>2. Calm(node, root, free, T, v, lo, hi, lev, top) BY <2>1, <1>2, CalmIs
    <2> QED BY <2>2, <1>7, CalmShaped
  <1>10. Writing(node, root, th[t], T, lo, hi, lev, top) BY <1>3, Resting
  <1>11. Alone(t, th) BY <1>2, <1>5 DEF Alone
  <1>12. Latched(t, th)
    <2>1. ToSet(th[t].held) = {} BY <1>3, StackIs
    <2> QED BY <2>1 DEF Latched
  <1>13. Whole(t, node, root, free, th, T, v, lo, hi, lev, top)
    BY <1>2, <1>8, <1>9, <1>10, <1>11, <1>12 DEF Whole
  <1> QED BY <1>13 DEF InvOf

LEMMA InvNext ==
  ASSUME Inv, [Next]_vars, Apart'
  PROVE  Inv'
PROOF
  <1>1. PICK wr \in Threads : InvOf(wr) BY DEF Inv
  <1>2. CASE UNCHANGED vars BY <1>1, <1>2 DEF vars, Inv, InvOf
  <1>3. ASSUME NEW t \in Threads, Call(t) \/ Step(t) PROVE \E w \in Threads : InvOf(w)'
    <2>1. CASE Call(t) BY <2>1, <1>1, CallStep
    <2>2. CASE LatchRoot(t)
      <3>1. CASE t # wr /\ Writes(th[t]) /\ th'[t].pc \notin Outside
        <4>1. InvOf(t) BY <3>1, <2>2, <1>1, Handover
        <4> QED BY <4>1, <2>2, LatchRootStep
      <3>2. CASE ~(t # wr /\ Writes(th[t]) /\ th'[t].pc \notin Outside)
        BY <3>2, <2>2, <1>1, LatchRootStep
      <3> QED BY <3>1, <3>2
    <2>3. CASE LatchChild(t) BY <2>3, <1>1, LatchChildStep
    <2>4. CASE bptree_search(t) BY <2>4, <1>1, SearchStep
    <2>5. CASE ScanLeaf(t) BY <2>5, <1>1, ScanLeafStep
    <2>6. CASE LatchNext(t) BY <2>6, <1>1, LatchNextStep
    <2>7. CASE Return(t) BY <2>7, <1>1, ReturnStep
    <2>8. CASE WriterOp(t)
      <3>1. t = wr BY <2>8, <1>1, OnlyWr
      <3> QED BY <3>1, <2>8, <1>1, WriterOpStep
    <2> QED BY <1>3, <2>1, <2>2, <2>3, <2>4, <2>5, <2>6, <2>7, <2>8 DEF Step, WriterOp
  <1> QED BY <1>2, <1>3 DEF Next, Inv

\* A well-formed tree at the start, with all keys of the workload below a bound.
FirstTree ==
  /\ Nodes(InitTree.node, InitTree.root, InitTree.free)
  /\ \E T, v, lo, hi, lev, top :
       Bound(top) /\ Rests(InitTree.node, InitTree.root, InitTree.free, T, v, lo, hi, lev, top)

LEMMA InvInit ==
  ASSUME FirstTree, Init
  PROVE  Inv
PROOF
  <1>1. Nodes(node, root, free) BY DEF FirstTree, Init
  <1>2. PICK T, v, lo, hi, lev, top : Bound(top) /\ Rests(node, root, free, T, v, lo, hi, lev, top)
    BY DEF FirstTree, Init
  <1>3. PICK wr \in Threads : TRUE BY BPTreeAssumption DEF BPTreeAssumption
  <1>4. th = [t \in Threads |-> Idle] BY DEF Init
  <1>5. PICK l : l = Idle OBVIOUS
  <1>6. l \in Locals /\ l.pc = "idle" /\ l.held = << >> /\ l.request.op = "none"
    BY <1>5, IdleIs
  <1>7. th \in [Threads -> Locals] /\ \A t \in Threads : th[t] = l BY <1>4, <1>5, <1>6
  <1>8. l.pc \in ReaderPcs BY <1>6 DEF ReaderPcs
  <1>9. Shaped(node, root, free, l, T, v, lo, hi, lev, top) /\ Filled(node, root, l, T)
    BY <1>2, <1>8, RestsIs
  <1>10. ~Writes(l) BY <1>6 DEF Writes
  <1>11. OnItsWay(node, l, T, lo, hi)
    <2>1. Len(<< >>) = 0 OBVIOUS
    <2> QED BY <2>1, <1>6, <1>8, <1>10 DEF OnItsWay
  <1>12. Threading(node, th, T, lo, hi) BY <1>6, <1>7, <1>11 DEF Threading, Asked
  <1>13. Writing(node, root, l, T, lo, hi, lev, top)
    BY <1>6 DEF Writing, Descending, Splitting, Rising, Mending, Unlinking, Settling, Repairing
  <1>14. Alone(wr, th) /\ Latched(wr, th) BY <1>3, <1>7, <1>10 DEF Alone, Latched
  <1>15. th[wr] = l BY <1>3, <1>7
  <1>16. Whole(wr, node, root, free, th, T, v, lo, hi, lev, top)
    BY <1>1, <1>2, <1>9, <1>12, <1>13, <1>14, <1>15 DEF Whole
  <1> QED BY <1>16 DEF InvOf, Inv

\* The invariant, whatever the pages, the sizes, the threads, the requests and the
\* tree at the start: any number of threads insert, delete, search and scan, but
\* no two insertions or deletions are below the root at once (Apart).  The code
\* does not keep them apart, and then it fails (bptree.c:1205, bptree_header).
THEOREM TreeWhole ==
  ASSUME FirstTree
  PROVE  Spec /\ []Apart => []Inv
PROOF
  <1>1. Init => Inv BY InvInit
  <1>2. Inv /\ [Next]_vars /\ Apart' => Inv' BY InvNext
  <1> QED BY <1>1, <1>2, PTL DEF Spec

\* No page that a thread has latched on its way is free.
LEMMA HeldInTree ==
  ASSUME NEW wr \in Threads, NEW N, NEW r, NEW F, NEW H, NEW T, NEW v, NEW lo, NEW hi, NEW lev,
         NEW top, Whole(wr, N, r, F, H, T, v, lo, hi, lev, top), NEW t \in Threads,
         H[t].pc \in {"child", "leaf", "more"}, NEW p \in ToSet(H[t].held)
  PROVE  p \in T
PROOF
  <1>1. /\ H[t] \in Locals /\ OnItsWay(N, H[t], T, lo, hi)
        /\ Writing(N, r, H[wr], T, lo, hi, lev, top) /\ Threading(N, H, T, lo, hi)
    BY WholeIs
  <1>2. H[t].held \in Seq(Pages) BY <1>1 DEF Locals
  <1>3. PICK s \in Seq(Pages) : s = H[t].held BY <1>2
  <1>4. PICK i \in 1..Len(s) : s[i] = p BY <1>3, StackIs
  <1>5. CASE Writes(H[t])
    <2>1. t = wr
      <3>1. Alone(wr, H) BY WholeIs
      <3> QED BY <3>1, <1>5 DEF Alone, Outside
    <2>2. H[t].pc # "more" BY <1>1, <1>5 DEF OnItsWay
    <2>3. Stacked(N, H[t], Len(s), T, lev) BY <2>1, <2>2, <1>1, <1>3, <1>5 DEF Writing, Descending
    <2>4. \A j \in 1..Len(s) : H[t].held[j] \in T BY <2>3 DEF Stacked
    <2> QED BY <2>4, <1>3, <1>4
  <1>6. CASE ~Writes(H[t])
    <2>1. Len(s) <= 1 /\ Here(H[t]) \in T BY <1>1, <1>3, <1>6 DEF OnItsWay
    <2>2. i = Len(s) BY <2>1, <1>4
    <2> QED BY <2>1, <2>2, <1>3, <1>4 DEF Here
  <1> QED BY <1>5, <1>6

\* NoFreedPageRead: a thread never works on a page that was freed while it
\* waited for its latch, at the root, on the way down or along the chain of the
\* leaves (find_leaf_rlatch, find_leaf_wlatch, bptree_range_scan), as long as the
\* insertions and deletions are Apart.
THEOREM FreedNeverRead ==
  ASSUME FirstTree
  PROVE  Spec /\ []Apart => []NoFreedPageRead
PROOF
  <1>1. ASSUME Inv PROVE NoFreedPageRead
    <2>0. PICK wr \in Threads : InvOf(wr) BY <1>1 DEF Inv
    <2>1. PICK T, v, lo, hi, lev, top : Whole(wr, node, root, free, th, T, v, lo, hi, lev, top)
      BY <2>0 DEF InvOf
    <2>2. SUFFICES ASSUME NEW t \in Threads, th[t].pc \in {"child", "leaf", "more"},
                          NEW p \in ToSet(th[t].held)
                   PROVE  node[p].type # "free"
      BY DEF NoFreedPageRead
    <2>3. p \in T BY <2>1, <2>2, HeldInTree
    <2>4. Nodes(node, root, free) /\ Shaped(node, root, free, th[wr], T, v, lo, hi, lev, top)
      BY <2>1, WholeIs
    <2>5. p \in Pages /\ p \notin free BY <2>3, <2>4 DEF Shaped
    <2> QED BY <2>4, <2>5 DEF Nodes
  <1>2. Spec /\ []Apart => []Inv BY TreeWhole
  <1> QED BY <1>1, <1>2, PTL

\* TypeOK: the variables have their types and no page holds more keys than it
\* has room for, which is what a split keeps when the page was full, as long as
\* the insertions and deletions are Apart.
THEOREM TreeTyped ==
  ASSUME FirstTree
  PROVE  Spec /\ []Apart => []TypeOK
PROOF
  <1>1. ASSUME Inv PROVE TypeOK
    <2>0. PICK wr \in Threads : InvOf(wr) BY <1>1 DEF Inv
    <2>1. PICK T, v, lo, hi, lev, top : Whole(wr, node, root, free, th, T, v, lo, hi, lev, top)
      BY <2>0 DEF InvOf
    <2>2. Nodes(node, root, free) /\ \A t \in Threads : th[t] \in Locals BY <2>1, WholeIs
    <2>3. node \in [Pages -> NodeType] /\ root \in Pages /\ free \subseteq Pages
      BY <2>2 DEF Nodes
    <2>4. ASSUME NEW p \in Pages
          PROVE  node[p].count <= IF node[p].type = "internal" THEN MaxInternal ELSE MaxLeaf
      BY <2>2 DEF Nodes, IsNode
    <2>5. ASSUME NEW t \in Threads
          PROVE  /\ th[t].request \in Requests
                 /\ th[t].want \in PageNo
                 /\ th[t].held \in Seq(Pages)
                 /\ th[t].got \in Seq(Nat)
                 /\ th[t].result \in {"none", "found", "missing"}
      BY <2>2 DEF Locals
    <2> QED BY <2>3, <2>4, <2>5 DEF TypeOK
  <1>2. Spec /\ []Apart => []Inv BY TreeWhole
  <1> QED BY <1>1, <1>2, PTL

\* The tree of a new database: the root is an empty leaf, no other page is in use.
NewTree(r) ==
  [node |-> [p \in Pages |-> IF p = r THEN Leaf(<< >>, 0) ELSE FreePage],
   root |-> r, free |-> Pages \ {r}]
KeysBelow(b) == \A t \in Threads : \A q \in Workload[t] : q.low < b

\* FirstTree is what a new database begins with, when the keys have a bound (in
\* the code it is 2^64).
THEOREM NewTreeFits ==
  ASSUME NEW b \in Nat, KeysBelow(b), NEW r \in Pages, InitTree = NewTree(r)
  PROVE  FirstTree
PROOF
  <1>1. PICK N, F : N = InitTree.node /\ F = InitTree.free OBVIOUS
  <1>2. /\ N = [p \in Pages |-> IF p = r THEN Leaf(<< >>, 0) ELSE FreePage]
        /\ F = Pages \ {r} /\ InitTree.root = r
    BY <1>1 DEF NewTree
  <1>3. PICK x : x = Leaf(<< >>, 0) OBVIOUS
  <1>4. IsLeaf(x, << >>, 0)
    <2>1. << >> \in Seq(Nat) /\ Len(<< >>) <= MaxLeaf BY Sizes
    <2> QED BY <2>1, <1>3, LeafIs
  <1>5. /\ Plain(x).keys = << >> /\ Plain(x).kids = << >> /\ Plain(x).next = 0
        /\ x \in NodeType /\ IsNode(x) /\ x.type = "leaf"
    <2>1. << >> \in Seq(Nat) /\ Len(<< >>) <= MaxLeaf BY Sizes
    <2> QED BY <2>1, <1>4, LeafPlain
  <1>6. N[r] = x /\ \A p \in Pages : p # r => N[p] = FreePage BY <1>2, <1>3
  <1>7. Nodes(N, r, F)
    <2>1. \A p \in Pages : N[p] \in NodeType /\ IsNode(N[p]) BY <1>5, <1>6, FreePageIs
    <2>2. N \in [Pages -> NodeType] BY <2>1, <1>2
    <2>3. F = {p \in Pages : N[p].type = "free"} BY <1>2, <1>5, <1>6, FreePageIs
    <2> QED BY <2>1, <2>2, <2>3 DEF Nodes
  <1>8. PICK T : T = {r} OBVIOUS
  <1>0. PICK top \in Nat : top = b + 1 OBVIOUS
  <1>9. PICK v, lo, hi, lev : /\ v = [q \in Pages |-> Plain(N[q])] /\ lo = [q \in Pages |-> 0]
                              /\ hi = [q \in Pages |-> top] /\ lev = [q \in Pages |-> 0]
    OBVIOUS
  <1>10. v[r] = Plain(x) /\ lo[r] = 0 /\ hi[r] = top /\ lev[r] = 0 BY <1>6, <1>9
  <1>11. Bound(top) BY <1>0, BPTreeAssumption DEF KeysBelow, Bound, Requests
  <1>12. Tree(T, v, lo, hi, lev, 0, top)
    <2>1. 0 \notin T BY <1>8, Sizes
    <2>2. Ranges(T, lo, hi, lev, 0, top) BY <1>0, <1>8, <1>10 DEF Ranges
    <2>3. InRange(<< >>, 0, top)
      <3>1. << >> \in Seq(Nat) /\ \A i \in 1..Len(<< >>) : FALSE OBVIOUS
      <3> QED BY <3>1 DEF InRange, Ordered
    <2>4. Fits(v[r], r, T, lo, hi, lev, top) BY <2>3, <1>5, <1>10 DEF Fits, LeafFits
    <2> QED BY <2>1, <2>2, <2>4, <1>8 DEF Tree
  <1>13. Calm(N, r, F, T, v, lo, hi, lev, top)
    <2>1. T = Pages \ F BY <1>2, <1>8
    <2>2. v[r] = Plain(N[r]) /\ N[r].type = IF lev[r] = 0 THEN "leaf" ELSE "internal"
      BY <1>5, <1>6, <1>10
    <2> QED BY <2>1, <2>2, <1>8, <1>10, <1>12 DEF Calm
  <1>14. Fit(N, r, T) BY <1>5, <1>6, <1>8 DEF Fit
  <1>15. Rests(N, r, F, T, v, lo, hi, lev, top) BY <1>13, <1>14 DEF Rests
  <1>16. /\ Nodes(InitTree.node, InitTree.root, InitTree.free) /\ Bound(top)
         /\ Rests(InitTree.node, InitTree.root, InitTree.free, T, v, lo, hi, lev, top)
    BY <1>1, <1>2, <1>7, <1>11, <1>15
  <1> QED BY <1>16 DEF FirstTree

-----------------------------------------------------------------------------
(* The levels of the tree.                                                 *)
Kids(S) == UNION {ToSet(node[p].child) : p \in S}
Laid(g, m) == g = [n \in 0..m |-> IF n = 0 THEN {root} ELSE Kids(g[n - 1])]
Layers(g, m) ==
  /\ g[0] = {root}
  /\ \A n \in 1..m : g[n] = Kids(g[n - 1])

LEMMA LaidIs ==
  ASSUME NEW g, NEW m \in Nat, Laid(g, m)
  PROVE  Layers(g, m)
PROOF
  <1>1. DOMAIN g = 0..m /\ \A n \in 0..m : g[n] = IF n = 0 THEN {root} ELSE Kids(g[n - 1])
    BY Zenon DEF Laid
  <1>2. 0 \in 0..m /\ \A n \in 1..m : n \in 0..m /\ n # 0 OBVIOUS
  <1>3. g[0] = {root} BY <1>1, <1>2
  <1>4. \A n \in 1..m : g[n] = Kids(g[n - 1]) BY <1>1, <1>2
  <1> QED BY <1>3, <1>4 DEF Layers

LEMMA LaidOn ==
  ASSUME NEW g, NEW k \in Nat, Laid(g, k), NEW m \in Nat, m = k + 1
  PROVE  \E h : Laid(h, m)
PROOF
  <1>1. \A n \in 0..k : g[n] = IF n = 0 THEN {root} ELSE Kids(g[n - 1])
    BY Zenon DEF Laid
  <1>2. PICK h : h = [n \in 0..m |-> IF n = m THEN Kids(g[k]) ELSE g[n]] OBVIOUS
  <1>3. PICK f : f = [n \in 0..m |-> IF n = 0 THEN {root} ELSE Kids(h[n - 1])] OBVIOUS
  <1>4. h[m] = Kids(g[k]) /\ \A n \in 0..k : h[n] = g[n]
    <2>1. m \in 0..m /\ \A n \in 0..k : n \in 0..m /\ n # m OBVIOUS
    <2> QED BY <2>1, <1>2
  <1>5. ASSUME NEW n \in 0..m PROVE h[n] = f[n]
    <2>1. CASE n = 0
      <3>1. n \in 0..k BY <2>1
      <3> QED BY <2>1, <3>1, <1>1, <1>3, <1>4
    <2>2. CASE n = m
      <3>1. n # 0 /\ n - 1 = k /\ k \in 0..k BY <2>2
      <3>2. h[n - 1] = g[k] BY <3>1, <1>4
      <3>3. f[n] = Kids(h[n - 1]) BY <3>1, <1>3
      <3> QED BY <3>2, <3>3, <2>2, <1>4
    <2>3. CASE n # 0 /\ n # m
      <3>1. n \in 0..k /\ n - 1 \in 0..k BY <2>3
      <3>2. g[n] = Kids(g[n - 1]) BY <3>1, <2>3, <1>1
      <3>3. h[n] = g[n] /\ h[n - 1] = g[n - 1] BY <3>1, <1>4
      <3>4. f[n] = Kids(h[n - 1]) BY <2>3, <1>3
      <3> QED BY <3>2, <3>3, <3>4
    <2> QED BY <2>1, <2>2, <2>3
  <1>6. h = f BY <1>2, <1>3, <1>5, Zenon
  <1>7. h = [n \in 0..m |-> IF n = 0 THEN {root} ELSE Kids(h[n - 1])] BY <1>3, <1>6
  <1> QED BY <1>7 DEF Laid

LEMMA LaidAny ==
  ASSUME NEW m \in Nat
  PROVE  \E g : Laid(g, m)
PROOF
  <1> DEFINE S == {k \in Nat : ~\E g : Laid(g, k)}
  <1>1. SUFFICES ASSUME S # {} PROVE FALSE BY Zenon
  <1>2. PICK k \in S : \A x \in S : k <= x
    <2>1. S \subseteq Nat OBVIOUS
    <2> QED BY <1>1, <2>1, Least
  <1>3. k \in Nat /\ ~\E g : Laid(g, k) OBVIOUS
  <1> HIDE DEF S
  <1>4. CASE k = 0
    <2>1. PICK g : g = [n \in 0..0 |-> {root}] OBVIOUS
    <2>2. PICK f : f = [n \in 0..0 |-> IF n = 0 THEN {root} ELSE Kids(g[n - 1])] OBVIOUS
    <2>3. \A n \in 0..0 : n = 0 OBVIOUS
    <2>4. \A n \in 0..0 : g[n] = f[n] BY <2>1, <2>2, <2>3
    <2>5. g = f BY <2>1, <2>2, <2>4, Zenon
    <2>6. Laid(g, 0) BY <2>2, <2>5 DEF Laid
    <2> QED BY <2>6, <1>3, <1>4
  <1>5. CASE k # 0
    <2>1. PICK j \in Nat : k = j + 1
      <3>1. k - 1 \in Nat /\ k = (k - 1) + 1 BY <1>3, <1>5
      <3> QED BY <3>1
    <2>2. j \notin S BY <2>1, <1>2
    <2>3. PICK g : Laid(g, j) BY <2>2 DEF S
    <2>4. \E h : Laid(h, k) BY <2>1, <2>3, <1>3, LaidOn
    <2> QED BY <2>4, <1>3
  <1> QED BY <1>4, <1>5

LEMMA LevelsAre ==
  ASSUME NEW c \in Nat, c = Cardinality(Pages)
  PROVE  DOMAIN Levels = 0..c /\ Layers(Levels, c)
PROOF
  <1>1. PICK g : Laid(g, c) BY LaidAny
  <1>2. Levels = CHOOSE f : f = [n \in 0..c |-> IF n = 0 THEN {root}
                                ELSE UNION {ToSet(node[p].child) : p \in f[n - 1]}]
    BY Zenon DEF Levels
  <1>3. Levels = CHOOSE f : Laid(f, c) BY <1>2, Zenon DEF Laid, Kids
  <1>4. Laid(Levels, c) BY <1>1, <1>3, Zenon
  <1>5. DOMAIN Levels = 0..c BY <1>4, Zenon DEF Laid
  <1> QED BY <1>4, <1>5, LaidIs

-----------------------------------------------------------------------------
\* What is known of a tree at rest, or in use by a writer that has changed nothing.
Known(T, v, lo, hi, lev, top, h) ==
  /\ Calm(node, root, free, T, v, lo, hi, lev, top) /\ h = lev[root] /\ h \in Nat
  /\ Ranges(T, lo, hi, lev, h, top) /\ Tree(T, v, lo, hi, lev, h, top) /\ T \subseteq Pages
  /\ \A q \in T : /\ lev[q] = 0 => node[q].child = << >>
                  /\ lev[q] # 0 => InnerFits(node[q].ent, node[q].child, lo[q], hi[q],
                                             lev[q], T, lo, hi, lev)

LEMMA KnownIs ==
  ASSUME Nodes(node, root, free), NEW T, NEW v, NEW lo, NEW hi, NEW lev, NEW top,
         Calm(node, root, free, T, v, lo, hi, lev, top), NEW h, h = lev[root]
  PROVE  Known(T, v, lo, hi, lev, top, h)
PROOF
  <1>1. /\ Tree(T, v, lo, hi, lev, h, top) /\ root \in T /\ T \subseteq Pages
        /\ \A q \in T : /\ v[q] = Plain(node[q])
                        /\ node[q].type = IF lev[q] = 0 THEN "leaf" ELSE "internal"
    BY DEF Calm
  <1>2. Ranges(T, lo, hi, lev, h, top) /\ \A q \in T : Fits(v[q], q, T, lo, hi, lev, top)
    BY <1>1 DEF Tree
  <1>3. h \in Nat BY <1>2 DEF Ranges
  <1>4. ASSUME NEW q \in T
        PROVE  /\ lev[q] = 0 => node[q].child = << >>
               /\ lev[q] # 0 => InnerFits(node[q].ent, node[q].child, lo[q], hi[q],
                                          lev[q], T, lo, hi, lev)
    <2>0. v[q] = Plain(node[q]) /\ node[q].type = IF lev[q] = 0 THEN "leaf" ELSE "internal"
      BY <1>1
    <2>1. v[q].kids = node[q].child
      <3>1. Plain(node[q]).kids = node[q].child BY DEF Plain
      <3> QED BY <3>1, <2>0
    <2>2. lev[q] = 0 => v[q].kids = << >> BY <1>2 DEF Fits, LeafFits
    <2>3. lev[q] # 0 => v[q].keys = node[q].ent
      <3>1. node[q].type = "internal" => Plain(node[q]).keys = node[q].ent BY DEF Plain
      <3> QED BY <3>1, <2>0
    <2>4. lev[q] # 0 => InnerFits(v[q].keys, v[q].kids, lo[q], hi[q], lev[q], T, lo, hi, lev)
      BY <1>2 DEF Fits
    <2> QED BY <2>1, <2>2, <2>3, <2>4
  <1> QED BY <1>1, <1>2, <1>3, <1>4 DEF Known

\* The kids of a node of the tree, and whose kid a node is.
LEMMA KidIs ==
  ASSUME NEW T, NEW v, NEW lo, NEW hi, NEW lev, NEW top, NEW h,
         Known(T, v, lo, hi, lev, top, h), NEW q \in T, NEW p \in ToSet(node[q].child)
  PROVE  p \in T /\ lev[p] + 1 = lev[q] /\ lo[q] <= lo[p] /\ hi[p] <= hi[q]
PROOF
  <1>1. lev[q] # 0
    <2>1. SUFFICES ASSUME lev[q] = 0 PROVE FALSE OBVIOUS
    <2>2. node[q].child = << >> BY <2>1 DEF Known
    <2> QED BY <2>2, StackIs
  <1>2. PICK cs : cs = node[q].child OBVIOUS
  <1>3. InnerFits(node[q].ent, cs, lo[q], hi[q], lev[q], T, lo, hi, lev)
    BY <1>1, <1>2 DEF Known
  <1>4. Ranges(T, lo, hi, lev, h, top) BY DEF Known
  <1>5. cs \in Seq(T) /\ \A i \in 1..Len(cs) : lev[cs[i]] + 1 = lev[q]
    BY <1>3 DEF InnerFits
  <1>6. \A i \in 1..Len(cs) : lo[q] <= lo[cs[i]] /\ hi[cs[i]] <= hi[q]
    BY <1>3, <1>4, Order
  <1>7. T \subseteq Pages BY DEF Known
  <1>8. cs \in Seq(Pages) BY <1>5, <1>7
  <1>9. PICK i \in 1..Len(cs) : cs[i] = p BY <1>2, <1>8, StackIs
  <1>10. cs[i] \in T BY <1>5
  <1> QED BY <1>5, <1>6, <1>9, <1>10

LEMMA KidOf ==
  ASSUME NEW T, NEW v, NEW lo, NEW hi, NEW lev, NEW top, NEW h,
         Known(T, v, lo, hi, lev, top, h), NEW p \in T, lev[p] # h
  PROVE  \E q \in T : p \in ToSet(node[q].child) /\ lev[q] = lev[p] + 1
PROOF
  <1>1. Tree(T, v, lo, hi, lev, h, top) BY DEF Known
  <1>2. PICK q \in T : \E i \in 1..Len(v[q].kids) : v[q].kids[i] = p BY <1>1, HasParent
  <1>3. v[q].kids = node[q].child
    <2>1. v[q] = Plain(node[q]) BY DEF Known, Calm
    <2>2. Plain(node[q]).kids = node[q].child BY DEF Plain
    <2> QED BY <2>1, <2>2
  <1>4. PICK cs : cs = node[q].child OBVIOUS
  <1>5. PICK i \in 1..Len(cs) : cs[i] = p BY <1>2, <1>3, <1>4
  <1>6. lev[q] # 0
    <2>1. SUFFICES ASSUME lev[q] = 0 PROVE FALSE OBVIOUS
    <2>2. cs = << >> BY <2>1, <1>4 DEF Known
    <2> QED BY <2>2, <1>5
  <1>7. cs \in Seq(T) BY <1>4, <1>6 DEF Known, InnerFits
  <1>8. T \subseteq Pages BY DEF Known
  <1>9. p \in ToSet(cs) BY <1>5, <1>7, <1>8, StackIs
  <1>10. lev[p] + 1 = lev[q] BY <1>4, <1>9, KidIs
  <1> QED BY <1>4, <1>9, <1>10

\* A tree has no more levels than pages.
LEMMA LevelsFew ==
  ASSUME NEW T, NEW v, NEW lo, NEW hi, NEW lev, NEW top, NEW h,
         Known(T, v, lo, hi, lev, top, h), NEW c \in Nat, c = Cardinality(Pages)
  PROVE  h + 1 <= c
PROOF
  <1>1. Ranges(T, lo, hi, lev, h, top) /\ root \in T /\ T \subseteq Pages /\ h \in Nat
    BY DEF Known, Calm
  <1>2. 0 \in 0..(top - 1) BY <1>1 DEF Ranges
  <1>3. \A d \in 0..h : \E p \in Pages : lev[p] = d BY <1>1, <1>2 DEF Ranges
  <1>4. PICK f : f = [d \in 0..h |-> CHOOSE p \in Pages : lev[p] = d] OBVIOUS
  <1>5. \A d \in 0..h : f[d] \in Pages /\ lev[f[d]] = d
    <2>1. ASSUME NEW d \in 0..h PROVE f[d] \in Pages /\ lev[f[d]] = d
      <3>1. f[d] = CHOOSE p \in Pages : lev[p] = d BY <1>4
      <3>2. \E p \in Pages : lev[p] = d BY <1>3
      <3> QED BY <3>1, <3>2, Zenon
    <2> QED BY <2>1
  <1>6. f \in [0..h -> Pages] BY <1>4, <1>5
  <1>7. IsFiniteSet(0..h) /\ Cardinality(0..h) = h + 1 BY <1>1, FS_Interval
  <1>8. IsFiniteSet(Pages) BY Sizes
  <1>9. SUFFICES ASSUME ~(h + 1 <= c) PROVE FALSE OBVIOUS
  <1>10. Cardinality(Pages) < Cardinality(0..h) BY <1>1, <1>7, <1>9
  <1>11. \E x, y \in 0..h : x # y /\ f[x] = f[y]
    BY <1>6, <1>7, <1>8, <1>10, FS_PigeonHole
  <1> QED BY <1>5, <1>11

\* Levels[n] is what the tree has n steps below the root.
AllAt(n, T, lev, h) == \A p \in Levels[n] : p \in T /\ lev[p] + n = h

LEMMA LevelIs ==
  ASSUME NEW T, NEW v, NEW lo, NEW hi, NEW lev, NEW top, NEW h,
         Known(T, v, lo, hi, lev, top, h), NEW c \in Nat, c = Cardinality(Pages)
  PROVE  \A n \in 0..c : AllAt(n, T, lev, h)
PROOF
  <1>1. Layers(Levels, c) BY LevelsAre
  <1>2. h = lev[root] /\ root \in T /\ \A q \in T : lev[q] \in Nat
    BY DEF Known, Calm, Ranges
  <1> DEFINE S == {n \in 0..c : ~AllAt(n, T, lev, h)}
  <1>3. SUFFICES ASSUME S # {} PROVE FALSE BY Zenon
  <1>4. PICK n \in S : \A x \in S : n <= x
    <2>1. S \subseteq Nat OBVIOUS
    <2> QED BY <1>3, <2>1, Least
  <1>5. n \in 0..c /\ ~AllAt(n, T, lev, h) OBVIOUS
  <1>6. \A m \in 0..c : m < n => AllAt(m, T, lev, h) BY <1>4
  <1> HIDE DEF S
  <1>7. CASE n = 0
    <2>1. Levels[n] = {root} BY <1>1, <1>7 DEF Layers
    <2>2. AllAt(n, T, lev, h) BY <2>1, <1>2, <1>7 DEF AllAt
    <2> QED BY <2>2, <1>5
  <1>8. CASE n # 0
    <2>1. n \in 1..c /\ n - 1 \in 0..c /\ n - 1 < n BY <1>5, <1>8
    <2>2. PICK m \in Nat : m = n - 1 /\ AllAt(m, T, lev, h) BY <2>1, <1>6
    <2>3. Levels[n] = Kids(Levels[m]) BY <2>1, <2>2, <1>1 DEF Layers
    <2>4. ASSUME NEW p \in Levels[n] PROVE p \in T /\ lev[p] + n = h
      <3>1. PICK q \in Levels[m] : p \in ToSet(node[q].child) BY <2>3 DEF Kids
      <3>2. q \in T /\ lev[q] + m = h BY <2>2 DEF AllAt
      <3>3. p \in T /\ lev[p] + 1 = lev[q] BY <3>1, <3>2, KidIs
      <3>4. lev[p] + n = h
        <4>1. lev[p] \in Nat /\ lev[q] \in Nat BY <1>2, <3>2, <3>3
        <4>2. PICK a \in Nat : a = lev[p] BY <4>1
        <4>3. a + 1 + m = h BY <4>1, <4>2, <3>2, <3>3
        <4>4. m + 1 = n BY <2>1, <2>2
        <4>5. a + n = h BY <4>3, <4>4
        <4> QED BY <4>2, <4>5
      <3> QED BY <3>3, <3>4
    <2>5. AllAt(n, T, lev, h) BY <2>4 DEF AllAt
    <2> QED BY <2>5, <1>5
  <1> QED BY <1>7, <1>8

LEMMA LevelHas ==
  ASSUME NEW T, NEW v, NEW lo, NEW hi, NEW lev, NEW top, NEW h,
         Known(T, v, lo, hi, lev, top, h), NEW c \in Nat, c = Cardinality(Pages)
  PROVE  \A n \in 0..h : n \in 0..c /\ \A p \in T : lev[p] + n = h => p \in Levels[n]
PROOF
  <1>1. Layers(Levels, c) BY LevelsAre
  <1>2. /\ h = lev[root] /\ root \in T /\ h \in Nat /\ top \in Nat
        /\ Ranges(T, lo, hi, lev, h, top) /\ lo[root] = 0 /\ hi[root] = top
        /\ \A q \in T : /\ lev[q] \in Nat /\ lo[q] \in Nat /\ hi[q] \in Nat
                        /\ lo[q] < hi[q] /\ hi[q] <= top
    BY DEF Known, Calm, Ranges
  <1>3. h + 1 <= c BY LevelsFew
  <1>4. 0..h \subseteq 0..c BY <1>2, <1>3
  <1> DEFINE Met(n) == \A p \in T : lev[p] + n = h => p \in Levels[n]
             S == {n \in 0..h : ~Met(n)}
  <1>5. SUFFICES ASSUME S # {} PROVE FALSE BY <1>4, Zenon
  <1>6. PICK n \in S : \A x \in S : n <= x
    <2>1. S \subseteq Nat OBVIOUS
    <2> QED BY <1>5, <2>1, Least
  <1>7. n \in 0..h /\ ~Met(n) OBVIOUS
  <1>8. \A m \in 0..h : m < n => Met(m) BY <1>6
  <1> HIDE DEF S
  <1>9. PICK p \in T : lev[p] + n = h /\ p \notin Levels[n] BY <1>7
  <1>10. CASE n = 0
    <2>1. Levels[n] = {root} BY <1>1, <1>10 DEF Layers
    <2>2. lev[p] = lev[root] BY <1>2, <1>9, <1>10
    <2>3. p = root
      <3>1. PICK k \in Nat : k = lo[p] BY <1>2
      <3>2. lo[p] <= k /\ k < hi[p] BY <3>1, <1>2
      <3>3. lo[root] <= k /\ k < hi[root]
        <4>1. PICK e \in Nat : e = hi[p] BY <1>2
        <4>2. k < e /\ e <= top BY <4>1, <3>2, <1>2
        <4>3. k < top BY <4>1, <4>2, <1>2
        <4> QED BY <4>3, <1>2, <3>1
      <3> QED BY <3>2, <3>3, <2>2, <1>2, OnePage
    <2> QED BY <2>1, <2>3, <1>9
  <1>11. CASE n # 0
    <2>1. PICK m \in Nat : m = n - 1 /\ n = m + 1 /\ m \in 0..h /\ m < n
      <3>1. n \in 0..h /\ h \in Nat BY <1>2, <1>7
      <3>2. n - 1 \in Nat /\ n = (n - 1) + 1 /\ n - 1 \in 0..h /\ n - 1 < n BY <3>1, <1>11
      <3> QED BY <3>2
    <2>2. PICK a \in Nat : a = lev[p] BY <1>2
    <2>3. a + n = h BY <1>9, <2>2
    <2>4. a # h BY <2>1, <2>3, <1>2
    <2>5. PICK q \in T : p \in ToSet(node[q].child) /\ lev[q] = lev[p] + 1
      <3>1. lev[p] # h BY <2>2, <2>4
      <3> QED BY <3>1, KidOf
    <2>6. lev[q] + m = h
      <3>1. PICK b \in Nat : b = lev[q] BY <1>2
      <3>2. b = a + 1 BY <3>1, <2>2, <2>5
      <3>3. b + m = h BY <3>2, <2>1, <2>3
      <3> QED BY <3>1, <3>3
    <2>7. q \in Levels[m] BY <2>1, <2>6, <1>8
    <2>8. n \in 1..c BY <1>4, <1>7, <1>11
    <2>9. Levels[n] = Kids(Levels[m]) BY <2>1, <2>8, <1>1 DEF Layers
    <2>10. p \in Levels[n] BY <2>5, <2>7, <2>9 DEF Kids
    <2> QED BY <2>10, <1>9
  <1> QED BY <1>10, <1>11

-----------------------------------------------------------------------------
(* Between the operations.                                                 *)
LEMMA SettledIs ==
  ASSUME Inv, Settled
  PROVE  \E T, v, lo, hi, lev, top, h :
           Known(T, v, lo, hi, lev, top, h) /\ Fit(node, root, T) /\ Nodes(node, root, free)
PROOF
  <1>0. PICK wr \in Threads : InvOf(wr) BY DEF Inv
  <1>1. PICK T, v, lo, hi, lev, top : Whole(wr, node, root, free, th, T, v, lo, hi, lev, top)
    BY <1>0 DEF InvOf
  <1>2. /\ Nodes(node, root, free) /\ Shaped(node, root, free, th[wr], T, v, lo, hi, lev, top)
        /\ Filled(node, root, th[wr], T)
    BY <1>1, WholeIs
  <1>3. PICK l : l = th[wr] OBVIOUS
  <1>4. l.pc \in {"idle", "root", "child", "leaf", "next", "more", "return"}
    BY <1>2, <1>3 DEF Settled
  <1>5. l.pc \notin Midway /\ l.pc \notin Repairing \cup {"parent"}
    BY <1>4 DEF Midway, Repairing
  <1>6. Calm(node, root, free, T, v, lo, hi, lev, top) BY <1>2, <1>3, <1>5, CalmIs
  <1>7. PICK h : h = lev[root] OBVIOUS
  <1>8. Known(T, v, lo, hi, lev, top, h) BY <1>2, <1>6, <1>7, KnownIs
  <1>9. \A p : ~Weak(l, p) BY <1>5 DEF Weak
  <1>10. Fit(node, root, T) BY <1>2, <1>3, <1>9 DEF Fit, Filled
  <1> QED BY <1>2, <1>8, <1>10

\* The pages of the levels are those of the tree.
LEMMA TreePages ==
  ASSUME NEW T, NEW v, NEW lo, NEW hi, NEW lev, NEW top, NEW h,
         Known(T, v, lo, hi, lev, top, h)
  PROVE  UNION {Levels[n] : n \in DOMAIN Levels} = T
PROOF
  <1>1. IsFiniteSet(Pages) BY Sizes
  <1>2. PICK c \in Nat : c = Cardinality(Pages) BY <1>1, FS_CardinalityType
  <1>3. DOMAIN Levels = 0..c BY <1>2, LevelsAre
  <1>4. \A n \in 0..c : \A p \in Levels[n] : p \in T BY <1>2, LevelIs DEF AllAt
  <1>5. ASSUME NEW p \in T PROVE \E n \in 0..c : p \in Levels[n]
    <2>1. h \in Nat /\ lev[p] \in 0..h BY DEF Known, Ranges
    <2>2. PICK a \in 0..h : a = lev[p] BY <2>1
    <2>3. PICK n \in 0..h : a + n = h
      <3>1. h - a \in 0..h /\ a + (h - a) = h BY <2>1
      <3> QED BY <3>1
    <2>4. lev[p] + n = h BY <2>2, <2>3
    <2>5. n \in 0..c /\ p \in Levels[n] BY <2>4, <1>2, LevelHas
    <2> QED BY <2>5
  <1> QED BY <1>3, <1>4, <1>5

\* PagesAccounted: between the operations every page is in the tree or free and
\* none is both, so neither a split nor a merge nor a change of the root leaks a
\* page or frees one that is used (pager_alloc_page, pager_free_page), as long as
\* the insertions and deletions are Apart.
THEOREM PagesKept ==
  ASSUME FirstTree
  PROVE  Spec /\ []Apart => []PagesAccounted
PROOF
  <1>1. ASSUME Inv PROVE PagesAccounted
    <2>1. SUFFICES ASSUME Settled
                   PROVE  LET tree == UNION {Levels[n] : n \in DOMAIN Levels} IN
                          tree \cap free = {} /\ tree \cup free = Pages
      BY DEF PagesAccounted
    <2>2. PICK T, v, lo, hi, lev, top, h :
            Known(T, v, lo, hi, lev, top, h) /\ Nodes(node, root, free)
      BY <1>1, <2>1, SettledIs
    <2>3. UNION {Levels[n] : n \in DOMAIN Levels} = T BY <2>2, TreePages
    <2>4. T = Pages \ free /\ free \subseteq Pages BY <2>2 DEF Known, Calm, Nodes
    <2> QED BY <2>3, <2>4
  <1>2. Spec /\ []Apart => []Inv BY TreeWhole
  <1> QED BY <1>1, <1>2, PTL

-----------------------------------------------------------------------------
(* The leaves from left to right.                                          *)
\* Leftmost: the way down by the first child.
Down(p) == IF node[p].type = "internal" THEN node[p].child[1] ELSE p
Falls(f, m) == f = [n \in 0..m |-> IF n = 0 THEN root ELSE Down(f[n - 1])]

\* One step down.
LEMMA DownKid ==
  ASSUME NEW T, NEW v, NEW lo, NEW hi, NEW lev, NEW top, NEW h,
         Known(T, v, lo, hi, lev, top, h), NEW q \in T
  PROVE  /\ Down(q) \in T /\ lo[Down(q)] = lo[q]
         /\ lev[q] = 0 => Down(q) = q
         /\ lev[q] # 0 => lev[Down(q)] + 1 = lev[q]
PROOF
  <1>1. node[q].type = IF lev[q] = 0 THEN "leaf" ELSE "internal" BY DEF Known, Calm
  <1>2. CASE lev[q] = 0
    <2>1. Down(q) = q BY <1>1, <1>2 DEF Down
    <2> QED BY <2>1, <1>2
  <1>3. CASE lev[q] # 0
    <2>1. InnerFits(node[q].ent, node[q].child, lo[q], hi[q], lev[q], T, lo, hi, lev)
      BY <1>3 DEF Known
    <2>2. PICK cs \in Seq(T), n \in Nat : cs = node[q].child /\ n = Len(node[q].ent)
                                         /\ Len(cs) = n + 1
      BY <2>1 DEF InnerFits
    <2>3. 1 \in 1..Len(cs) BY <2>2
    <2>4. cs[1] \in T /\ lev[cs[1]] + 1 = lev[q] /\ lo[cs[1]] = lo[q]
      BY <2>1, <2>2, <2>3 DEF InnerFits
    <2>5. Down(q) = cs[1] BY <1>1, <1>3, <2>2 DEF Down
    <2> QED BY <2>4, <2>5, <1>3
  <1> QED BY <1>2, <1>3

\* Leftmost goes down by the first child as often as there are pages.
LEMMA LeftmostFalls ==
  ASSUME NEW T, NEW v, NEW lo, NEW hi, NEW lev, NEW top, NEW h,
         Known(T, v, lo, hi, lev, top, h), NEW c \in Nat, c = Cardinality(Pages)
  PROVE  \E f : Falls(f, c) /\ Leftmost = f[c]
PROOF
  <1>1. PICK F : F = [x \in Nat \X T |-> Down(x[2])] OBVIOUS
  <1>2. F \in [Nat \X T -> T]
    <2>1. \A x \in Nat \X T : Down(x[2]) \in T BY DownKid
    <2> QED BY <2>1, <1>1
  <1>3. root \in T BY DEF Known, Calm
  <1>4. PICK g \in [0..c -> T] : Iterates(g, root, F, c) BY <1>2, <1>3, Iterated
  <1>5. PICK k : k = [n \in 0..c |-> IF n = 0 THEN root ELSE Down(g[n - 1])] OBVIOUS
  <1>6. ASSUME NEW n \in 0..c PROVE g[n] = k[n]
    <2>1. CASE n = 0 BY <2>1, <1>4, <1>5 DEF Iterates
    <2>2. CASE n # 0
      <3>1. n \in 1..c /\ n \in Nat /\ n - 1 \in 0..c BY <2>2
      <3>2. g[n] = F[<<n, g[n - 1]>>] /\ g[n - 1] \in T BY <3>1, <1>4 DEF Iterates
      <3>3. F[<<n, g[n - 1]>>] = Down(g[n - 1]) BY <3>1, <3>2, <1>1
      <3> QED BY <3>2, <3>3, <2>2, <1>5
    <2> QED BY <2>1, <2>2
  <1>7. g = k BY <1>5, <1>6, Zenon
  <1>8. Falls(g, c) BY <1>5, <1>7 DEF Falls
  <1>9. PICK f : f = CHOOSE x : Falls(x, c) OBVIOUS
  <1>10. Falls(f, c) BY <1>8, <1>9, Zenon
  <1>11. Leftmost = (CHOOSE x : Falls(x, c))[c] BY Zenon DEF Leftmost, Falls, Down
  <1> QED BY <1>9, <1>10, <1>11, Zenon

Fallen(q, n, T, lo, lev, h) == q \in T /\ lo[q] = 0 /\ (lev[q] = 0 \/ lev[q] + n = h)

\* It ends at the leaf whose range begins at 0.
LEMMA LeftmostIs ==
  ASSUME NEW T, NEW v, NEW lo, NEW hi, NEW lev, NEW top, NEW h,
         Known(T, v, lo, hi, lev, top, h)
  PROVE  Leftmost \in T /\ lev[Leftmost] = 0 /\ lo[Leftmost] = 0
PROOF
  <1>1. IsFiniteSet(Pages) BY Sizes
  <1>2. PICK c \in Nat : c = Cardinality(Pages) BY <1>1, FS_CardinalityType
  <1>3. PICK f : Falls(f, c) /\ Leftmost = f[c] BY <1>2, LeftmostFalls
  <1>4. \A n \in 0..c : f[n] = IF n = 0 THEN root ELSE Down(f[n - 1])
    BY <1>3, Zenon DEF Falls
  <1>5. /\ root \in T /\ lo[root] = 0 /\ lev[root] = h /\ h \in Nat
        /\ \A q \in T : lev[q] \in Nat
    BY DEF Known, Calm, Ranges
  <1> DEFINE B == {n \in 0..c : ~Fallen(f[n], n, T, lo, lev, h)}
  <1>6. B = {}
    <2>1. SUFFICES ASSUME B # {} PROVE FALSE BY Zenon
    <2>2. PICK n \in B : \A x \in B : n <= x
      <3>1. B \subseteq Nat OBVIOUS
      <3> QED BY <2>1, <3>1, Least
    <2>3. n \in 0..c /\ ~Fallen(f[n], n, T, lo, lev, h) OBVIOUS
    <2>4. \A x \in 0..c : ~(n <= x) => Fallen(f[x], x, T, lo, lev, h) BY <2>2
    <2> HIDE DEF B
    <2>5. CASE n = 0
      <3>1. f[n] = root BY <2>3, <2>5, <1>4
      <3>2. lev[root] + 0 = h BY <1>5
      <3> QED BY <3>1, <3>2, <2>3, <2>5, <1>5 DEF Fallen
    <2>6. CASE n # 0
      <3>1. PICK m \in 0..c : n = m + 1 /\ ~(n <= m)
        <4>1. n - 1 \in 0..c /\ n = (n - 1) + 1 /\ ~(n <= n - 1) BY <2>3, <2>6
        <4> QED BY <4>1
      <3>2. Fallen(f[m], m, T, lo, lev, h) BY <3>1, <2>4
      <3>3. n - 1 = m BY <3>1
      <3>4. f[n] = Down(f[m]) BY <3>3, <2>3, <2>6, <1>4
      <3>5. PICK q \in T : q = f[m] /\ lo[q] = 0 /\ (lev[q] = 0 \/ lev[q] + m = h)
        BY <3>2 DEF Fallen
      <3>6. PICK p \in T : /\ p = Down(q) /\ lo[p] = 0
                           /\ lev[q] = 0 => p = q
                           /\ lev[q] # 0 => lev[p] + 1 = lev[q]
        BY <3>5, DownKid
      <3>7. lev[p] = 0 \/ lev[p] + n = h
        <4>1. CASE lev[q] = 0 BY <4>1, <3>6
        <4>2. CASE lev[q] # 0
          <5>1. PICK a \in Nat, b \in Nat : a = lev[p] /\ b = lev[q] BY <1>5
          <5>2. a + 1 = b /\ b + m = h BY <5>1, <4>2, <3>5, <3>6
          <5>3. a + n = h BY <5>2, <3>1
          <5> QED BY <5>1, <5>3
        <4> QED BY <4>1, <4>2
      <3>8. f[n] = p BY <3>4, <3>5, <3>6
      <3> QED BY <3>6, <3>7, <3>8, <2>3 DEF Fallen
    <2> QED BY <2>5, <2>6
  <1>7. c \in 0..c OBVIOUS
  <1>8. Fallen(f[c], c, T, lo, lev, h) BY <1>6, <1>7
  <1>9. h + 1 <= c BY <1>2, LevelsFew
  <1>10. PICK q \in T : q = f[c] /\ lo[q] = 0 /\ (lev[q] = 0 \/ lev[q] + c = h)
    BY <1>8 DEF Fallen
  <1>11. lev[q] = 0
    <2>1. PICK a \in Nat : a = lev[q] BY <1>5
    <2>2. ~(a + c = h) BY <2>1, <1>5, <1>9
    <2> QED BY <2>1, <2>2, <1>10
  <1> QED BY <1>3, <1>10, <1>11

\* Chain: the leaves in the order of their next links.
Further(s) == IF node[Last(s)].next = 0 THEN s ELSE Append(s, node[Last(s)].next)
Runs(f, m) == f = [n \in 0..m |-> IF n = 0 THEN <<Leftmost>> ELSE Further(f[n - 1])]

\* What is known of the leaves.
Leaves(T, lo, hi, lev, top) ==
  \A q \in T : lev[q] = 0 =>
    /\ InRange(Keys(q), lo[q], hi[q])
    /\ hi[q] = top => node[q].next = 0
    /\ hi[q] # top => /\ node[q].next \in T /\ lev[node[q].next] = 0
                      /\ lo[node[q].next] = hi[q]

\* The leaves hold keys of their ranges and name the next one.
LEMMA LeavesAre ==
  ASSUME Nodes(node, root, free), NEW T, NEW v, NEW lo, NEW hi, NEW lev, NEW top, NEW h,
         Known(T, v, lo, hi, lev, top, h)
  PROVE  Leaves(T, lo, hi, lev, top)
PROOF
  <1> SUFFICES ASSUME NEW q \in T, lev[q] = 0
               PROVE  /\ InRange(Keys(q), lo[q], hi[q])
                      /\ hi[q] = top => node[q].next = 0
                      /\ hi[q] # top => /\ node[q].next \in T /\ lev[node[q].next] = 0
                                        /\ lo[node[q].next] = hi[q]
    BY DEF Leaves
  <1>1. /\ v[q] = Plain(node[q]) /\ Fits(v[q], q, T, lo, hi, lev, top) /\ q \in Pages
    BY DEF Known, Calm, Tree
  <1>2. LeafFits(v[q], lo[q], hi[q], T, lo, lev, top) BY <1>1 DEF Fits
  <1>3. node[q] \in NodeType /\ IsNode(node[q]) BY <1>1 DEF Nodes
  <1>4. v[q].keys = SubSeq(node[q].ent, 1, node[q].count) /\ v[q].next = node[q].next
    BY <1>1, <1>3, KeysAre
  <1>5. Keys(q) = v[q].keys BY <1>4, NamesAre
  <1> QED BY <1>2, <1>4, <1>5 DEF LeafFits

\* A line goes on to the next leaf.
LEMMA LineOn ==
  ASSUME NEW T, NEW lo, NEW hi, NEW lev, NEW h, NEW top, Ranges(T, lo, hi, lev, h, top),
         Leaves(T, lo, hi, lev, top), 0 \notin T,
         NEW s, Line(s, T, lo, hi, lev)
  PROVE  /\ Line(Further(s), T, lo, hi, lev)
         /\ \/ node[Last(s)].next = 0 /\ Further(s) = s
            \/ Len(Further(s)) = Len(s) + 1
PROOF
  <1>1. \A q \in T : lev[q] \in Nat /\ hi[q] \in Nat BY DEF Ranges
  <1>2. PICK n \in Nat : /\ s \in Seq(T) /\ lo[s[1]] = 0 /\ Len(s) = n + 1
                         /\ \A i \in 1..(n + 1) : s[i] \in T /\ lev[s[i]] = 0
                         /\ \A i \in 1..n : lo[s[i + 1]] = hi[s[i]]
    BY <1>1, LineHas
  <1>3. PICK q \in T : q = s[n + 1] /\ q = Last(s) /\ lev[q] = 0
    <2>1. n + 1 \in 1..(n + 1) OBVIOUS
    <2>2. Last(s) = s[n + 1] BY <1>2 DEF Last
    <2> QED BY <2>1, <2>2, <1>2
  <1>4. CASE node[q].next = 0
    <2>1. Further(s) = s BY <1>3, <1>4 DEF Further
    <2> QED BY <2>1, <1>3, <1>4
  <1>5. CASE node[q].next # 0
    <2>1. PICK x \in T : x = node[q].next /\ lev[x] = 0 /\ lo[x] = hi[q]
      BY <1>3, <1>5 DEF Leaves
    <2>2. PICK s2 : s2 = Append(s, x) OBVIOUS
    <2>3. Further(s) = s2 BY <1>3, <1>5, <2>1, <2>2 DEF Further
    <2>4. PICK m \in Nat : m = n + 1 OBVIOUS
    <2>5. /\ s2 \in Seq(T) /\ Len(s2) = m + 1 /\ s2[m + 1] = x
          /\ \A i \in 1..m : s2[i] = s[i]
      BY <1>2, <2>2, <2>4
    <2>6. \A i \in 1..(m + 1) : lev[s2[i]] = 0 /\ hi[s2[i]] \in Nat
      <3> TAKE i \in 1..(m + 1)
      <3>1. CASE i = m + 1 BY <3>1, <2>1, <2>5, <1>1
      <3>2. CASE i # m + 1
        <4>1. i \in 1..m /\ i \in 1..(n + 1) BY <3>2, <2>4
        <4>2. s2[i] = s[i] BY <4>1, <2>5
        <4> QED BY <4>1, <4>2, <1>1, <1>2
      <3> QED BY <3>1, <3>2
    <2>7. lo[s2[1]] = 0
      <3>1. 1 \in 1..m BY <2>4
      <3> QED BY <3>1, <2>5, <1>2
    <2>8. \A i \in 1..m : lo[s2[i + 1]] = hi[s2[i]]
      <3> TAKE i \in 1..m
      <3>1. s2[i] = s[i] BY <2>5
      <3>2. CASE i = m BY <3>1, <3>2, <1>3, <2>1, <2>4, <2>5
      <3>3. CASE i # m
        <4>1. i \in 1..n /\ i + 1 \in 1..m BY <3>3, <2>4
        <4>2. s2[i + 1] = s[i + 1] BY <4>1, <2>5
        <4> QED BY <4>1, <4>2, <3>1, <1>2
      <3> QED BY <3>2, <3>3
    <2>9. Line(s2, T, lo, hi, lev) BY <2>5, <2>6, <2>7, <2>8, LineIs
    <2>10. Len(s2) = Len(s) + 1 BY <2>4, <2>5, <1>2
    <2> QED BY <2>3, <2>9, <2>10
  <1> QED BY <1>4, <1>5

\* No line is longer than there are pages.
LEMMA LineShort ==
  ASSUME NEW T, T \subseteq Pages, NEW lo, NEW hi, NEW lev, NEW h, NEW top,
         Ranges(T, lo, hi, lev, h, top), NEW s, Line(s, T, lo, hi, lev),
         NEW c \in Nat, c = Cardinality(Pages)
  PROVE  Len(s) <= c
PROOF
  <1>1. PICK ks : InnerFits(ks, s, 0, hi[s[Len(s)]], 1, T, lo, hi, lev) BY DEF Line
  <1>2. \A i, j \in 1..Len(s) : i < j => s[i] # s[j] BY <1>1, Order
  <1>3. s \in Seq(T) /\ Len(s) \in Nat BY <1>1 DEF InnerFits
  <1>4. PICK n \in Nat : n = Len(s) BY <1>3
  <1>5. \A i, j \in 1..n : i # j => s[i] # s[j] BY <1>2, <1>4
  <1>6. s \in [1..n -> Pages] BY <1>3, <1>4
  <1>7. SUFFICES ASSUME ~(n <= c) PROVE FALSE BY <1>4
  <1>8. IsFiniteSet(1..n) /\ Cardinality(1..n) = n
    <2>1. 1 \in Int /\ n \in Int /\ ~(1 > n) /\ n - 1 + 1 = n BY <1>7
    <2>2. IsFiniteSet(1..n) /\ Cardinality(1..n) = IF 1 > n THEN 0 ELSE n - 1 + 1
      BY <2>1, FS_Interval, Zenon
    <2> QED BY <2>1, <2>2
  <1>9. IsFiniteSet(Pages) BY Sizes
  <1>10. Cardinality(Pages) < Cardinality(1..n) BY <1>7, <1>8
  <1>11. \E x, y \in 1..n : x # y /\ s[x] = s[y] BY <1>6, <1>8, <1>9, <1>10, FS_PigeonHole
  <1> QED BY <1>5, <1>11

\* Chain goes on to the next leaf as often as there are pages.
LEMMA ChainRuns ==
  ASSUME NEW T, NEW v, NEW lo, NEW hi, NEW lev, NEW top, NEW h, Nodes(node, root, free),
         Known(T, v, lo, hi, lev, top, h), NEW c \in Nat, c = Cardinality(Pages)
  PROVE  \E f : Runs(f, c) /\ Chain = f[c]
PROOF
  <1>1. PICK S : S = {s \in Seq(Pages) : s # << >>} OBVIOUS
  <1>2. ASSUME NEW s \in S PROVE Further(s) \in S
    <2>1. s \in Seq(Pages) /\ Len(s) \in 1..Len(s) BY <1>1
    <2>2. PICK q \in Pages : q = Last(s) BY <2>1 DEF Last
    <2>3. PICK x \in PageNo : x = node[q].next BY <2>2 DEF Nodes, NodeType
    <2>4. CASE x = 0
      <3>1. Further(s) = s BY <2>2, <2>3, <2>4 DEF Further
      <3> QED BY <3>1
    <2>5. CASE x # 0
      <3>1. Further(s) = Append(s, x) BY <2>2, <2>3, <2>5 DEF Further
      <3>2. Append(s, x) \in Seq(Pages) /\ Append(s, x) # << >> BY <2>1, <2>3, <2>5
      <3> QED BY <3>1, <3>2, <1>1
    <2> QED BY <2>4, <2>5
  <1>3. PICK F : F = [x \in Nat \X S |-> Further(x[2])] OBVIOUS
  <1>4. F \in [Nat \X S -> S]
    <2>1. \A x \in Nat \X S : Further(x[2]) \in S BY <1>2
    <2> QED BY <2>1, <1>3
  <1>5. PICK a \in S : a = <<Leftmost>>
    <2>1. Leftmost \in T /\ T \subseteq Pages BY LeftmostIs DEF Known
    <2>2. PICK q \in Pages : q = Leftmost BY <2>1
    <2>3. <<q>> \in Seq(Pages) /\ <<q>> # << >> OBVIOUS
    <2> QED BY <2>2, <2>3, <1>1
  <1>6. PICK g \in [0..c -> S] : Iterates(g, a, F, c) BY <1>4, Iterated
  <1>7. PICK k : k = [n \in 0..c |-> IF n = 0 THEN <<Leftmost>> ELSE Further(g[n - 1])] OBVIOUS
  <1>8. ASSUME NEW n \in 0..c PROVE g[n] = k[n]
    <2>1. CASE n = 0 BY <2>1, <1>5, <1>6, <1>7 DEF Iterates
    <2>2. CASE n # 0
      <3>1. n \in 1..c /\ n \in Nat /\ n - 1 \in 0..c BY <2>2
      <3>2. g[n] = F[<<n, g[n - 1]>>] /\ g[n - 1] \in S BY <3>1, <1>6 DEF Iterates
      <3>3. F[<<n, g[n - 1]>>] = Further(g[n - 1]) BY <3>1, <3>2, <1>3
      <3> QED BY <3>2, <3>3, <2>2, <1>7
    <2> QED BY <2>1, <2>2
  <1>9. g = k BY <1>7, <1>8, Zenon
  <1>10. Runs(g, c) BY <1>7, <1>9 DEF Runs
  <1>11. PICK f : f = CHOOSE x : Runs(x, c) OBVIOUS
  <1>12. Runs(f, c) BY <1>10, <1>11, Zenon
  <1>13. Chain = (CHOOSE x : Runs(x, c))[c] BY Zenon DEF Chain, Runs, Further
  <1> QED BY <1>11, <1>12, <1>13, Zenon

Ran(s, n, T, lo, hi, lev) ==
  Line(s, T, lo, hi, lev) /\ (Len(s) = n + 1 \/ node[Last(s)].next = 0)

\* The chain is a line that ends at the last leaf.
LEMMA ChainIs ==
  ASSUME NEW T, NEW v, NEW lo, NEW hi, NEW lev, NEW top, NEW h, Nodes(node, root, free),
         Known(T, v, lo, hi, lev, top, h)
  PROVE  Line(Chain, T, lo, hi, lev) /\ node[Last(Chain)].next = 0
PROOF
  <1>1. IsFiniteSet(Pages) BY Sizes
  <1>2. PICK c \in Nat : c = Cardinality(Pages) BY <1>1, FS_CardinalityType
  <1>3. PICK f : Runs(f, c) /\ Chain = f[c] BY <1>2, ChainRuns
  <1>4. \A n \in 0..c : f[n] = IF n = 0 THEN <<Leftmost>> ELSE Further(f[n - 1])
    BY <1>3, Zenon DEF Runs
  <1>5. /\ Ranges(T, lo, hi, lev, h, top) /\ Leaves(T, lo, hi, lev, top) /\ 0 \notin T
        /\ T \subseteq Pages
    BY LeavesAre DEF Known, Tree
  <1>6. PICK q \in T : q = Leftmost /\ lev[q] = 0 /\ lo[q] = 0 BY LeftmostIs
  <1>7. Line(<<q>>, T, lo, hi, lev)
    <2>1. <<q>> \in Seq(T) /\ Len(<<q>>) = 0 + 1 /\ <<q>>[1] = q OBVIOUS
    <2>2. hi[q] \in Nat BY <1>5 DEF Ranges
    <2>3. \A i \in 1..(0 + 1) : lev[<<q>>[i]] = 0 /\ hi[<<q>>[i]] \in Nat BY <2>2, <1>6
    <2>4. \A i \in 1..0 : lo[<<q>>[i + 1]] = hi[<<q>>[i]] OBVIOUS
    <2>5. lo[<<q>>[1]] = 0 BY <1>6
    <2> QED BY <2>1, <2>3, <2>4, <2>5, LineIs
  <1> DEFINE B == {n \in 0..c : ~Ran(f[n], n, T, lo, hi, lev)}
  <1>8. B = {}
    <2>1. SUFFICES ASSUME B # {} PROVE FALSE BY Zenon
    <2>2. PICK n \in B : \A x \in B : n <= x
      <3>1. B \subseteq Nat OBVIOUS
      <3> QED BY <2>1, <3>1, Least
    <2>3. n \in 0..c /\ ~Ran(f[n], n, T, lo, hi, lev) OBVIOUS
    <2>4. \A x \in 0..c : ~(n <= x) => Ran(f[x], x, T, lo, hi, lev) BY <2>2
    <2> HIDE DEF B
    <2>5. CASE n = 0
      <3>1. f[n] = <<q>> BY <2>3, <2>5, <1>4, <1>6
      <3>2. Len(<<q>>) = 0 + 1 OBVIOUS
      <3> QED BY <3>1, <3>2, <2>3, <2>5, <1>7 DEF Ran
    <2>6. CASE n # 0
      <3>1. PICK m \in 0..c : n = m + 1 /\ ~(n <= m)
        <4>1. n - 1 \in 0..c /\ n = (n - 1) + 1 /\ ~(n <= n - 1) BY <2>3, <2>6
        <4> QED BY <4>1
      <3>2. Ran(f[m], m, T, lo, hi, lev) BY <3>1, <2>4
      <3>3. n - 1 = m BY <3>1
      <3>4. f[n] = Further(f[m]) BY <3>3, <2>3, <2>6, <1>4
      <3>5. PICK s : /\ s = f[m] /\ Line(s, T, lo, hi, lev)
                     /\ Len(s) = m + 1 \/ node[Last(s)].next = 0
        BY <3>2 DEF Ran
      <3>6. PICK s2 : /\ s2 = Further(s) /\ Line(s2, T, lo, hi, lev)
                      /\ \/ node[Last(s)].next = 0 /\ s2 = s
                         \/ Len(s2) = Len(s) + 1
        BY <3>5, <1>5, LineOn
      <3>7. Len(s2) = n + 1 \/ node[Last(s2)].next = 0
        <4>1. CASE node[Last(s)].next = 0 /\ s2 = s BY <4>1
        <4>2. CASE Len(s2) = Len(s) + 1 /\ Len(s) = m + 1 BY <4>2, <3>1
        <4>3. CASE Len(s2) = Len(s) + 1 /\ node[Last(s)].next = 0
          <5>1. Further(s) = s BY <4>3 DEF Further
          <5> QED BY <5>1, <4>3, <3>6
        <4> QED BY <4>1, <4>2, <4>3, <3>5, <3>6
      <3>8. f[n] = s2 BY <3>4, <3>5, <3>6
      <3> QED BY <3>6, <3>7, <3>8, <2>3 DEF Ran
    <2> QED BY <2>5, <2>6
  <1>9. c \in 0..c OBVIOUS
  <1>10. Ran(Chain, c, T, lo, hi, lev) BY <1>3, <1>8, <1>9
  <1>11. Line(Chain, T, lo, hi, lev) BY <1>10 DEF Ran
  <1>12. Len(Chain) <= c BY <1>2, <1>5, <1>11, LineShort
  <1>13. Len(Chain) # c + 1
    <2>1. SUFFICES ASSUME Len(Chain) = c + 1 PROVE FALSE OBVIOUS
    <2> QED BY <2>1, <1>12
  <1> QED BY <1>10, <1>11, <1>13 DEF Ran

\* The chain has every leaf.
LEMMA ChainAll ==
  ASSUME NEW T, NEW v, NEW lo, NEW hi, NEW lev, NEW top, NEW h, Nodes(node, root, free),
         Known(T, v, lo, hi, lev, top, h)
  PROVE  ToSet(Chain) = {q \in T : lev[q] = 0}
PROOF
  <1>1. PICK s : s = Chain OBVIOUS
  <1>2. Line(s, T, lo, hi, lev) /\ node[Last(s)].next = 0 BY <1>1, ChainIs
  <1>3. /\ Ranges(T, lo, hi, lev, h, top) /\ Leaves(T, lo, hi, lev, top) /\ 0 \notin T
        /\ T \subseteq Pages /\ top \in Nat
        /\ \A q \in T : /\ lev[q] \in Nat /\ lo[q] \in Nat /\ hi[q] \in Nat
                        /\ lo[q] < hi[q] /\ hi[q] <= top
    BY LeavesAre DEF Known, Tree, Ranges
  <1>4. PICK n \in Nat : /\ s \in Seq(T) /\ Len(s) = n + 1
                         /\ \A i \in 1..(n + 1) : s[i] \in T /\ lev[s[i]] = 0
    BY <1>2, <1>3, LineHas
  <1>5. hi[s[n + 1]] = top
    <2>1. n + 1 \in 1..(n + 1) OBVIOUS
    <2>2. PICK q \in T : q = s[n + 1] /\ lev[q] = 0 BY <2>1, <1>4
    <2>3. node[q].next = 0 BY <2>2, <1>2, <1>4 DEF Last
    <2>4. hi[q] = top BY <2>2, <2>3, <1>3 DEF Leaves
    <2> QED BY <2>2, <2>4
  <1>6. PICK ks : InnerFits(ks, s, 0, top, 1, T, lo, hi, lev)
    BY <1>2, <1>4, <1>5 DEF Line
  <1>7. ASSUME NEW q \in T, lev[q] = 0 PROVE q \in ToSet(s)
    <2>1. PICK k \in Nat : k = lo[q] /\ 0 <= k /\ k < top /\ k < hi[q]
      <3>1. PICK a \in Nat, b \in Nat : a = lo[q] /\ b = hi[q] BY <1>3
      <3>2. a < b /\ b <= top BY <3>1, <1>3
      <3> QED BY <3>1, <3>2, <1>3
    <2>2. PICK j \in 1..Len(s) : lo[s[j]] <= k /\ k < hi[s[j]]
      BY <2>1, <1>3, <1>6, KeyChild
    <2>3. PICK p \in T : p = s[j] /\ lev[p] = 0 BY <1>4
    <2>4. lo[q] <= k BY <2>1
    <2>5. p = q BY <2>1, <2>2, <2>3, <2>4, <1>3, <1>7, OnePage
    <2>6. s \in Seq(Pages) BY <1>3, <1>4
    <2>7. s[j] \in ToSet(s) BY <2>6, StackIs
    <2> QED BY <2>3, <2>5, <2>7
  <1>8. ASSUME NEW q \in ToSet(s) PROVE q \in T /\ lev[q] = 0
    <2>1. s \in Seq(Pages) BY <1>3, <1>4
    <2>2. PICK i \in 1..Len(s) : s[i] = q BY <2>1, StackIs
    <2> QED BY <2>2, <1>4
  <1> QED BY <1>1, <1>7, <1>8

-----------------------------------------------------------------------------
(* The keys of the leaves from left to right.                              *)
\* The keys along the chain ascend.
LEMMA ChainAscends ==
  ASSUME NEW T, NEW v, NEW lo, NEW hi, NEW lev, NEW top, NEW h, Nodes(node, root, free),
         Known(T, v, lo, hi, lev, top, h),
         NEW ks, ks = FlattenSeq([i \in DOMAIN Chain |-> Keys(Chain[i])])
  PROVE  \A n \in 2..Len(ks) : ks[n - 1] < ks[n]
PROOF
  <1>1. PICK s : s = Chain OBVIOUS
  <1>2. Line(s, T, lo, hi, lev) BY <1>1, ChainIs
  <1>3. /\ Ranges(T, lo, hi, lev, h, top) /\ Leaves(T, lo, hi, lev, top)
        /\ \A q \in T : /\ lev[q] \in Nat /\ lo[q] \in Nat /\ hi[q] \in Nat
                        /\ lo[q] < hi[q]
    BY LeavesAre DEF Known, Tree, Ranges
  <1>4. PICK n \in Nat : /\ s \in Seq(T) /\ Len(s) = n + 1
                         /\ \A i \in 1..(n + 1) : s[i] \in T /\ lev[s[i]] = 0
                         /\ \A i \in 1..n : lo[s[i + 1]] = hi[s[i]]
    <2>1. \A q \in T : lev[q] \in Nat BY <1>3
    <2>2. s \in Seq(T) /\ \E n \in Nat :
             /\ Len(s) = n + 1
             /\ \A i \in 1..(n + 1) : s[i] \in T /\ lev[s[i]] = 0
             /\ \A i \in 1..n : lo[s[i + 1]] = hi[s[i]]
      BY <2>1, <1>2, LineHas
    <2> QED BY <2>2
  <1>5. DOMAIN s = 1..(n + 1) BY <1>4
  <1>6. PICK ss : ss = [i \in 1..(n + 1) |-> Keys(s[i])] OBVIOUS
  <1>7. ks = FlattenSeq(ss) BY <1>1, <1>5, <1>6
  <1>8. PICK a, b : a = [i \in 1..(n + 1) |-> lo[s[i]]] /\ b = [i \in 1..(n + 1) |-> hi[s[i]]]
    OBVIOUS
  <1>9. ASSUME NEW i \in 1..(n + 1)
        PROVE  /\ a[i] \in Nat /\ b[i] \in Nat /\ a[i] < b[i] /\ InRange(ss[i], a[i], b[i])
    <2>1. PICK q \in T : q = s[i] /\ lev[q] = 0 BY <1>4
    <2>2. ss[i] = Keys(q) /\ a[i] = lo[q] /\ b[i] = hi[q] BY <2>1, <1>6, <1>8
    <2>3. InRange(Keys(q), lo[q], hi[q]) BY <2>1, <1>3 DEF Leaves
    <2> QED BY <2>2, <2>3, <1>3
  <1>10. \A i \in 1..(n + 1) : ss[i] \in Seq(Nat) BY <1>9 DEF InRange
  <1>11. ss \in Seq(Seq(Nat)) /\ Len(ss) = n + 1
    <2>1. ss \in [1..(n + 1) -> Seq(Nat)] BY <1>6, <1>10
    <2>2. n + 1 \in Nat OBVIOUS
    <2> QED BY <2>1, <2>2
  <1>12. ASSUME NEW i \in 1..n PROVE a[i + 1] = b[i]
    <2>1. i \in 1..(n + 1) /\ i + 1 \in 1..(n + 1) OBVIOUS
    <2> QED BY <2>1, <1>4, <1>8
  <1>13. InRange(ks, a[1], b[n + 1]) BY <1>7, <1>9, <1>11, <1>12, FlatRange
  <1>14. ks \in Seq(Nat) /\ \A i, j \in 1..Len(ks) : i < j => ks[i] < ks[j]
    BY <1>13 DEF InRange, Ordered
  <1>15. Len(ks) \in Nat BY <1>14
  <1> TAKE m \in 2..Len(ks)
  <1>16. m - 1 \in 1..Len(ks) /\ m \in 1..Len(ks) /\ m - 1 < m BY <1>15
  <1> QED BY <1>14, <1>16

\* Balanced: between the operations the leaves are at one depth and are, from left
\* to right, the chain the scans follow, its keys ascending, and every page but the
\* root is at least half full, whatever propagate_insert, fix_leaf_underflow_latched
\* and fix_internal_underflow_latched have done before, as long as the insertions
\* and deletions are Apart.
THEOREM TreeBalanced ==
  ASSUME FirstTree
  PROVE  Spec /\ []Apart => []Balanced
PROOF
  <1>1. ASSUME Inv PROVE Balanced
    <2> DEFINE ks == FlattenSeq([i \in DOMAIN Chain |-> Keys(Chain[i])])
    <2>1. SUFFICES ASSUME Settled
          PROVE  /\ \A n \in DOMAIN Levels : \A p, q \in Levels[n] :
                      /\ node[p].type = node[q].type /\ node[p].type # "free"
                      /\ p # root => node[p].count >= MinOf(p)
                      /\ node[p].type = "leaf" => Levels[n] = ToSet(Chain)
                 /\ \A i \in 2..Len(ks) : ks[i - 1] < ks[i]
      BY Zenon DEF Balanced
    <2>2. PICK T, v, lo, hi, lev, top, h :
            Known(T, v, lo, hi, lev, top, h) /\ Fit(node, root, T) /\ Nodes(node, root, free)
      BY <1>1, <2>1, SettledIs
    <2>3. \A i \in 2..Len(ks) : ks[i - 1] < ks[i] BY <2>2, ChainAscends
    <2> HIDE DEF ks
    <2>4. IsFiniteSet(Pages) BY Sizes
    <2>5. PICK c \in Nat : c = Cardinality(Pages) BY <2>4, FS_CardinalityType
    <2>6. DOMAIN Levels = 0..c BY <2>5, LevelsAre
    <2>7. ASSUME NEW n \in 0..c, NEW p \in Levels[n], NEW q \in Levels[n]
          PROVE  /\ node[p].type = node[q].type /\ node[p].type # "free"
                 /\ p # root => node[p].count >= MinOf(p)
                 /\ node[p].type = "leaf" => Levels[n] = ToSet(Chain)
      <3>1. \A x \in Levels[n] : x \in T /\ lev[x] + n = h BY <2>2, <2>5, LevelIs DEF AllAt
      <3>2. /\ h \in Nat /\ \A x \in T : lev[x] \in Nat
            /\ \A x \in T : node[x].type = IF lev[x] = 0 THEN "leaf" ELSE "internal"
        BY <2>2 DEF Known, Ranges, Calm
      <3>3. PICK d \in Nat : d + n = h /\ \A x \in Levels[n] : x \in T /\ lev[x] = d
        <4>1. PICK d \in Nat : d = lev[p] /\ d + n = h BY <3>1, <3>2
        <4>2. ASSUME NEW x \in Levels[n] PROVE x \in T /\ lev[x] = d
          <5>1. PICK e \in Nat : e = lev[x] /\ e + n = h /\ x \in T BY <3>1, <3>2
          <5>2. e = d BY <4>1, <5>1
          <5> QED BY <5>1, <5>2
        <4> QED BY <4>1, <4>2
      <3>4. node[p].type = node[q].type /\ node[p].type # "free" BY <3>2, <3>3
      <3>5. p # root => node[p].count >= MinOf(p)
        <4>1. MinOf(p) = Fewest(node[p]) BY NamesAre
        <4> QED BY <4>1, <3>3, <2>2 DEF Fit
      <3>6. ASSUME node[p].type = "leaf" PROVE Levels[n] = ToSet(Chain)
        <4>1. d = 0 BY <3>2, <3>3, <3>6
        <4>2. n = h /\ n \in 0..h BY <4>1, <3>2, <3>3
        <4>3. ToSet(Chain) = {x \in T : lev[x] = 0} BY <2>2, ChainAll
        <4>4. ASSUME NEW x \in T, lev[x] = 0 PROVE x \in Levels[n]
          <5>1. lev[x] + n = h BY <4>2, <4>4, <3>2
          <5> QED BY <5>1, <4>2, <2>2, <2>5, LevelHas
        <4> QED BY <4>1, <4>3, <4>4, <3>3
      <3> QED BY <3>4, <3>5, <3>6
    <2> QED BY <2>3, <2>6, <2>7
  <1>2. Spec /\ []Apart => []Inv BY TreeWhole
  <1> QED BY <1>1, <1>2, PTL
=============================================================================
