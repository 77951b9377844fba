----------------------------- MODULE HeapProofs -----------------------------
(***************************************************************************)
(* Proofs about Heap for any threads, workload, pages, page and row size:  *)
(* what holds of each page, that Heap implements RowStore, and what a scan *)
(* returns.                                                                *)
(***************************************************************************)
EXTENDS Heap, FiniteSetTheorems, SequenceTheorems, WellFoundedInduction, TLAPS

(***************************************************************************)
(* The layout of a page and the chain of its free slots are about single   *)
(* pages, and rest on three facts: how they come through the reuse of a    *)
(* slot, the addition of one, and the deletion of a row.  A step of Heap   *)
(* does one of these to one page, whatever the other threads are doing.    *)
(***************************************************************************)
\* A page as far as its rows and slots go, with whatever successor.
IsPage(pg) ==
  pg \in [type : {"other", "heap"}, next : {pg.next}, slots : Seq(Slot),
          free_slot_head : Nat, free_space_offset : Nat]

\* RowsApart and FreeSlotsExact, for one page.
Layout(pg) ==
  LET ss == pg.slots IN
  /\ slots_end(Len(ss)) <= PageSize - pg.free_space_offset
  /\ \A i \in DOMAIN ss :
       /\ PageSize - pg.free_space_offset <= ss[i].offset
       /\ ss[i].offset + RowSize <= PageSize
  /\ \A i, j \in DOMAIN ss : i < j => ss[j].offset + RowSize <= ss[i].offset

SlotChain(pg, n, f) ==
  /\ n \in Nat /\ f \in [1..n -> FreeSlots(pg)]
  /\ FreeSlots(pg) = {f[i] : i \in 1..n}
  /\ \A i, j \in 1..n : f[i] = f[j] => i = j
  /\ pg.free_slot_head = IF n = 0 THEN 0 ELSE f[1]
  /\ \A i \in 1..n : pg.slots[f[i]].next_free = IF i = n THEN 0 ELSE f[i + 1]

Sound(pg) ==
  /\ IsPage(pg)
  /\ Layout(pg)
  /\ \E n, f : SlotChain(pg, n, f)

Inv == page = [p \in Pages |-> page[p]] /\ \A p \in Pages : Sound(page[p])

-----------------------------------------------------------------------------
\* A page is the same to both when only its successor differs.
LEMMA SameSlots ==
  ASSUME NEW pg, Sound(pg), NEW pn, IsPage(pn),
         pn.slots = pg.slots, pn.free_slot_head = pg.free_slot_head,
         pn.free_space_offset = pg.free_space_offset
  PROVE  Sound(pn)
<1>1. PICK n, f : SlotChain(pg, n, f)
  BY DEF Sound
<1>2. FreeSlots(pn) = FreeSlots(pg)
  BY DEF FreeSlots
<1>3. SlotChain(pn, n, f)
  BY <1>1, <1>2 DEF SlotChain
<1>. QED
  BY <1>3 DEF Sound, Layout

\* A page without slots.
LEMMA NoSlots ==
  ASSUME NEW pg, IsPage(pg), pg.slots = << >>, pg.free_slot_head = 0,
         pg.free_space_offset = 0
  PROVE  Sound(pg)
<1>1. FreeSlots(pg) = {}
  BY DEF FreeSlots
<1>2. SlotChain(pg, 0, << >>)
  BY <1>1 DEF SlotChain
<1>3. slots_end(Len(pg.slots)) <= PageSize - pg.free_space_offset
  <2>1. Len(pg.slots) = 0
    OBVIOUS
  <2>2. PageSize \in Nat /\ RowSize \in Nat /\ 16 + (8 + RowSize) <= PageSize
    BY HeapAssumption DEF HeaderSize, SlotSize, Need
  <2>3. slots_end(0) = 16
    BY DEF slots_end, HeaderSize, SlotSize
  <2>4. 16 <= PageSize - 0
    BY <2>2
  <2>. QED
    BY <2>1, <2>3, <2>4
<1>. QED
  BY <1>2, <1>3 DEF Sound, Layout

\* One slot changes its status and its successor, the rest stays.
Changed(ss, s, st, k) ==
  [ss EXCEPT ![s] = [ss[s] EXCEPT !.status = st, !.next_free = k]]

LEMMA OneSlot ==
  ASSUME NEW ss \in Seq(Slot), NEW s \in 1..Len(ss),
         NEW st \in {"ALIVE", "FREE"}, NEW k \in Nat,
         NEW sn, sn = Changed(ss, s, st, k)
  PROVE  /\ sn \in Seq(Slot) /\ Len(sn) = Len(ss) /\ DOMAIN sn = 1..Len(ss)
         /\ sn[s].offset = ss[s].offset /\ sn[s].status = st /\ sn[s].next_free = k
         /\ \A i \in 1..Len(ss) : i # s => sn[i] = ss[i]
<1>1. ss[s] \in Slot
  BY ElementOfSeq
<1>2. [ss[s] EXCEPT !.status = st, !.next_free = k] \in Slot
  BY <1>1 DEF Slot
<1>3. /\ sn \in Seq(Slot) /\ Len(sn) = Len(ss)
      /\ \A i \in 1..Len(ss) : sn[i] = IF i = s
           THEN [ss[s] EXCEPT !.status = st, !.next_free = k] ELSE ss[i]
  BY <1>2, ExceptSeq DEF Changed
<1>4. DOMAIN sn = 1..Len(ss)
  BY <1>3
<1>5. sn[s] = [ss[s] EXCEPT !.status = st, !.next_free = k]
  BY <1>3
<1>6. sn[s].offset = ss[s].offset /\ sn[s].status = st /\ sn[s].next_free = k
  BY <1>1, <1>5 DEF Slot
<1>. QED
  BY <1>3, <1>4, <1>6

\* The places of the rows do not change with that.
LEMMA SameLayout ==
  ASSUME NEW pg, IsPage(pg), Layout(pg), NEW pn, IsPage(pn),
         pn.free_space_offset = pg.free_space_offset,
         Len(pn.slots) = Len(pg.slots),
         \A i \in 1..Len(pg.slots) : pn.slots[i].offset = pg.slots[i].offset
  PROVE  Layout(pn)
<1>1. /\ pg.slots \in Seq(Slot) /\ DOMAIN pg.slots = 1..Len(pg.slots)
      /\ pn.slots \in Seq(Slot) /\ DOMAIN pn.slots = 1..Len(pg.slots)
  BY DEF IsPage
<1>. QED
  BY <1>1 DEF Layout

\* heap_insert takes the head of the chain.
LEMMA ReuseSound ==
  ASSUME NEW pg, Sound(pg), pg.free_slot_head # 0
  PROVE  Sound(Reuse(pg))
<1>. DEFINE ss == pg.slots
            s == pg.free_slot_head
            pn == Reuse(pg)
            sn == Changed(ss, s, "ALIVE", 0)
<1>1. PICK n, f : SlotChain(pg, n, f)
  BY DEF Sound
<1>2. /\ n \in Nat \ {0} /\ s = f[1] /\ f \in [1..n -> FreeSlots(pg)]
      /\ \A i, j \in 1..n : f[i] = f[j] => i = j
      /\ FreeSlots(pg) = {f[i] : i \in 1..n}
  BY <1>1 DEF SlotChain
<1>3. /\ IsPage(pg) /\ ss \in Seq(Slot) /\ DOMAIN ss = 1..Len(ss)
      /\ s \in 1..Len(ss) /\ \A i \in 1..n : f[i] \in 1..Len(ss)
  BY <1>2 DEF Sound, IsPage, FreeSlots
<1>4. /\ sn \in Seq(Slot) /\ Len(sn) = Len(ss) /\ DOMAIN sn = 1..Len(ss)
      /\ sn[s].offset = ss[s].offset /\ sn[s].status = "ALIVE" /\ sn[s].next_free = 0
      /\ \A i \in 1..Len(ss) : i # s => sn[i] = ss[i]
  BY <1>3, OneSlot
<1>5. ss[s].next_free \in Nat
  <2>1. ss[s] \in Slot
    BY <1>3
  <2>. QED
    BY <2>1 DEF Slot
<1>6. /\ IsPage(pn) /\ pn.slots = sn /\ pn.free_slot_head = ss[s].next_free
      /\ pn.free_space_offset = pg.free_space_offset
  <2>1. pn.slots = sn
    BY <1>3 DEF Reuse, Changed, IsPage
  <2>2. pn.free_slot_head = ss[s].next_free
    BY <1>3 DEF Reuse, IsPage
  <2>3. pn.free_space_offset = pg.free_space_offset
    BY <1>3 DEF Reuse, IsPage
  <2>4. IsPage(pn)
    BY <1>3, <1>4, <1>5 DEF Reuse, Changed, IsPage
  <2>. QED
    BY <2>1, <2>2, <2>3, <2>4
<1>. HIDE DEF sn, pn
<1>7. Layout(pn)
  BY <1>3, <1>4, <1>6, SameLayout DEF Sound
<1>8. FreeSlots(pn) = FreeSlots(pg) \ {s}
  BY <1>3, <1>4, <1>6 DEF FreeSlots
<1>. DEFINE g == [i \in 1..(n - 1) |-> f[i + 1]]
<1>9. SlotChain(pn, n - 1, g)
  <2>1. n - 1 \in Nat /\ \A i \in 1..(n - 1) : i + 1 \in 1..n /\ g[i] = f[i + 1]
    BY <1>2
  <2>2. ASSUME NEW i \in 1..(n - 1) PROVE g[i] \in FreeSlots(pg) \ {s} /\ g[i] # s
    <3>1. f[i + 1] \in FreeSlots(pg) /\ f[i + 1] # f[1]
      BY <1>2, <2>1
    <3>. QED
      BY <3>1, <2>1, <1>2
  <2>3. g \in [1..(n - 1) -> FreeSlots(pn)]
    BY <2>2, <1>8
  <2>4. FreeSlots(pg) \ {s} = {g[i] : i \in 1..(n - 1)}
    <3>1. ASSUME NEW k \in FreeSlots(pg) \ {s} PROVE \E i \in 1..(n - 1) : g[i] = k
      <4>1. PICK i \in 1..n : k = f[i]
        BY <1>2
      <4>2. i # 1 /\ i - 1 \in 1..(n - 1)
        BY <4>1, <1>2
      <4>3. g[i - 1] = k
        BY <4>1, <4>2
      <4>. QED
        BY <4>2, <4>3
    <3>. QED
      BY <3>1, <2>2
  <2>5. \A i, j \in 1..(n - 1) : g[i] = g[j] => i = j
    BY <1>2, <2>1
  <2>6. pn.free_slot_head = IF n - 1 = 0 THEN 0 ELSE g[1]
    BY <1>1, <1>2, <1>6 DEF SlotChain
  <2>7. ASSUME NEW i \in 1..(n - 1)
        PROVE  pn.slots[g[i]].next_free = IF i = n - 1 THEN 0 ELSE g[i + 1]
    <3>1. g[i] = f[i + 1] /\ i + 1 \in 1..n /\ f[i + 1] # s /\ f[i + 1] \in 1..Len(ss)
      BY <2>1, <2>2, <1>3
    <3>2. sn[f[i + 1]] = ss[f[i + 1]]
      BY <3>1, <1>4
    <3>3. ss[f[i + 1]].next_free = IF i + 1 = n THEN 0 ELSE f[i + 2]
      BY <1>1, <3>1 DEF SlotChain
    <3>4. i # n - 1 => g[i + 1] = f[i + 2]
      BY <2>1
    <3>. QED
      BY <1>2, <1>6, <3>1, <3>2, <3>3, <3>4
  <2>. HIDE DEF g
  <2>. QED
    BY <2>1, <2>3, <2>4, <2>5, <2>6, <2>7, <1>8 DEF SlotChain
<1>. QED
  BY <1>6, <1>7, <1>9 DEF Sound, pn

\* What fits into 16 bits comes through the conversion.
LEMMA U16Same == \A n \in Nat : n < 65536 => U16(n) = n
BY DEF U16

\* In a page of size P with slots up to e and rows of o bytes, where a row of R
\* bytes needs N.
LEMMA RoomArith ==
  \A P, e, o, R, N \in Nat :
    P < 65536 /\ N = R + 8 /\ 16 + N <= P /\ e <= P - o =>
      /\ e < 65536 /\ P - o \in Nat /\ P - o < 65536 /\ N < 65536
      /\ e + N <= P - o =>
           /\ P - o - R \in Nat /\ P - o - R < 65536
           /\ o + R \in Nat /\ o + R < 65536
OBVIOUS

LEMMA RoomTest ==
  \A b, e, n \in Nat : n > 0 /\ (IF b <= e THEN 0 ELSE b - e) >= n => e + n <= b
OBVIOUS

\* Where heap_insert has found room, the conversions change nothing and the slot
\* and the row fit between the directory and the rows.
LEMMA RoomFits ==
  ASSUME NEW pg, Sound(pg), HasRoom(pg)
  PROVE  /\ U16(PageSize - pg.free_space_offset - RowSize)
              = PageSize - pg.free_space_offset - RowSize
         /\ U16(pg.free_space_offset + RowSize) = pg.free_space_offset + RowSize
         /\ slots_end(Len(pg.slots)) + Need <= PageSize - pg.free_space_offset
<1>1. PICK e, o : e = slots_end(Len(pg.slots)) /\ o = pg.free_space_offset
  OBVIOUS
<1>2. Len(pg.slots) \in Nat /\ o \in Nat /\ e <= PageSize - o
  BY <1>1 DEF Sound, IsPage, Layout
<1>3. /\ PageSize \in Nat /\ RowSize \in Nat /\ Need \in Nat /\ Need = RowSize + 8
      /\ 16 + Need <= PageSize /\ PageSize < 65536 /\ Need > 0
  BY HeapAssumption DEF Need, SlotSize, HeaderSize
<1>4. e \in Nat
  BY <1>1, <1>2 DEF slots_end, HeaderSize, SlotSize
<1>5. U16(e) = e /\ U16(PageSize - o) = PageSize - o /\ U16(Need) = Need
  <2>1. e < 65536 /\ PageSize - o \in Nat /\ PageSize - o < 65536 /\ Need < 65536
    BY <1>2, <1>3, <1>4, RoomArith
  <2>. QED
    BY <2>1, <1>3, <1>4, U16Same
<1>6. (IF PageSize - o <= e THEN 0 ELSE PageSize - o - e) >= Need
  BY <1>1, <1>5 DEF HasRoom, available_space
<1>7. PageSize - o \in Nat
  BY <1>2, <1>3, <1>4
<1>8. e + Need <= PageSize - o
  BY <1>3, <1>4, <1>6, <1>7, RoomTest
<1>9. U16(PageSize - o - RowSize) = PageSize - o - RowSize /\ U16(o + RowSize) = o + RowSize
  <2>1. /\ PageSize - o - RowSize \in Nat /\ PageSize - o - RowSize < 65536
        /\ o + RowSize \in Nat /\ o + RowSize < 65536
    BY <1>2, <1>3, <1>4, <1>8, RoomArith
  <2>. QED
    BY <2>1, U16Same
<1>. QED
  BY <1>1, <1>8, <1>9

\* What heap_insert does to a page with room, without the conversions.
LEMMA ExtendPlain ==
  ASSUME NEW pg, Sound(pg), HasRoom(pg)
  PROVE  Extend(pg) =
           [pg EXCEPT
              !.slots = Append(@, [offset |-> PageSize - pg.free_space_offset - RowSize,
                                   status |-> "ALIVE", next_free |-> 0]),
              !.free_space_offset = @ + RowSize]
BY RoomFits DEF Extend

\* heap_insert adds a slot behind the directory, where it has tested for room.
LEMMA ExtendSound ==
  ASSUME NEW pg, Sound(pg), pg.free_slot_head = 0, HasRoom(pg)
  PROVE  Sound(Extend(pg))
<1>. DEFINE ss == pg.slots
            slot == [offset |-> PageSize - pg.free_space_offset - RowSize,
                     status |-> "ALIVE", next_free |-> 0]
            sn == Append(ss, slot)
            pn == Extend(pg)
            m == Len(ss)
<1>1. PICK n, f : SlotChain(pg, n, f)
  BY DEF Sound
<1>2. /\ IsPage(pg) /\ ss \in Seq(Slot) /\ DOMAIN ss = 1..m /\ m \in Nat
      /\ pg.free_space_offset \in Nat /\ \A i \in 1..m : ss[i] \in Slot
  BY DEF Sound, IsPage
<1>3. PageSize \in Nat /\ RowSize \in Nat
  BY HeapAssumption
<1>0. pn = [pg EXCEPT !.slots = sn, !.free_space_offset = @ + RowSize]
  BY ExtendPlain
<1>4. slot \in Slot
  BY <1>2, <1>3 DEF Slot
<1>. HIDE DEF slot
<1>5. /\ sn \in Seq(Slot) /\ Len(sn) = m + 1 /\ DOMAIN sn = 1..(m + 1)
      /\ sn[m + 1] = slot /\ \A i \in 1..m : sn[i] = ss[i]
  BY <1>2, <1>4
<1>6. /\ IsPage(pn) /\ pn.slots = sn /\ pn.free_slot_head = 0
      /\ pn.free_space_offset = pg.free_space_offset + RowSize
  <2>1. pn.slots = sn
    BY <1>0, <1>2 DEF IsPage
  <2>2. pn.free_slot_head = 0
    BY <1>0, <1>2 DEF IsPage
  <2>3. pn.free_space_offset = pg.free_space_offset + RowSize
    BY <1>0, <1>2 DEF IsPage
  <2>4. IsPage(pn)
    <3>1. pg.free_space_offset + RowSize \in Nat
      BY <1>2, <1>3
    <3>2. sn \in Seq(Slot)
      BY <1>5
    <3>3. IsPage(pg)
      BY <1>2
    <3>. HIDE DEF sn, pn
    <3>. QED
      BY <1>0, <3>1, <3>2, <3>3 DEF IsPage
  <2>. QED
    BY <2>1, <2>2, <2>3, <2>4
<1>. HIDE DEF sn, pn
<1>7. Layout(pn)
  <2>. DEFINE end == PageSize - pg.free_space_offset
  <2>1. slots_end(m + 1) <= end - RowSize /\ slots_end(m) <= end /\ end - RowSize <= PageSize - RowSize
    <3>1. slots_end(m) + Need <= end
      BY RoomFits
    <3>2. /\ slots_end(m) = 16 + m * 8 /\ slots_end(m + 1) = 16 + (m + 1) * 8
          /\ Need = 8 + RowSize
      BY DEF slots_end, Need, SlotSize, HeaderSize
    <3>3. end \in Int
      BY <1>2, <1>3
    <3>4. end <= PageSize
      BY <1>2, <1>3
    <3>. HIDE DEF end, m
    <3>. QED
      BY <1>2, <1>3, <3>1, <3>2, <3>3, <3>4
  <2>2. slot.offset = end - RowSize
    BY DEF slot
  <2>3. ASSUME NEW i \in 1..m
        PROVE  ss[i].offset \in Int /\ end <= ss[i].offset /\ ss[i].offset + RowSize <= PageSize
    BY <1>2 DEF Sound, Layout, Slot
  <2>4. \A i, j \in 1..m : i < j => ss[j].offset + RowSize <= ss[i].offset
    BY <1>2 DEF Sound, Layout
  <2>5. end \in Int /\ PageSize - pn.free_space_offset = end - RowSize
    BY <1>2, <1>3, <1>6
  <2>. HIDE DEF end
  <2>6. ASSUME NEW i \in 1..(m + 1)
        PROVE  end - RowSize <= sn[i].offset /\ sn[i].offset + RowSize <= PageSize
    <3>1. CASE i = m + 1
      BY <3>1, <1>3, <1>5, <2>1, <2>2, <2>5
    <3>2. CASE i \in 1..m
      <4>1. sn[i] = ss[i]
        BY <3>2, <1>5
      <4>2. ss[i].offset \in Int /\ end <= ss[i].offset /\ ss[i].offset + RowSize <= PageSize
        BY <3>2, <2>3
      <4>3. end - RowSize <= ss[i].offset
        BY <4>2, <2>5, <1>3
      <4>. QED
        BY <4>1, <4>2, <4>3
    <3>. QED
      BY <3>1, <3>2, <1>2
  <2>7. ASSUME NEW i \in 1..(m + 1), NEW j \in 1..(m + 1), i < j
        PROVE  sn[j].offset + RowSize <= sn[i].offset
    <3>1. CASE j = m + 1
      <4>1. i \in 1..m
        BY <3>1, <2>7, <1>2
      <4>2. sn[i] = ss[i] /\ sn[j] = slot
        BY <4>1, <3>1, <1>5
      <4>3. ss[i].offset \in Int /\ end <= ss[i].offset
        BY <4>1, <2>3
      <4>4. slot.offset + RowSize = end
        BY <1>3, <2>2, <2>5
      <4>. QED
        BY <4>2, <4>3, <4>4
    <3>2. CASE j \in 1..m
      BY <3>2, <2>7, <1>5, <2>4
    <3>. QED
      BY <3>1, <3>2, <1>2
  <2>. QED
    BY <1>5, <1>6, <2>1, <2>5, <2>6, <2>7 DEF Layout
<1>8. FreeSlots(pn) = FreeSlots(pg)
  BY <1>2, <1>5, <1>6 DEF FreeSlots, slot
<1>9. SlotChain(pn, n, f)
  BY <1>1, <1>2, <1>5, <1>6, <1>8 DEF SlotChain, FreeSlots
<1>. QED
  BY <1>6, <1>7, <1>9 DEF Sound, pn

\* heap_delete puts a slot with a row at the head of the chain.
LEMMA FreedSound ==
  ASSUME NEW pg, Sound(pg), NEW s \in Alive(pg)
  PROVE  Sound(Freed(pg, s))
<1>. DEFINE ss == pg.slots
            pn == Freed(pg, s)
            sn == Changed(ss, s, "FREE", pg.free_slot_head)
<1>1. PICK n, f : SlotChain(pg, n, f)
  BY DEF Sound
<1>2. /\ n \in Nat /\ f \in [1..n -> FreeSlots(pg)]
      /\ \A i, j \in 1..n : f[i] = f[j] => i = j
      /\ FreeSlots(pg) = {f[i] : i \in 1..n}
  BY <1>1 DEF SlotChain
<1>3. /\ IsPage(pg) /\ ss \in Seq(Slot) /\ DOMAIN ss = 1..Len(ss)
      /\ pg.free_slot_head \in Nat /\ s \in 1..Len(ss) /\ s \notin FreeSlots(pg)
      /\ \A i \in 1..n : f[i] \in 1..Len(ss) /\ f[i] # s
  BY <1>2 DEF Sound, IsPage, FreeSlots, Alive
<1>4. /\ sn \in Seq(Slot) /\ Len(sn) = Len(ss) /\ DOMAIN sn = 1..Len(ss)
      /\ sn[s].offset = ss[s].offset /\ sn[s].status = "FREE"
      /\ sn[s].next_free = pg.free_slot_head
      /\ \A i \in 1..Len(ss) : i # s => sn[i] = ss[i]
  <2>1. ss \in Seq(Slot) /\ s \in 1..Len(ss) /\ pg.free_slot_head \in Nat
    BY <1>3
  <2>. HIDE DEF sn
  <2>2. sn = Changed(ss, s, "FREE", pg.free_slot_head)
    BY DEF sn
  <2>. QED
    BY <2>1, <2>2, OneSlot
<1>5. /\ IsPage(pn) /\ pn.slots = sn /\ pn.free_slot_head = s
      /\ pn.free_space_offset = pg.free_space_offset
  <2>1. pn.slots = sn
    BY <1>3 DEF Freed, Changed, IsPage
  <2>2. pn.free_slot_head = s
    BY <1>3 DEF Freed, IsPage
  <2>3. pn.free_space_offset = pg.free_space_offset
    BY <1>3 DEF Freed, IsPage
  <2>4. IsPage(pn)
    <3>1. IsPage(pg) /\ s \in Nat
      BY <1>3
    <3>2. Changed(ss, s, "FREE", pg.free_slot_head) \in Seq(Slot)
      BY <1>4
    <3>. QED
      BY <3>1, <3>2 DEF Freed, Changed, IsPage
  <2>. QED
    BY <2>1, <2>2, <2>3, <2>4
<1>. HIDE DEF sn, pn
<1>6. Layout(pn)
  BY <1>3, <1>4, <1>5, SameLayout DEF Sound
<1>7. FreeSlots(pn) = FreeSlots(pg) \cup {s}
  BY <1>3, <1>4, <1>5 DEF FreeSlots
<1>. DEFINE g == [i \in 1..(n + 1) |-> IF i = 1 THEN s ELSE f[i - 1]]
<1>8. SlotChain(pn, n + 1, g)
  <2>1. /\ n + 1 \in Nat /\ 1 \in 1..(n + 1) /\ g[1] = s
        /\ \A i \in 1..(n + 1) : i # 1 => i - 1 \in 1..n /\ g[i] = f[i - 1]
        /\ \A i \in 1..n : i + 1 \in 1..(n + 1) /\ g[i + 1] = f[i]
    BY <1>2
  <2>2. g \in [1..(n + 1) -> FreeSlots(pn)]
    BY <1>2, <1>7
  <2>. HIDE DEF g
  <2>3. FreeSlots(pn) = {g[i] : i \in 1..(n + 1)}
    <3>1. ASSUME NEW k \in FreeSlots(pn) PROVE \E i \in 1..(n + 1) : g[i] = k
      <4>1. CASE k = s
        BY <4>1, <2>1
      <4>2. CASE k \in FreeSlots(pg)
        <5>1. PICK i \in 1..n : k = f[i]
          BY <4>2, <1>2
        <5>. QED
          BY <5>1, <2>1
      <4>. QED
        BY <4>1, <4>2, <1>7
    <3>. QED
      BY <3>1, <2>2
  <2>4. ASSUME NEW i \in 1..(n + 1), NEW j \in 1..(n + 1), g[i] = g[j] PROVE i = j
    <3>1. CASE i = 1 \/ j = 1
      BY <3>1, <2>1, <2>4, <1>3
    <3>2. CASE i # 1 /\ j # 1
      <4>1. i - 1 \in 1..n /\ j - 1 \in 1..n /\ f[i - 1] = f[j - 1]
        BY <3>2, <2>1, <2>4
      <4>2. i - 1 = j - 1
        BY <4>1, <1>2
      <4>. QED
        BY <4>2
    <3>. QED
      BY <3>1, <3>2
  <2>5. ASSUME NEW i \in 1..(n + 1)
        PROVE  pn.slots[g[i]].next_free = IF i = n + 1 THEN 0 ELSE g[i + 1]
    <3>1. CASE i = 1
      <4>1. pn.slots[g[i]].next_free = pg.free_slot_head
        BY <3>1, <2>1, <1>4, <1>5
      <4>2. pg.free_slot_head = IF n = 0 THEN 0 ELSE f[1]
        BY <1>1 DEF SlotChain
      <4>3. n # 0 => g[2] = f[1]
        BY <2>1, <1>2
      <4>. QED
        BY <3>1, <4>1, <4>2, <4>3, <1>2
    <3>2. CASE i # 1
      <4>1. i - 1 \in 1..n /\ g[i] = f[i - 1]
        BY <3>2, <2>1
      <4>2. pn.slots[g[i]] = ss[f[i - 1]]
        BY <4>1, <1>3, <1>4, <1>5
      <4>3. ss[f[i - 1]].next_free = IF i - 1 = n THEN 0 ELSE f[(i - 1) + 1]
        BY <4>1, <1>1 DEF SlotChain
      <4>4. i # n + 1 => g[i + 1] = f[(i - 1) + 1]
        BY <2>1
      <4>. QED
        BY <4>2, <4>3, <4>4, <1>2
    <3>. QED
      BY <3>1, <3>2
  <2>. QED
    BY <1>5, <2>1, <2>2, <2>3, <2>4, <2>5 DEF SlotChain
<1>. QED
  BY <1>5, <1>6, <1>8 DEF Sound, pn

-----------------------------------------------------------------------------
\* A step that puts a sound page in the place of one page.
LEMMA OnePage ==
  ASSUME Inv, NEW p, NEW pn, Sound(pn), page' = [page EXCEPT ![p] = pn]
  PROVE  Inv'
BY DEF Inv, Sound

LEMMA EmptySound ==
  /\ IsPage(EmptyPage) /\ Sound(EmptyPage)
  /\ IsPage(NoPage) /\ Sound(NoPage)
<1>1. << >> \in Seq(Slot)
  OBVIOUS
<1>2. /\ IsPage(EmptyPage) /\ EmptyPage.slots = << >> /\ EmptyPage.free_slot_head = 0
      /\ EmptyPage.free_space_offset = 0
  BY <1>1 DEF EmptyPage, IsPage
<1>3. /\ IsPage(NoPage) /\ NoPage.slots = << >> /\ NoPage.free_slot_head = 0
      /\ NoPage.free_space_offset = 0
  BY <1>1 DEF NoPage, EmptyPage, IsPage
<1>4. Sound(EmptyPage)
  BY <1>2, NoSlots
<1>5. Sound(NoPage)
  BY <1>3, NoSlots
<1>. QED
  BY <1>2, <1>3, <1>4, <1>5

LEMMA InitInv == Init => Inv
<1>. SUFFICES ASSUME Init PROVE Inv
  OBVIOUS
<1>1. page = [p \in Pages |-> IF p = first THEN EmptyPage ELSE NoPage]
  BY DEF Init
<1>. QED
  BY <1>1, EmptySound DEF Inv

\* The step of a thread keeps every page sound.
LEMMA StepInv ==
  ASSUME Inv, NEW t \in Threads, Step(t)
  PROVE  Inv'
<1>0. ASSUME page' = page PROVE Inv'
  BY <1>0 DEF Inv
<1>1. CASE AllocPage(t)
  <2>2. PICK p \in Unused : page' = [page EXCEPT ![p] = EmptyPage]
    BY <1>1 DEF AllocPage
  <2>. QED
    BY <2>2, OnePage, EmptySound
<1>2. CASE LinkPage(t)
  <2>. DEFINE pn == [page[last] EXCEPT !.next = th[t].pid]
  <2>1. page' = [page EXCEPT ![last] = pn]
    BY <1>2 DEF LinkPage
  <2>. QED
    <3>1. CASE last \in Pages
      <4>1. IsPage(page[last]) /\ Sound(page[last])
        BY <3>1 DEF Inv, Sound
      <4>2. /\ IsPage(pn) /\ pn.slots = page[last].slots
            /\ pn.free_slot_head = page[last].free_slot_head
            /\ pn.free_space_offset = page[last].free_space_offset
        BY <4>1 DEF IsPage
      <4>. HIDE DEF pn
      <4>3. Sound(pn)
        BY <4>1, <4>2, SameSlots
      <4>. QED
        BY <2>1, <4>3, OnePage
    <3>2. CASE last \notin Pages
      BY <2>1, <3>2, <1>0 DEF Inv
    <3>. QED
      BY <3>1, <3>2
<1>3. CASE WriteRow(t)
  <2>. DEFINE p == th[t].pid
  <2>1. CASE page' = page
    BY <2>1, <1>0
  <2>2. CASE /\ page[p].free_slot_head # 0 \/ HasRoom(page[p])
             /\ page' = [page EXCEPT ![p] = WithRow(page[p])]
    <3>1. CASE p \in Pages
      <4>1. Sound(page[p])
        BY <3>1 DEF Inv
      <4>2. Sound(WithRow(page[p]))
        BY <2>2, <4>1, ReuseSound, ExtendSound DEF WithRow
      <4>. QED
        BY <2>2, <4>2, OnePage
    <3>2. CASE p \notin Pages
      BY <2>2, <3>2, <1>0 DEF Inv
    <3>. QED
      BY <3>1, <3>2
  <2>. QED
    BY <1>3, <2>1, <2>2 DEF WriteRow
<1>4. CASE heap_delete(t)
  <2>1. PICK p \in Pages : \E s \in Alive(page[p]) :
                           page' = [page EXCEPT ![p] = Freed(page[p], s)]
    BY <1>4 DEF heap_delete
  <2>. PICK s \in Alive(page[p]) : page' = [page EXCEPT ![p] = Freed(page[p], s)]
    BY <2>1
  <2>2. Sound(Freed(page[p], s))
    BY <2>1, FreedSound DEF Inv
  <2>. QED
    BY <2>1, <2>2, OnePage
<1>5. CASE \/ CallInsert(t) \/ TailLatch(t) \/ TailUnlatch(t) \/ TakeTail(t)
           \/ TestHint(t) \/ Walk(t) \/ CallScan(t) \/ ScanPage(t)
           \/ ScanSlots(t) \/ ScanSlot(t) \/ ReturnScan(t)
           \/ HintOff(t) \/ SetLast(t) \/ HintOn(t)
  BY <1>0, <1>5 DEF CallInsert, TailLatch, TailUnlatch, TakeTail, TestHint, Walk,
       CallScan, ScanPage, ScanSlots, ScanSlot, ReturnScan, HintOff, SetLast, HintOn,
       shared
<1>. QED
  BY <1>1, <1>2, <1>3, <1>4, <1>5 DEF Step

\* Every page is sound in every reachable state of the heap (table.c as a whole).
THEOREM Invariance == Spec => []Inv
<1>1. ASSUME Inv, [Next]_vars PROVE Inv'
  <2>1. CASE Reopen \/ UNCHANGED vars
    <3>1. page' = page
      BY <2>1 DEF Reopen, vars
    <3>. QED
      BY <1>1, <3>1 DEF Inv
  <2>. QED
    BY <1>1, <2>1, StepInv DEF Next
<1>. QED
  BY <1>1, InitInv, PTL DEF Spec

\* The rows of a page lie behind its slot directory and apart from each other,
\* whatever is inserted and deleted in whichever order: heap_insert tests for
\* room under the latch it writes with.
THEOREM RowsStayApart == Spec => []RowsApart
<1>1. Inv => RowsApart
  BY DEF Inv, Sound, Layout, RowsApart
<1>. QED
  BY <1>1, Invariance, PTL

\* FreeSlotsExact for one page.
Exact(pg) ==
  LET free == FreeSlots(pg) IN
  \E n \in 0..Len(pg.slots) : \E f \in [1..n -> free] :
    /\ free = {f[i] : i \in 1..n}
    /\ \A i, j \in 1..n : f[i] = f[j] => i = j
    /\ pg.free_slot_head = IF n = 0 THEN 0 ELSE f[1]
    /\ \A i \in 1..n : pg.slots[f[i]].next_free = IF i = n THEN 0 ELSE f[i + 1]

\* The chain from free_slot_head has every deleted slot of a page once and no
\* slot with a row: heap_insert never puts a row where there is one, and
\* heap_delete loses no slot.
THEOREM FreeSlotsKept == Spec => []FreeSlotsExact
<1>1. ASSUME Inv PROVE FreeSlotsExact
  <2>. SUFFICES ASSUME NEW p \in Pages PROVE Exact(page[p])
    BY DEF FreeSlotsExact, Exact
  <2>. DEFINE pg == page[p]
              m == Len(pg.slots)
  <2>1. PICK n, f : SlotChain(pg, n, f)
    BY <1>1 DEF Inv, Sound
  <2>2. /\ pg.slots \in Seq(Slot) /\ m \in Nat /\ n \in Nat
        /\ FreeSlots(pg) \subseteq 1..m /\ f \in [1..n -> FreeSlots(pg)]
        /\ \A i, j \in 1..n : f[i] = f[j] => i = j
    BY <1>1, <2>1 DEF Inv, Sound, IsPage, FreeSlots, SlotChain
  <2>. HIDE DEF pg, m
  <2>3. /\ IsFiniteSet(1..n) /\ Cardinality(1..n) = n
        /\ IsFiniteSet(1..m) /\ Cardinality(1..m) = m
    <3>1. \A k \in Nat : IsFiniteSet(1..k) /\ Cardinality(1..k) = k
      BY FS_Interval
    <3>. QED
      BY <3>1, <2>2
  <2>4. ASSUME m < n PROVE FALSE
    <3>1. f \in [1..n -> 1..m] /\ Cardinality(1..m) < Cardinality(1..n)
      BY <2>2, <2>3, <2>4
    <3>2. \E i, j \in 1..n : i # j /\ f[i] = f[j]
      BY <2>3, <3>1, FS_PigeonHole
    <3>. QED
      BY <3>2, <2>2
  <2>5. n \in 0..m
    BY <2>2, <2>4
  <2>. QED
    BY <2>1, <2>5 DEF pg, m, Exact, SlotChain
<1>. QED
  BY <1>1, Invariance, PTL

-----------------------------------------------------------------------------
(***************************************************************************)
(* Heap implements RowStore, for any threads, workload, pages and sizes.   *)
(*                                                                         *)
(* The rows a scan can reach are those on the pages met from the first     *)
(* page on.  The invariant Linking says that all pages with slots are      *)
(* among them: header_lock orders the extensions of the chain, and a page  *)
(* gets its first row only after it is linked behind the tail.  With that  *)
(* the rows of RowStore are the rows of all pages, and each step concerns  *)
(* one page.                                                               *)
(***************************************************************************)
\* A sound page whose rows take up what free_space_offset says.
Packed(pg) == Sound(pg) /\ pg.free_space_offset = Len(pg.slots) * RowSize

AllPacked == page = [p \in Pages |-> page[p]] /\ \A p \in Pages : Packed(page[p])

\* The fields of a thread's locals are there, whatever they hold.
IsLocals(l) ==
  l \in [pc : {l.pc}, pid : {l.pid}, room : {l.room}, next : {l.next},
         slot : {l.slot}, count : {l.count}, got : {l.got}]

Calls == th = [t \in Threads |-> th[t]] /\ \A t \in Threads : IsLocals(th[t])

\* c lists the n pages of the chain.
Path(n, c) ==
  /\ n \in Nat \ {0} /\ c \in [1..n -> Pages]
  /\ \A i, j \in 1..n : c[i] = c[j] => i = j
  /\ c[1] = first
  /\ \A i \in 1..n : /\ page[c[i]].type = "heap"
                     /\ page[c[i]].next = IF i = n THEN 0 ELSE c[i + 1]

On(n, c) == {c[i] : i \in 1..n}

Joined(n, c) ==
  /\ last \in On(n, c)
  /\ \A p \in Pages \ On(n, c) : page[p].slots = << >>
  /\ \A t \in Threads :
       /\ th[t].pc \in {"walk", "row"} => th[t].pid \in On(n, c)
       /\ th[t].pc \in {"link", "set_last"} => header_lock = t
       /\ th[t].pc = "link" =>
            th[t].pid \in Pages \ On(n, c) /\ page[th[t].pid] = EmptyPage
       /\ th[t].pc = "set_last" => th[t].pid = c[n]
  /\ (\A t \in Threads : th[t].pc # "set_last") => last = c[n]

Linking == AllPacked /\ Calls /\ \E n, c : Path(n, c) /\ Joined(n, c)

-----------------------------------------------------------------------------
\* What the changes of a page do to its rows and to nothing else.
Kept(pg, pn) == pn.type = pg.type /\ pn.next = pg.next

LEMMA ReuseRows ==
  ASSUME NEW pg, Packed(pg), pg.free_slot_head # 0
  PROVE  /\ Packed(Reuse(pg)) /\ Kept(pg, Reuse(pg))
         /\ \E s \in Nat : s \notin Alive(pg) /\ Alive(Reuse(pg)) = Alive(pg) \cup {s}
<1>. DEFINE ss == pg.slots
            s == pg.free_slot_head
            pn == Reuse(pg)
            sn == Changed(ss, s, "ALIVE", 0)
<1>1. PICK n, f : SlotChain(pg, n, f)
  BY DEF Packed, Sound
<1>2. 1 \in 1..n /\ s = f[1] /\ f[1] \in FreeSlots(pg)
  BY <1>1 DEF SlotChain
<1>3. /\ IsPage(pg) /\ ss \in Seq(Slot) /\ DOMAIN ss = 1..Len(ss) /\ s \in 1..Len(ss)
      /\ ss[s].status = "FREE"
  BY <1>2 DEF Packed, Sound, IsPage, FreeSlots
<1>4. /\ Len(sn) = Len(ss) /\ DOMAIN sn = 1..Len(ss) /\ sn[s].status = "ALIVE"
      /\ \A i \in 1..Len(ss) : i # s => sn[i] = ss[i]
  <2>. HIDE DEF sn
  <2>1. sn = Changed(ss, s, "ALIVE", 0)
    BY DEF sn
  <2>. QED
    BY <2>1, <1>3, OneSlot
<1>5. pn.slots = sn
  BY <1>3 DEF Reuse, Changed, IsPage
<1>6. pn.free_space_offset = pg.free_space_offset /\ Kept(pg, pn)
  BY <1>3 DEF Reuse, IsPage, Kept
<1>7. Sound(pn)
  BY ReuseSound DEF Packed
<1>. HIDE DEF pn, sn
<1>8. s \notin Alive(pg) /\ Alive(pn) = Alive(pg) \cup {s} /\ s \in Nat
  BY <1>3, <1>4, <1>5 DEF Alive
<1>9. Packed(pn)
  BY <1>4, <1>5, <1>6, <1>7 DEF Packed
<1>. QED
  BY <1>6, <1>8, <1>9 DEF pn

LEMMA ExtendRows ==
  ASSUME NEW pg, Packed(pg), pg.free_slot_head = 0, HasRoom(pg)
  PROVE  /\ Packed(Extend(pg)) /\ Kept(pg, Extend(pg))
         /\ \E s \in Nat : s \notin Alive(pg) /\ Alive(Extend(pg)) = Alive(pg) \cup {s}
<1>. DEFINE ss == pg.slots
            slot == [offset |-> PageSize - pg.free_space_offset - RowSize,
                     status |-> "ALIVE", next_free |-> 0]
            sn == Append(ss, slot)
            pn == Extend(pg)
            m == Len(ss)
<1>1. /\ IsPage(pg) /\ ss \in Seq(Slot) /\ DOMAIN ss = 1..m /\ m \in Nat
      /\ pg.free_space_offset \in Nat /\ pg.free_space_offset = m * RowSize
  BY DEF Packed, Sound, IsPage
<1>2. PageSize \in Nat /\ RowSize \in Nat
  BY HeapAssumption
<1>3. slot \in Slot /\ slot.status = "ALIVE"
  BY <1>1, <1>2 DEF Slot
<1>0. pn = [pg EXCEPT !.slots = sn, !.free_space_offset = @ + RowSize]
  BY ExtendPlain DEF Packed
<1>4. pn.slots = sn
  BY <1>0, <1>1 DEF IsPage
<1>5. pn.free_space_offset = pg.free_space_offset + RowSize /\ Kept(pg, pn)
  <2>. HIDE DEF sn, pn
  <2>. QED
    BY <1>0, <1>1 DEF IsPage, Kept
<1>6. Sound(pn)
  BY ExtendSound DEF Packed
<1>. HIDE DEF slot
<1>7. /\ Len(sn) = m + 1 /\ DOMAIN sn = 1..(m + 1)
      /\ sn[m + 1] = slot /\ \A i \in 1..m : sn[i] = ss[i]
  BY <1>1, <1>3
<1>. HIDE DEF pn, sn
<1>8. m + 1 \notin Alive(pg) /\ Alive(pn) = Alive(pg) \cup {m + 1}
  BY <1>1, <1>3, <1>4, <1>7 DEF Alive
<1>9. Packed(pn)
  <2>1. (m + 1) * RowSize = m * RowSize + RowSize
    BY <1>1, <1>2
  <2>. QED
    BY <2>1, <1>1, <1>4, <1>5, <1>6, <1>7 DEF Packed
<1>. QED
  BY <1>1, <1>5, <1>8, <1>9 DEF pn

LEMMA FreedRows ==
  ASSUME NEW pg, Packed(pg), NEW s \in Alive(pg)
  PROVE  /\ Packed(Freed(pg, s)) /\ Kept(pg, Freed(pg, s))
         /\ Alive(Freed(pg, s)) = Alive(pg) \ {s}
<1>. DEFINE ss == pg.slots
            pn == Freed(pg, s)
            sn == Changed(ss, s, "FREE", pg.free_slot_head)
<1>1. /\ IsPage(pg) /\ ss \in Seq(Slot) /\ DOMAIN ss = 1..Len(ss) /\ s \in 1..Len(ss)
      /\ pg.free_slot_head \in Nat
  BY DEF Packed, Sound, IsPage, Alive
<1>2. /\ Len(sn) = Len(ss) /\ DOMAIN sn = 1..Len(ss) /\ sn[s].status = "FREE"
      /\ \A i \in 1..Len(ss) : i # s => sn[i] = ss[i]
  <2>. HIDE DEF sn
  <2>1. sn = Changed(ss, s, "FREE", pg.free_slot_head)
    BY DEF sn
  <2>. QED
    BY <2>1, <1>1, OneSlot
<1>3. pn.slots = sn
  BY <1>1 DEF Freed, Changed, IsPage
<1>4. pn.free_space_offset = pg.free_space_offset /\ Kept(pg, pn)
  BY <1>1 DEF Freed, IsPage, Kept
<1>5. Sound(pn)
  BY FreedSound DEF Packed
<1>. HIDE DEF pn, sn
<1>6. Alive(pn) = Alive(pg) \ {s}
  BY <1>1, <1>2, <1>3 DEF Alive
<1>7. Packed(pn)
  BY <1>2, <1>3, <1>4, <1>5 DEF Packed
<1>. QED
  BY <1>4, <1>6, <1>7 DEF pn

LEMMA WithRowRows ==
  ASSUME NEW pg, Packed(pg), pg.free_slot_head # 0 \/ HasRoom(pg)
  PROVE  /\ Packed(WithRow(pg)) /\ Kept(pg, WithRow(pg))
         /\ \E s \in Nat : s \notin Alive(pg) /\ Alive(WithRow(pg)) = Alive(pg) \cup {s}
BY ReuseRows, ExtendRows DEF WithRow

\* The slots of a page are few enough for the places of RowStore.
LEMMA SlotsFit ==
  ASSUME NEW pg, Packed(pg), NEW s \in Alive(pg)
  PROVE  s \in 1..((PageSize - HeaderSize) \div Need)
<1>. DEFINE m == Len(pg.slots)
            d == (PageSize - HeaderSize) \div Need
<1>1. /\ m \in Nat /\ s \in 1..m /\ DOMAIN pg.slots = 1..m
      /\ pg.free_space_offset = m * RowSize
  BY DEF Packed, Sound, IsPage, Alive
<1>2. PageSize \in Nat /\ RowSize \in Nat \ {0} /\ HeaderSize + Need <= PageSize
  BY HeapAssumption
<1>3. slots_end(m) <= PageSize - pg.free_space_offset
  BY <1>1 DEF Packed, Sound, Layout
<1>4. m * Need <= PageSize - HeaderSize
  <2>1. m * Need = m * 8 + m * RowSize
    <3>1. Need = 8 + RowSize
      BY DEF Need, SlotSize
    <3>2. m * (8 + RowSize) = m * 8 + m * RowSize
      <4>. HIDE DEF m
      <4>. QED
        BY <1>1, <1>2
    <3>. QED
      BY <3>1, <3>2
  <2>. QED
    BY <2>1, <1>1, <1>2, <1>3 DEF slots_end, SlotSize, HeaderSize
<1>5. Need \in Nat \ {0} /\ PageSize - HeaderSize \in Nat
  BY <1>2 DEF Need, SlotSize, HeaderSize
<1>6. d \in Int /\ PageSize - HeaderSize < (d + 1) * Need
  BY <1>5
<1>. HIDE DEF d
<1>7. m <= d
  <2>1. ASSUME d + 1 <= m PROVE FALSE
    <3>1. (d + 1) * Need <= m * Need
      BY <2>1, <1>1, <1>5, <1>6
    <3>. QED
      BY <3>1, <1>1, <1>4, <1>5, <1>6
  <2>. QED
    BY <2>1, <1>1, <1>6
<1>. QED
  BY <1>1, <1>6, <1>7 DEF d

-----------------------------------------------------------------------------
\* The path stays when pages keep their type and successor.
LEMMA PathKept ==
  ASSUME NEW n, NEW c, Path(n, c),
         \A p \in On(n, c) : Kept(page[p], page'[p])
  PROVE  Path(n, c)'
<1>1. ASSUME NEW i \in 1..n
      PROVE  /\ page'[c[i]].type = page[c[i]].type
             /\ page'[c[i]].next = page[c[i]].next
  <2>1. c[i] \in On(n, c)
    BY DEF On
  <2>. QED
    BY <2>1 DEF Kept
<1>. QED
  BY <1>1 DEF Path

\* A page the step does not change is packed afterwards.
LEMMA OnePacked ==
  ASSUME AllPacked, NEW p, NEW pn, page' = [page EXCEPT ![p] = pn], Packed(pn)
  PROVE  AllPacked'
BY DEF AllPacked

\* What one thread does to its locals.
LEMMA OwnLocals ==
  ASSUME Calls, NEW t \in Threads, NEW l, IsLocals(l), th' = [th EXCEPT ![t] = l]
  PROVE  /\ Calls' /\ th'[t] = l
         /\ \A u \in Threads \ {t} : th'[u] = th[u]
BY DEF Calls

\* A thread that moves within the call, or into it or out of it, with no page.
Unplaced == {"idle", "tail", "tail_read", "take_tail", "test_hint", "hint_off", "alloc",
             "hint_on", "scan", "slots", "scanned"}

\* The steps that change neither pages nor tail nor lock, and take the thread to
\* a place where nothing is asked of it or where its page is on the path.
LEMMA LocalStep ==
  ASSUME Linking, NEW t \in Threads, UNCHANGED <<page, last, header_lock>>,
         th[t].pc # "set_last",
         NEW l, IsLocals(l), th' = [th EXCEPT ![t] = l],
         \/ l.pc \in Unplaced
         \/ /\ l.pc \in {"walk", "row"}
            /\ \A n, c : Path(n, c) /\ Joined(n, c) => l.pid \in On(n, c)
  PROVE  Linking'
<1>1. PICK n, c : Path(n, c) /\ Joined(n, c)
  BY DEF Linking
<1>2. /\ Calls' /\ th'[t] = l /\ \A u \in Threads \ {t} : th'[u] = th[u]
  BY OwnLocals DEF Linking
<1>3. AllPacked' /\ Path(n, c)'
  BY <1>1 DEF Linking, AllPacked, Path
<1>4. l.pc \notin {"link", "set_last"}
  BY DEF Unplaced
<1>5. l.pc \in {"walk", "row"} => l.pid \in On(n, c)
  BY <1>1 DEF Unplaced
<1>6. ASSUME NEW u \in Threads
      PROVE  /\ th'[u].pc \in {"walk", "row"} => th'[u].pid \in On(n, c)
             /\ th'[u].pc \in {"link", "set_last"} => header_lock = u
             /\ th'[u].pc = "link" =>
                  th'[u].pid \in Pages \ On(n, c) /\ page[th'[u].pid] = EmptyPage
             /\ th'[u].pc = "set_last" => th'[u].pid = c[n]
  <2>1. CASE u = t
    BY <2>1, <1>2, <1>4, <1>5
  <2>2. CASE u # t
    <3>1. th'[u] = th[u]
      BY <2>2, <1>2
    <3>. QED
      BY <3>1, <1>1 DEF Joined
  <2>. QED
    BY <2>1, <2>2
<1>7. ASSUME \A u \in Threads : th'[u].pc # "set_last" PROVE last = c[n]
  <2>1. \A u \in Threads : th[u].pc # "set_last"
    BY <1>2, <1>7
  <2>. QED
    BY <2>1, <1>1 DEF Joined
<1>8. Joined(n, c)'
  BY <1>1, <1>6, <1>7 DEF Joined
<1>. QED
  BY <1>2, <1>3, <1>8 DEF Linking

\* The page the last one on the path names, and every other on the path, is on it.
LEMMA NextOn ==
  ASSUME NEW n, NEW c, Path(n, c), NEW p \in On(n, c), page[p].next # 0
  PROVE  page[p].next \in On(n, c)
<1>1. PICK i \in 1..n : p = c[i]
  BY DEF On
<1>2. i # n /\ page[p].next = c[i + 1]
  BY <1>1 DEF Path
<1>3. i + 1 \in 1..n
  BY <1>1, <1>2 DEF Path
<1>. QED
  BY <1>2, <1>3 DEF On

LEMMA FirstOn ==
  ASSUME NEW n, NEW c, Path(n, c)
  PROVE  first \in On(n, c) /\ c[n] \in On(n, c) /\ On(n, c) \subseteq Pages
BY DEF Path, On

\* Every path has page p.
OnPath(p) == \A n, c : Path(n, c) /\ Joined(n, c) => p \in On(n, c)

\* Where a thread is that is in no insertion.
Outside == {"idle", "hint_on", "scan", "slots", "scanned"}

\* Thread t goes to l, which asks for nothing, and does not leave an insertion.
Fits(t, l) ==
  /\ IsLocals(l)
  /\ l.pc \in Unplaced \/ (l.pc \in {"walk", "row"} /\ OnPath(l.pid))
  /\ th[t].pc \in Outside \/ l.pc \notin Outside
Goes(t) == \E l : Fits(t, l) /\ th' = [th EXCEPT ![t] = l]

LEMMA Moved ==
  ASSUME NEW t \in Threads, Calls, NEW x, NEW p,
         GotoPage(t, x, p) \/ (Goto(t, x) /\ p = th[t].pid),
         x \in Unplaced \/ (x \in {"walk", "row"} /\ OnPath(p)),
         th[t].pc \in Outside \/ x \notin Outside
  PROVE  Goes(t)
<1>. DEFINE l == [th[t] EXCEPT !.pc = x]
            k == [th[t] EXCEPT !.pc = x, !.pid = p]
<1>1. IsLocals(th[t])
  BY DEF Calls
<1>2. CASE Goto(t, x) /\ p = th[t].pid
  <2>1. th' = [th EXCEPT ![t] = l]
    BY <1>2 DEF Goto
  <2>2. IsLocals(l) /\ l.pc = x /\ l.pid = p
    BY <1>1, <1>2 DEF IsLocals
  <2>. HIDE DEF l
  <2>. QED
    BY <2>1, <2>2 DEF Goes, Fits
<1>3. CASE GotoPage(t, x, p)
  <2>1. th' = [th EXCEPT ![t] = k]
    BY <1>3 DEF GotoPage
  <2>2. IsLocals(k) /\ k.pc = x /\ k.pid = p
    BY <1>1 DEF IsLocals
  <2>. HIDE DEF k
  <2>. QED
    BY <2>1, <2>2 DEF Goes, Fits
<1>. QED
  BY <1>2, <1>3

\* The steps of calls that change neither pages nor tail nor lock.
Quiet(t) ==
  \/ CallInsert(t) \/ TailLatch(t) \/ TailUnlatch(t) \/ TakeTail(t)
  \/ TestHint(t) \/ Walk(t) \/ HintOff(t) \/ HintOn(t)
  \/ CallScan(t) \/ ScanPage(t) \/ ScanSlots(t) \/ ScanSlot(t) \/ ReturnScan(t)

LEMMA QuietGoes ==
  ASSUME Linking, NEW t \in Threads, Quiet(t)
  PROVE  Goes(t)
<1>0. Calls /\ IsLocals(th[t]) /\ IsLocals(Idle)
  BY DEF Linking, Calls, IsLocals, Idle
<1>1. OnPath(last) /\ OnPath(first)
  BY FirstOn DEF OnPath, Joined
<1>2. CASE CallInsert(t)
  <2>1. th[t].pc = "idle" /\ GotoPage(t, "tail", last)
    BY <1>2 DEF CallInsert, At
  <2>. QED
    BY <1>0, <2>1, Moved DEF Unplaced, Outside
<1>3. CASE CallScan(t)
  <2>1. th[t].pc = "idle" /\ GotoPage(t, "scan", first)
    BY <1>3 DEF CallScan, At
  <2>. QED
    BY <1>0, <2>1, Moved DEF Unplaced, Outside
<1>4. CASE HintOff(t)
  <2>1. GotoPage(t, "alloc", 0)
    BY <1>4 DEF HintOff
  <2>. QED
    BY <1>0, <2>1, Moved DEF Unplaced, Outside
<1>5. CASE HintOn(t)
  <2>1. th[t].pc = "hint_on" /\ Goto(t, "idle")
    BY <1>5 DEF HintOn, At
  <2>. QED
    BY <1>0, <2>1, Moved DEF Unplaced, Outside
<1>6. CASE TailLatch(t)
  <2>. DEFINE pg == page[th[t].pid]
              r == pg.free_slot_head # 0 \/ HasRoom(pg)
              m == [th[t] EXCEPT !.pc = "tail_read", !.room = r]
  <2>1. th' = [th EXCEPT ![t] = m]
    BY <1>6 DEF TailLatch
  <2>2. IsLocals(m) /\ m.pc = "tail_read"
    <3>. HIDE DEF r
    <3>. QED
      BY <1>0 DEF IsLocals
  <2>. HIDE DEF m
  <2>. QED
    BY <2>1, <2>2 DEF Goes, Fits, Unplaced, Outside
<1>7. CASE TailUnlatch(t)
  <2>. DEFINE x == IF th[t].room THEN "take_tail" ELSE "test_hint"
              m == [Idle EXCEPT !.pc = x]
  <2>1. th' = [th EXCEPT ![t] = m]
    BY <1>7 DEF TailUnlatch
  <2>2. IsLocals(m) /\ m.pc = x
    BY DEF IsLocals, Idle
  <2>. HIDE DEF m
  <2>. QED
    BY <2>1, <2>2 DEF Goes, Fits, Unplaced, Outside
<1>8. CASE ReturnScan(t)
  <2>1. th' = [th EXCEPT ![t] = Idle] /\ th[t].pc = "scanned"
    BY <1>8 DEF ReturnScan, At
  <2>2. Idle.pc = "idle"
    BY DEF Idle
  <2>. QED
    BY <1>0, <2>1, <2>2 DEF Goes, Fits, Unplaced, Outside
<1>9. CASE TakeTail(t)
  <2>1. GotoPage(t, "row", last)
    BY <1>9 DEF TakeTail
  <2>. QED
    BY <1>0, <1>1, <2>1, Moved DEF Outside
<1>10. CASE TestHint(t)
  <2>1. GotoPage(t, "walk", first) \/ Goto(t, "alloc")
    BY <1>10 DEF TestHint
  <2>. QED
    BY <1>0, <1>1, <2>1, Moved DEF Unplaced, Outside
<1>11. CASE Walk(t)
  <2>. DEFINE pid == th[t].pid
  <2>1. OnPath(pid)
    BY <1>11 DEF Walk, At, OnPath, Joined
  <2>2. CASE Goto(t, "row")
    BY <1>0, <2>1, <2>2, Moved DEF Outside
  <2>3. CASE page[pid].next # 0 /\ GotoPage(t, "walk", page[pid].next)
    <3>1. OnPath(page[pid].next)
      BY <2>1, <2>3, NextOn DEF OnPath
    <3>. QED
      BY <1>0, <2>3, <3>1, Moved DEF Outside
  <2>4. CASE Goto(t, "hint_off")
    BY <1>0, <2>4, Moved DEF Unplaced, Outside
  <2>. QED
    BY <1>11, <2>2, <2>3, <2>4 DEF Walk
<1>12. CASE ScanPage(t)
  <2>. DEFINE p == th[t].pid
              rs == RowsAt(p, Alive(page[p]))
              q == page[p].next
              x == AfterPage(q)
              m == [th[t] EXCEPT !.got = th[t].got \o rs, !.pid = q, !.pc = x]
  <2>1. th' = [th EXCEPT ![t] = m] /\ th[t].pc = "scan"
    BY <1>12 DEF ScanPage, At
  <2>2. IsLocals(m) /\ m.pc = x
    <3>. HIDE DEF rs, x, q
    <3>. QED
      BY <1>0 DEF IsLocals
  <2>3. x \in {"scan", "scanned"}
    BY DEF AfterPage
  <2>. HIDE DEF m, x
  <2>. QED
    BY <2>1, <2>2, <2>3 DEF Goes, Fits, Unplaced, Outside
<1>13. CASE ScanSlots(t)
  <2>. DEFINE pg == page[th[t].pid]
              m == [th[t] EXCEPT !.pc = "slots", !.slot = 1, !.count = Len(pg.slots),
                                 !.next = pg.next]
  <2>1. th' = [th EXCEPT ![t] = m] /\ th[t].pc = "scan"
    BY <1>13 DEF ScanSlots, At
  <2>2. IsLocals(m) /\ m.pc = "slots"
    BY <1>0 DEF IsLocals
  <2>. HIDE DEF m
  <2>. QED
    BY <2>1, <2>2 DEF Goes, Fits, Unplaced, Outside
<1>14. CASE ScanSlot(t)
  <2>. DEFINE d == th[t]
              rs == RowsAt(d.pid, {d.slot} \cap Alive(page[d.pid]))
              done == d.slot = d.count
              x == IF done THEN AfterPage(d.next) ELSE d.pc
              m == [d EXCEPT !.got = d.got \o rs,
                             !.slot = IF done THEN 0 ELSE d.slot + 1,
                             !.count = IF done THEN 0 ELSE d.count,
                             !.next = IF done THEN 0 ELSE d.next,
                             !.pid = IF done THEN d.next ELSE d.pid,
                             !.pc = x]
  <2>1. th' = [th EXCEPT ![t] = m] /\ d.pc = "slots"
    BY <1>14 DEF ScanSlot, At
  <2>2. IsLocals(m) /\ m.pc = x
    <3>. HIDE DEF rs, x
    <3>. QED
      BY <1>0 DEF IsLocals
  <2>3. x \in {"scan", "scanned", "slots"}
    BY <2>1 DEF AfterPage
  <2>. HIDE DEF m, x
  <2>. QED
    BY <2>1, <2>2, <2>3 DEF Goes, Fits, Unplaced, Outside
<1>. QED
  BY <1>2, <1>3, <1>4, <1>5, <1>6, <1>7, <1>8, <1>9, <1>10, <1>11, <1>12, <1>13, <1>14
     DEF Quiet

LEMMA QuietLinks ==
  ASSUME Linking, NEW t \in Threads, Quiet(t)
  PROVE  Linking'
<1>1. UNCHANGED <<page, last, header_lock>>
  BY DEF Quiet, CallInsert, TailLatch, TailUnlatch, TakeTail, TestHint, Walk, HintOff,
         HintOn, CallScan, ScanPage, ScanSlots, ScanSlot, ReturnScan, shared
<1>2. th[t].pc # "set_last"
  BY DEF Quiet, CallInsert, TailLatch, TailUnlatch, TakeTail, TestHint, Walk, HintOff,
         HintOn, CallScan, ScanPage, ScanSlots, ScanSlot, ReturnScan, At
<1>3. PICK l : Fits(t, l) /\ th' = [th EXCEPT ![t] = l]
  BY QuietGoes DEF Goes
<1>. QED
  BY <1>1, <1>2, <1>3, LocalStep DEF Fits, OnPath

\* The locals after Goto and GotoPage.
LEMMA Gone ==
  ASSUME NEW t \in Threads, Calls, NEW x, NEW p,
         GotoPage(t, x, p) \/ (Goto(t, x) /\ p = th[t].pid)
  PROVE  /\ Calls' /\ th'[t].pc = x /\ th'[t].pid = p
         /\ \A u \in Threads \ {t} : th'[u] = th[u]
<1>. DEFINE l == [th[t] EXCEPT !.pc = x]
            k == [th[t] EXCEPT !.pc = x, !.pid = p]
<1>1. IsLocals(th[t])
  BY DEF Calls
<1>2. CASE Goto(t, x) /\ p = th[t].pid
  <2>1. th' = [th EXCEPT ![t] = l]
    BY <1>2 DEF Goto
  <2>2. IsLocals(l) /\ l.pc = x /\ l.pid = p
    BY <1>1, <1>2 DEF IsLocals
  <2>. HIDE DEF l
  <2>. QED
    BY <2>1, <2>2, OwnLocals
<1>3. CASE GotoPage(t, x, p)
  <2>1. th' = [th EXCEPT ![t] = k]
    BY <1>3 DEF GotoPage
  <2>2. IsLocals(k) /\ k.pc = x /\ k.pid = p
    BY <1>1 DEF IsLocals
  <2>. HIDE DEF k
  <2>. QED
    BY <2>1, <2>2, OwnLocals
<1>. QED
  BY <1>2, <1>3

LEMMA EmptyPacked == /\ Packed(EmptyPage) /\ Alive(EmptyPage) = {}
                     /\ Packed(NoPage) /\ Alive(NoPage) = {}
<1>1. EmptyPage.slots = << >> /\ EmptyPage.free_space_offset = 0 /\ Len(<< >>) = 0
      /\ NoPage.slots = << >> /\ NoPage.free_space_offset = 0 /\ DOMAIN << >> = {}
  BY DEF EmptyPage, NoPage
<1>2. RowSize \in Nat
  BY HeapAssumption
<1>. QED
  BY <1>1, <1>2, EmptySound DEF Packed, Alive

\* The page taken was no heap page: it is not on the path, and nobody else
\* extends the path.
LEMMA AllocLinks ==
  ASSUME Linking, NEW t \in Threads, AllocPage(t)
  PROVE  Linking'
<1>1. PICK n, c : Path(n, c) /\ Joined(n, c)
  BY DEF Linking
<1>2. PICK p \in Unused : page' = [page EXCEPT ![p] = EmptyPage] /\ GotoPage(t, "link", p)
  BY DEF AllocPage
<1>3. header_lock = NoThread /\ header_lock' = t /\ last' = last /\ NoThread \notin Threads
  BY HeapAssumption DEF AllocPage
<1>4. p \in Pages /\ p \notin On(n, c)
  BY <1>1 DEF Unused, On, Path
<1>5. /\ Calls' /\ th'[t].pc = "link" /\ th'[t].pid = p
      /\ \A u \in Threads \ {t} : th'[u] = th[u]
  BY <1>2, Gone DEF Linking
<1>6. /\ page'[p] = EmptyPage
      /\ \A q \in Pages \ {p} : page'[q] = page[q]
  BY <1>2, <1>4 DEF Linking, AllPacked
<1>7. AllPacked'
  BY <1>2, EmptyPacked, OnePacked DEF Linking
<1>8. On(n, c) \subseteq Pages
  BY <1>1, FirstOn
<1>9. Path(n, c)'
  <2>1. \A q \in On(n, c) : Kept(page[q], page'[q])
    BY <1>4, <1>6, <1>8 DEF Kept
  <2>. QED
    BY <1>1, <2>1, PathKept
<1>10. \A u \in Threads : th[u].pc \notin {"link", "set_last"}
  BY <1>1, <1>3 DEF Joined
<1>11. last = c[n]
  BY <1>1, <1>10 DEF Joined
<1>12. \A q \in Pages \ On(n, c) : page'[q].slots = << >>
  <2>1. EmptyPage.slots = << >>
    BY DEF EmptyPage
  <2>. QED
    BY <1>1, <1>6, <2>1 DEF Joined
<1>13. \A u \in Threads \ {t} : th'[u].pc \in {"walk", "row"} => th'[u].pid \in On(n, c)
  BY <1>1, <1>5 DEF Joined
<1>14. Joined(n, c)'
  <2>1. last' \in On(n, c)
    BY <1>1, <1>3 DEF Joined
  <2>2. ASSUME NEW u \in Threads
        PROVE  /\ th'[u].pc \in {"walk", "row"} => th'[u].pid \in On(n, c)
               /\ th'[u].pc \in {"link", "set_last"} => header_lock' = u
               /\ th'[u].pc = "link" =>
                    th'[u].pid \in Pages \ On(n, c) /\ page'[th'[u].pid] = EmptyPage
               /\ th'[u].pc = "set_last" => th'[u].pid = c[n]
    <3>1. CASE u = t
      BY <3>1, <1>3, <1>4, <1>5, <1>6
    <3>2. CASE u # t
      BY <3>2, <1>5, <1>10, <1>13
    <3>. QED
      BY <3>1, <3>2
  <2>. QED
    BY <2>1, <2>2, <1>3, <1>11, <1>12 DEF Joined, On
<1>. QED
  BY <1>5, <1>7, <1>9, <1>14 DEF Linking

\* A step makes the path one page longer.
Grows(n, c) == \E d : Path(n + 1, d)' /\ \A i \in 1..n : d[i] = c[i]

\* The path gets one page longer: only t is at this, and last is its end.
LEMMA LinkLinks ==
  ASSUME Linking, NEW t \in Threads, LinkPage(t)
  PROVE  Linking' /\ \E n, c : Path(n, c) /\ Grows(n, c)
<1>1. PICK n, c : Path(n, c) /\ Joined(n, c)
  BY DEF Linking
<1>. DEFINE m == n + 1
<1>0. PICK q, d : q = th[t].pid /\ d = [i \in 1..m |-> IF i = m THEN q ELSE c[i]]
  OBVIOUS
<1>. DEFINE pn == [page[last] EXCEPT !.next = q]
<1>2. /\ th[t].pc = "link" /\ page' = [page EXCEPT ![last] = pn] /\ Goto(t, "set_last")
      /\ last' = last /\ header_lock' = header_lock
  BY <1>0 DEF LinkPage, At
<1>3. /\ header_lock = t /\ q \in Pages \ On(n, c) /\ page[q] = EmptyPage
      /\ \A u \in Threads \ {t} : th[u].pc \notin {"link", "set_last"}
  BY <1>0, <1>1, <1>2 DEF Joined
<1>4. last = c[n]
  BY <1>1, <1>2, <1>3 DEF Joined
<1>5. /\ Calls' /\ th'[t].pc = "set_last" /\ th'[t].pid = q
      /\ \A u \in Threads \ {t} : th'[u] = th[u]
  BY <1>0, <1>2, Gone DEF Linking
<1>6. /\ n \in Nat \ {0} /\ c \in [1..n -> Pages] /\ n \in 1..n
      /\ \A i, j \in 1..n : c[i] = c[j] => i = j
      /\ c[1] = first
      /\ \A i \in 1..n : /\ page[c[i]].type = "heap"
                         /\ page[c[i]].next = IF i = n THEN 0 ELSE c[i + 1]
  BY <1>1 DEF Path
<1>7. last \in Pages /\ Packed(page[last])
  BY <1>4, <1>6 DEF Linking, AllPacked
<1>8. /\ pn.type = page[last].type /\ pn.next = q /\ pn.slots = page[last].slots
      /\ pn.free_slot_head = page[last].free_slot_head
      /\ pn.free_space_offset = page[last].free_space_offset /\ IsPage(pn)
  BY <1>7 DEF Packed, Sound, IsPage
<1>. HIDE DEF pn
<1>9. Packed(pn)
  BY <1>7, <1>8, SameSlots DEF Packed
<1>10. AllPacked'
  BY <1>2, <1>9, OnePacked DEF Linking
<1>11. /\ page'[last] = pn
       /\ \A p \in Pages \ {last} : page'[p] = page[p]
  BY <1>2, <1>7 DEF Linking, AllPacked
<1>12. q # last /\ \A i \in 1..n : c[i] \in On(n, c) /\ c[i] # q
  BY <1>3, <1>4, <1>6 DEF On
<1>13. /\ d[m] = q /\ m \in 1..m /\ \A i \in 1..n : i \in 1..m /\ d[i] = c[i]
       /\ \A i \in 1..m : i # m => i \in 1..n
  BY <1>0, <1>6
<1>14. d \in [1..m -> Pages]
  BY <1>0, <1>3, <1>6
<1>15. On(m, d) = On(n, c) \cup {q}
  <2>1. On(m, d) \subseteq On(n, c) \cup {q}
    BY <1>12, <1>13 DEF On
  <2>2. On(n, c) \cup {q} \subseteq On(m, d)
    BY <1>13 DEF On
  <2>. QED
    BY <2>1, <2>2
<1>16. Path(m, d)'
  <2>1. ASSUME NEW i \in 1..m
        PROVE  /\ page'[d[i]].type = "heap"
               /\ page'[d[i]].next = IF i = m THEN 0 ELSE d[i + 1]
    <3>1. CASE i = m
      <4>1. page'[d[i]] = EmptyPage
        BY <3>1, <1>3, <1>11, <1>12, <1>13
      <4>. QED
        BY <3>1, <4>1 DEF EmptyPage
    <3>2. CASE i = n
      <4>1. page'[d[i]] = pn /\ i # m /\ i + 1 = m
        BY <3>2, <1>4, <1>6, <1>11, <1>13
      <4>. QED
        BY <3>2, <4>1, <1>4, <1>6, <1>8, <1>13
    <3>3. CASE i \in 1..n /\ i # n
      <4>1. c[i] # last /\ c[i] \in Pages /\ i + 1 \in 1..n /\ i # m
        BY <3>3, <1>4, <1>6
      <4>2. page'[d[i]] = page[c[i]] /\ d[i + 1] = c[i + 1]
        BY <3>3, <4>1, <1>11, <1>13
      <4>. QED
        BY <3>3, <4>1, <4>2, <1>6
    <3>. QED
      BY <3>1, <3>2, <3>3, <1>13
  <2>2. ASSUME NEW i \in 1..m, NEW j \in 1..m, d[i] = d[j] PROVE i = j
    BY <2>2, <1>6, <1>12, <1>13
  <2>3. d[1] = first /\ m \in Nat \ {0}
    BY <1>6, <1>13
  <2>. QED
    BY <2>1, <2>2, <2>3, <1>14 DEF Path
<1>17. Joined(m, d)'
  <2>1. last' \in On(m, d)
    BY <1>2, <1>1, <1>15 DEF Joined
  <2>2. \A p \in Pages \ On(m, d) : page'[p].slots = << >>
    <3>1. last \in On(n, c)
      BY <1>1 DEF Joined
    <3>. QED
      BY <3>1, <1>1, <1>11, <1>15 DEF Joined
  <2>3. ASSUME NEW u \in Threads
        PROVE  /\ th'[u].pc \in {"walk", "row"} => th'[u].pid \in On(m, d)
               /\ th'[u].pc \in {"link", "set_last"} => header_lock' = u
               /\ th'[u].pc = "link" =>
                    th'[u].pid \in Pages \ On(m, d) /\ page'[th'[u].pid] = EmptyPage
               /\ th'[u].pc = "set_last" => th'[u].pid = d[m]
    <3>1. CASE u = t
      BY <3>1, <1>2, <1>3, <1>5, <1>13
    <3>2. CASE u # t
      <4>1. th'[u] = th[u] /\ th[u].pc \notin {"link", "set_last"}
        BY <3>2, <1>3, <1>5
      <4>2. th[u].pc \in {"walk", "row"} => th[u].pid \in On(n, c)
        BY <1>1 DEF Joined
      <4>. QED
        BY <4>1, <4>2, <1>15
    <3>. QED
      BY <3>1, <3>2
  <2>. QED
    BY <2>1, <2>2, <2>3, <1>5 DEF Joined, On
<1>18. Grows(n, c)
  BY <1>13, <1>16 DEF Grows
<1>. HIDE DEF m
<1>. QED
  BY <1>1, <1>5, <1>10, <1>16, <1>17, <1>18 DEF Linking

LEMMA SetLastLinks ==
  ASSUME Linking, NEW t \in Threads, SetLast(t)
  PROVE  Linking'
<1>1. PICK n, c : Path(n, c) /\ Joined(n, c)
  BY DEF Linking
<1>2. /\ th[t].pc = "set_last" /\ page' = page /\ last' = th[t].pid /\ Goto(t, "row")
  BY DEF SetLast, At
<1>3. /\ th[t].pid = c[n]
      /\ \A u \in Threads \ {t} : th[u].pc \notin {"link", "set_last"}
  BY <1>1, <1>2 DEF Joined
<1>4. /\ Calls' /\ th'[t].pc = "row" /\ th'[t].pid = c[n]
      /\ \A u \in Threads \ {t} : th'[u] = th[u]
  BY <1>2, <1>3, Gone DEF Linking
<1>5. AllPacked' /\ Path(n, c)'
  BY <1>1, <1>2 DEF Linking, AllPacked, Path
<1>6. c[n] \in On(n, c)
  BY <1>1, FirstOn
<1>7. Joined(n, c)'
  <2>1. \A u \in Threads : /\ th'[u].pc \notin {"link", "set_last"}
                           /\ th'[u].pc \in {"walk", "row"} => th'[u].pid \in On(n, c)
    BY <1>1, <1>3, <1>4, <1>6 DEF Joined
  <2>. QED
    BY <2>1, <1>1, <1>2, <1>3, <1>6 DEF Joined, On
<1>. QED
  BY <1>4, <1>5, <1>7 DEF Linking

\* A page on the path changes its rows, and the thread asks for nothing after.
LEMMA RowLinks ==
  ASSUME Linking, NEW t \in Threads, th[t].pc # "set_last",
         UNCHANGED <<last, header_lock>>,
         NEW p, OnPath(p), NEW pn, Packed(pn), Kept(page[p], pn),
         page' = [page EXCEPT ![p] = pn],
         NEW l, IsLocals(l), l.pc \in Unplaced, th' = [th EXCEPT ![t] = l]
  PROVE  Linking'
<1>1. PICK n, c : Path(n, c) /\ Joined(n, c)
  BY DEF Linking
<1>2. /\ Calls' /\ th'[t] = l /\ \A u \in Threads \ {t} : th'[u] = th[u]
  BY OwnLocals DEF Linking
<1>3. p \in On(n, c) /\ On(n, c) \subseteq Pages
  BY <1>1, FirstOn DEF OnPath
<1>4. /\ page'[p] = pn
      /\ \A q \in Pages \ {p} : page'[q] = page[q]
  BY <1>3 DEF Linking, AllPacked
<1>5. AllPacked'
  BY OnePacked DEF Linking
<1>6. Path(n, c)'
  <2>1. \A q \in On(n, c) : Kept(page[q], page'[q])
    BY <1>3, <1>4 DEF Kept
  <2>. QED
    BY <1>1, <2>1, PathKept
<1>7. l.pc \notin {"link", "set_last", "walk", "row"}
  BY DEF Unplaced
<1>8. ASSUME NEW u \in Threads
      PROVE  /\ th'[u].pc \in {"walk", "row"} => th'[u].pid \in On(n, c)
             /\ th'[u].pc \in {"link", "set_last"} => header_lock = u
             /\ th'[u].pc = "link" =>
                  th'[u].pid \in Pages \ On(n, c) /\ page'[th'[u].pid] = EmptyPage
             /\ th'[u].pc = "set_last" => th'[u].pid = c[n]
  <2>1. CASE u = t
    BY <2>1, <1>2, <1>7
  <2>2. CASE u # t
    <3>1. th'[u] = th[u]
      BY <2>2, <1>2
    <3>. QED
      BY <3>1, <1>1, <1>3, <1>4 DEF Joined
  <2>. QED
    BY <2>1, <2>2
<1>9. ASSUME \A u \in Threads : th'[u].pc # "set_last" PROVE last = c[n]
  <2>1. \A u \in Threads : th[u].pc # "set_last"
    BY <1>2, <1>9
  <2>. QED
    BY <2>1, <1>1 DEF Joined
<1>10. \A q \in Pages \ On(n, c) : page'[q].slots = << >>
  BY <1>1, <1>3, <1>4 DEF Joined
<1>11. Joined(n, c)'
  <2>1. last' = last /\ header_lock' = header_lock /\ last \in On(n, c)
    BY <1>1 DEF Joined
  <2>. QED
    BY <2>1, <1>8, <1>9, <1>10 DEF Joined, On
<1>. QED
  BY <1>2, <1>5, <1>6, <1>11 DEF Linking

\* What WriteRow and heap_delete do to the one page.
PutsRow(t, p, s) ==
  /\ page' = [page EXCEPT ![p] = WithRow(page[p])]
  /\ s \in Nat /\ s \notin Alive(page[p])
  /\ Alive(page'[p]) = Alive(page[p]) \cup {s}
  /\ th[t].pc \notin Outside /\ th' = [th EXCEPT ![t] = Idle]
TakesRow(t, p, s) ==
  /\ page' = [page EXCEPT ![p] = Freed(page[p], s)]
  /\ s \in Alive(page[p])
  /\ Alive(page'[p]) = Alive(page[p]) \ {s}
  /\ th[t].pc \in Outside /\ th'[t].pc \in Outside
  /\ th' = [th EXCEPT ![t] = th'[t]]

LEMMA WriteLinks ==
  ASSUME Linking, NEW t \in Threads, WriteRow(t)
  PROVE  /\ Linking'
         /\ (page' = page /\ Goes(t)) \/ \E p \in Pages, s \in Nat : PutsRow(t, p, s)
<1>. DEFINE p == th[t].pid
<1>1. /\ th[t].pc = "row" /\ UNCHANGED <<last, header_lock>>
  BY DEF WriteRow, At
<1>2. OnPath(p)
  BY <1>1 DEF OnPath, Joined
<1>3. PICK n, c : Path(n, c) /\ Joined(n, c)
  BY DEF Linking
<1>4. p \in Pages /\ Packed(page[p])
  BY <1>2, <1>3, FirstOn DEF OnPath, Linking, AllPacked
<1>5. CASE GotoPage(t, "alloc", 0) /\ page' = page
  <2>1. Goes(t)
    BY <1>5, Moved DEF Linking, Unplaced, Outside
  <2>2. PICK l : Fits(t, l) /\ th' = [th EXCEPT ![t] = l]
    BY <2>1 DEF Goes
  <2>. QED
    BY <1>1, <1>5, <2>1, <2>2, LocalStep DEF Fits, OnPath
<1>6. CASE /\ page[p].free_slot_head # 0 \/ HasRoom(page[p])
           /\ page' = [page EXCEPT ![p] = WithRow(page[p])]
           /\ th' = [th EXCEPT ![t] = Idle]
  <2>1. PICK s \in Nat : s \notin Alive(page[p])
                         /\ Alive(WithRow(page[p])) = Alive(page[p]) \cup {s}
    BY <1>4, <1>6, WithRowRows
  <2>2. Packed(WithRow(page[p])) /\ Kept(page[p], WithRow(page[p]))
    BY <1>4, <1>6, WithRowRows
  <2>3. IsLocals(Idle) /\ Idle.pc \in Unplaced
    BY DEF IsLocals, Idle, Unplaced
  <2>4. Linking'
    BY <1>1, <1>2, <1>6, <2>2, <2>3, RowLinks
  <2>5. page'[p] = WithRow(page[p])
    BY <1>4, <1>6 DEF Linking, AllPacked
  <2>6. PutsRow(t, p, s)
    BY <1>1, <1>6, <2>1, <2>5 DEF PutsRow, Outside
  <2>. QED
    BY <1>4, <2>4, <2>6
<1>. QED
  BY <1>5, <1>6 DEF WriteRow

LEMMA DeleteLinks ==
  ASSUME Linking, NEW t \in Threads, heap_delete(t)
  PROVE  Linking' /\ \E p \in Pages, s \in Nat : TakesRow(t, p, s)
<1>1. PICK p \in Pages : \E s \in Alive(page[p]) :
                           page' = [page EXCEPT ![p] = Freed(page[p], s)]
  BY DEF heap_delete
<1>2. PICK s \in Alive(page[p]) : page' = [page EXCEPT ![p] = Freed(page[p], s)]
  BY <1>1
<1>3. /\ th[t].pc = "idle" /\ Goto(t, "hint_on") /\ UNCHANGED <<last, header_lock>>
  BY DEF heap_delete, At
<1>4. Packed(page[p])
  BY DEF Linking, AllPacked
<1>5. page[p].slots # << >> /\ s \in Nat
  BY <1>4 DEF Alive, Packed, Sound, IsPage
<1>6. OnPath(p)
  BY <1>5 DEF OnPath, Joined
<1>7. /\ Packed(Freed(page[p], s)) /\ Kept(page[p], Freed(page[p], s))
      /\ Alive(Freed(page[p], s)) = Alive(page[p]) \ {s}
  BY <1>4, FreedRows
<1>. DEFINE l == [th[t] EXCEPT !.pc = "hint_on"]
<1>8. IsLocals(l) /\ l.pc = "hint_on"
  <2>1. IsLocals(th[t])
    BY DEF Linking, Calls
  <2>. QED
    BY <2>1 DEF IsLocals
<1>9. th' = [th EXCEPT ![t] = l]
  BY <1>3 DEF Goto
<1>. HIDE DEF l
<1>10. Linking'
  BY <1>2, <1>3, <1>6, <1>7, <1>8, <1>9, RowLinks DEF Unplaced
<1>11. th'[t] = l
  BY <1>8, <1>9, OwnLocals DEF Linking
<1>12. page'[p] = Freed(page[p], s)
  BY <1>2 DEF Linking, AllPacked
<1>13. TakesRow(t, p, s)
  BY <1>2, <1>3, <1>7, <1>8, <1>9, <1>11, <1>12 DEF TakesRow, Outside
<1>. QED
  BY <1>5, <1>10, <1>13

-----------------------------------------------------------------------------
\* The pages met from first on are those of the path.
LEMMA MeetsPath ==
  ASSUME NEW n, NEW c, Path(n, c)
  PROVE  Linked = On(n, c)
<1>. DEFINE G == [k \in 0..MaxPage |-> IF k < n THEN c[k + 1] ELSE 0]
            Succ(f, k) == IF k = 0 THEN first
                          ELSE IF f[k - 1] = 0 THEN 0 ELSE page[f[k - 1]].next
<1>1. /\ MaxPage \in Nat /\ n \in Nat \ {0} /\ c \in [1..n -> 1..MaxPage]
      /\ \A i, j \in 1..n : c[i] = c[j] => i = j
      /\ c[1] = first
      /\ \A i \in 1..n : page[c[i]].next = IF i = n THEN 0 ELSE c[i + 1]
  BY HeapAssumption DEF Path, Pages
<1>2. n <= MaxPage
  <2>1. /\ IsFiniteSet(1..n) /\ Cardinality(1..n) = n
        /\ IsFiniteSet(1..MaxPage) /\ Cardinality(1..MaxPage) = MaxPage
    <3>1. \A m \in Nat : IsFiniteSet(1..m) /\ Cardinality(1..m) = m
      BY FS_Interval
    <3>. QED
      BY <3>1, <1>1
  <2>2. ASSUME MaxPage < n PROVE FALSE
    <3>1. Cardinality(1..MaxPage) < Cardinality(1..n)
      BY <2>1, <2>2
    <3>2. \E i, j \in 1..n : i # j /\ c[i] = c[j]
      BY <1>1, <2>1, <3>1, FS_PigeonHole
    <3>. QED
      BY <3>2, <1>1
  <2>. QED
    BY <2>2, <1>1
<1>3. ASSUME NEW k \in 0..MaxPage PROVE G[k] = Succ(G, k)
  <2>1. CASE k = 0
    BY <2>1, <1>1
  <2>2. CASE k # 0 /\ k - 1 < n
    <3>1. k \in 1..n /\ G[k - 1] = c[k] /\ c[k] # 0
      BY <2>2, <1>1
    <3>2. Succ(G, k) = IF k = n THEN 0 ELSE c[k + 1]
      BY <2>2, <3>1, <1>1
    <3>. QED
      BY <3>1, <3>2, <1>1
  <2>3. CASE k # 0 /\ ~(k - 1 < n)
    <3>1. G[k - 1] = 0 /\ ~(k < n)
      BY <2>3, <1>1
    <3>. QED
      BY <2>3, <3>1
  <2>. QED
    BY <2>1, <2>2, <2>3
<1>4. G = [k \in 0..MaxPage |-> Succ(G, k)]
  BY <1>3
<1>5. Chain = [k \in 0..MaxPage |-> Succ(Chain, k)]
  <2>1. PICK g : g = G
    OBVIOUS
  <2>. HIDE DEF G
  <2>2. g = [k \in 0..MaxPage |->
           IF k = 0 THEN first ELSE IF g[k - 1] = 0 THEN 0 ELSE page[g[k - 1]].next]
    BY <1>4, <2>1
  <2>3. Chain = [k \in 0..MaxPage |->
           IF k = 0 THEN first
           ELSE IF Chain[k - 1] = 0 THEN 0 ELSE page[Chain[k - 1]].next]
    BY <2>2 DEF Chain
  <2>. QED
    BY <2>3
<1>6. \A k \in 0..MaxPage : Chain[k] = Succ(Chain, k)
  <2>. DEFINE F == Chain
  <2>1. F = [k \in 0..MaxPage |-> Succ(F, k)]
    BY <1>5
  <2>. HIDE DEF F
  <2>2. \A k \in 0..MaxPage : F[k] = Succ(F, k)
    BY <2>1
  <2>. QED
    BY <2>2 DEF F
<1>. DEFINE Differ == {k \in 0..MaxPage : Chain[k] # G[k]}
<1>7. Differ = {}
  <2>. SUFFICES ASSUME Differ # {} PROVE FALSE
    OBVIOUS
  <2>. DEFINE less == OpToRel(<, Nat)
  <2>1. \A x, y \in Nat : <<y, x>> \in less <=> y < x
    BY DEF OpToRel
  <2>2. IsWellFoundedOn(less, Nat)
    BY NatLessThanWellFounded
  <2>. HIDE DEF less
  <2>3. Differ \subseteq Nat
    OBVIOUS
  <2>4. PICK k \in Differ : \A j \in Differ : ~(<<j, k>> \in less)
    BY <2>2, <2>3, WFMin
  <2>5. k \in 0..MaxPage /\ Chain[k] # G[k]
    BY <2>4
  <2>6. k # 0 => Chain[k - 1] = G[k - 1]
    <3>1. k # 0 => k - 1 \in 0..MaxPage /\ k - 1 \in Nat /\ k \in Nat /\ k - 1 < k
      BY <2>5, <1>1
    <3>2. k # 0 => k - 1 \notin Differ
      BY <2>1, <2>4, <3>1
    <3>. QED
      BY <3>1, <3>2
  <2>. HIDE DEF G
  <2>7. Succ(Chain, k) = Succ(G, k)
    BY <2>6
  <2>. QED
    BY <2>5, <2>7, <1>3, <1>6
<1>8. \A k \in 0..MaxPage : Chain[k] = IF k < n THEN c[k + 1] ELSE 0
  <2>1. \A k \in 0..MaxPage : Chain[k] = G[k]
    BY <1>7
  <2>. QED
    BY <2>1
<1>9. ASSUME NEW i \in 1..n PROVE c[i] \in Linked
  <2>1. i - 1 \in 0..MaxPage /\ i - 1 < n /\ (i - 1) + 1 = i
    BY <1>1, <1>2
  <2>2. Chain[i - 1] = c[i] /\ c[i] # 0
    BY <2>1, <1>1, <1>8
  <2>. QED
    BY <2>1, <2>2 DEF Linked
<1>10. ASSUME NEW k \in 0..MaxPage, Chain[k] # 0 PROVE Chain[k] \in On(n, c)
  <2>1. k + 1 \in 1..n /\ Chain[k] = c[k + 1]
    BY <1>1, <1>8, <1>10
  <2>. QED
    BY <2>1 DEF On
<1>. QED
  BY <1>9, <1>10 DEF Linked, On

\* Opened again, the file is walked to its last page.
LEMMA ReopenLinks ==
  ASSUME Linking, Reopen
  PROVE  Linking'
<1>1. PICK n, c : Path(n, c) /\ Joined(n, c)
  BY DEF Linking
<1>2. UNCHANGED <<page, header_lock, th>> /\ \A t \in Threads : th[t].pc = "idle"
  BY DEF Reopen
<1>3. last' = c[n]
  <2>1. last' \in On(n, c) /\ page[last'].next = 0
    BY <1>1, MeetsPath DEF Reopen
  <2>2. PICK i \in 1..n : last' = c[i]
    BY <2>1 DEF On
  <2>3. i = n
    <3>1. i # n => i + 1 \in 1..n /\ c[i + 1] # 0 /\ page[c[i]].next = c[i + 1]
      BY <1>1, HeapAssumption DEF Path, Pages
    <3>. QED
      BY <3>1, <2>1, <2>2
  <2>. QED
    BY <2>2, <2>3
<1>4. AllPacked' /\ Calls' /\ Path(n, c)'
  BY <1>1, <1>2 DEF Linking, AllPacked, Calls, Path
<1>5. Joined(n, c)'
  <2>1. last' \in On(n, c)
    BY <1>1, <1>3, FirstOn
  <2>2. \A t \in Threads : th'[t].pc = "idle"
    BY <1>2
  <2>. QED
    BY <2>1, <2>2, <1>1, <1>2, <1>3 DEF Joined, On
<1>. QED
  BY <1>4, <1>5 DEF Linking

LEMMA InitLinks == Init => Linking
<1>. SUFFICES ASSUME Init PROVE Linking
  OBVIOUS
<1>1. /\ page = [p \in Pages |-> IF p = first THEN EmptyPage ELSE NoPage]
      /\ last = first /\ th = [t \in Threads |-> Idle]
  BY DEF Init
<1>2. first \in Pages /\ first = 1
  BY HeapAssumption DEF first, Pages
<1>3. AllPacked
  BY <1>1, EmptyPacked DEF AllPacked
<1>4. Calls /\ \A t \in Threads : th[t].pc = "idle"
  <2>1. IsLocals(Idle) /\ Idle.pc = "idle"
    BY DEF IsLocals, Idle
  <2>. QED
    BY <1>1, <2>1 DEF Calls
<1>. DEFINE d == [i \in 1..1 |-> first]
<1>5. /\ page[first] = EmptyPage /\ EmptyPage.type = "heap" /\ EmptyPage.next = 0
      /\ EmptyPage.slots = << >> /\ NoPage.slots = << >>
  BY <1>1, <1>2 DEF EmptyPage, NoPage
<1>6. /\ d \in [1..1 -> Pages] /\ d[1] = first /\ 1 \in Nat \ {0}
      /\ \A i \in 1..1 : i = 1
  BY <1>2
<1>. HIDE DEF d
<1>7. Path(1, d)
  BY <1>5, <1>6 DEF Path
<1>8. Joined(1, d)
  <2>1. last \in On(1, d) /\ last = d[1]
    BY <1>1, <1>6 DEF On
  <2>2. \A p \in Pages : page[p].slots = << >>
    BY <1>1, <1>5
  <2>. QED
    BY <2>1, <2>2, <1>4 DEF Joined
<1>. QED
  BY <1>3, <1>4, <1>7, <1>8 DEF Linking

-----------------------------------------------------------------------------
\* Thread t stays in its insertion, or starts one, or has to do with none.
Stays(t) ==
  \E l : th' = [th EXCEPT ![t] = l] /\ (th[t].pc \in Outside \/ l.pc \notin Outside)

SameRows == \A p \in Pages : Alive(page'[p]) = Alive(page[p])

\* Every step keeps the path, and changes the rows of a page only as WriteRow
\* and heap_delete do.
LEMMA StepRows ==
  ASSUME Linking, NEW t \in Threads, Step(t)
  PROVE  /\ Linking'
         /\ \/ SameRows /\ Stays(t)
            \/ \E p \in Pages, s \in Nat : PutsRow(t, p, s) \/ TakesRow(t, p, s)
<1>1. ASSUME Goes(t) PROVE Stays(t)
  BY <1>1 DEF Goes, Fits, Stays
<1>2. ASSUME NEW x, Goto(t, x), x \notin Outside PROVE Stays(t)
  <2>. DEFINE l == [th[t] EXCEPT !.pc = x]
  <2>1. th' = [th EXCEPT ![t] = l]
    BY <1>2 DEF Goto
  <2>2. IsLocals(th[t])
    BY DEF Linking, Calls
  <2>3. l.pc = x
    BY <2>2 DEF IsLocals
  <2>. HIDE DEF l
  <2>. QED
    BY <1>2, <2>1, <2>3 DEF Stays
<1>3. ASSUME page' = page PROVE SameRows
  BY <1>3 DEF SameRows
<1>4. CASE Quiet(t)
  <2>1. page' = page
    BY <1>4 DEF Quiet, CallInsert, TailLatch, TailUnlatch, TakeTail, TestHint, Walk,
         HintOff, HintOn, CallScan, ScanPage, ScanSlots, ScanSlot, ReturnScan, shared
  <2>. QED
    BY <1>1, <1>3, <1>4, <2>1, QuietGoes, QuietLinks
<1>5. CASE AllocPage(t)
  <2>1. PICK p \in Unused : page' = [page EXCEPT ![p] = EmptyPage] /\ GotoPage(t, "link", p)
    BY <1>5 DEF AllocPage
  <2>2. Alive(page[p]) = {} /\ p \in Pages
    <3>1. PICK n, c : Path(n, c) /\ Joined(n, c)
      BY DEF Linking
    <3>2. p \in Pages \ On(n, c)
      BY <3>1 DEF Unused, On, Path
    <3>. QED
      BY <3>1, <3>2 DEF Joined, Alive
  <2>3. SameRows
    <3>1. page'[p] = EmptyPage /\ \A q \in Pages \ {p} : page'[q] = page[q]
      BY <2>1, <2>2 DEF Linking, AllPacked
    <3>. QED
      BY <3>1, <2>2, EmptyPacked DEF SameRows
  <2>4. Stays(t)
    <3>. DEFINE l == [th[t] EXCEPT !.pc = "link", !.pid = p]
    <3>1. th' = [th EXCEPT ![t] = l]
      BY <2>1 DEF GotoPage
    <3>2. IsLocals(th[t])
      BY DEF Linking, Calls
    <3>3. l.pc = "link"
      BY <3>2 DEF IsLocals
    <3>. HIDE DEF l
    <3>. QED
      BY <3>1, <3>3 DEF Stays, Outside
  <2>. QED
    BY <1>5, <2>3, <2>4, AllocLinks
<1>6. CASE LinkPage(t)
  <2>. DEFINE pn == [page[last] EXCEPT !.next = th[t].pid]
  <2>1. page' = [page EXCEPT ![last] = pn] /\ Goto(t, "set_last")
    BY <1>6 DEF LinkPage
  <2>2. ASSUME NEW p \in Pages PROVE Alive(page'[p]) = Alive(page[p])
    <3>1. CASE p = last
      <4>1. IsPage(page[last])
        BY <3>1 DEF Linking, AllPacked, Packed, Sound
      <4>2. pn.slots = page[last].slots
        BY <4>1 DEF IsPage
      <4>. HIDE DEF pn
      <4>3. page'[p] = pn
        BY <2>1, <3>1 DEF Linking, AllPacked
      <4>. QED
        BY <3>1, <4>2, <4>3 DEF Alive
    <3>2. CASE p # last
      <4>1. page'[p] = page[p]
        BY <2>1, <3>2 DEF Linking, AllPacked
      <4>. QED
        BY <4>1
    <3>. QED
      BY <3>1, <3>2
  <2>3. Stays(t)
    BY <1>2, <2>1 DEF Outside
  <2>. QED
    BY <1>6, <2>2, <2>3, LinkLinks DEF SameRows
<1>7. CASE SetLast(t)
  <2>1. page' = page /\ Goto(t, "row")
    BY <1>7 DEF SetLast
  <2>2. Stays(t)
    BY <1>2, <2>1 DEF Outside
  <2>. QED
    BY <1>3, <1>7, <2>1, <2>2, SetLastLinks
<1>8. CASE WriteRow(t)
  BY <1>1, <1>3, <1>8, WriteLinks
<1>9. CASE heap_delete(t)
  BY <1>9, DeleteLinks
<1>. QED
  BY <1>4, <1>5, <1>6, <1>7, <1>8, <1>9 DEF Step, Quiet

\* The pages with slots are on one path from first on, header_lock orders its
\* extensions, and last_heap_page_id is its end between them.
THEOREM PagesLinked == Spec => []Linking
<1>1. ASSUME Linking, [Next]_vars PROVE Linking'
  <2>1. CASE UNCHANGED vars
    <3>1. PICK n, c : Path(n, c) /\ Joined(n, c)
      BY <1>1 DEF Linking
    <3>2. UNCHANGED <<page, last, header_lock, th>>
      BY <2>1 DEF vars
    <3>3. Path(n, c)' /\ Joined(n, c)'
      BY <3>1, <3>2 DEF Path, Joined, On
    <3>4. AllPacked' /\ Calls'
      BY <1>1, <3>2 DEF Linking, AllPacked, Calls
    <3>. QED
      BY <3>3, <3>4 DEF Linking
  <2>. QED
    BY <1>1, <2>1, StepRows, ReopenLinks DEF Next
<1>. QED
  BY <1>1, InitLinks, PTL DEF Spec

-----------------------------------------------------------------------------
AllRows == {r \in Pages \X Nat : r[2] \in Alive(page[r[1]])}

RowPlaces == Pages \X (1..((PageSize - HeaderSize) \div Need))
Busy == {t \in Threads : th[t].pc \notin Outside}

Reached == Rows = AllRows /\ AllRows \subseteq RowPlaces /\ Inserting = Busy

\* A scan can reach every row there is.
LEMMA RowsReached == Linking => Reached
<1>. SUFFICES ASSUME Linking PROVE Reached
  OBVIOUS
<1>1. PICK n, c : Path(n, c) /\ Joined(n, c)
  BY DEF Linking
<1>2. Linked = On(n, c) /\ Linked \subseteq Pages
  BY <1>1, MeetsPath, FirstOn
<1>3. \A p \in Pages : p \notin Linked => Alive(page[p]) = {}
  BY <1>1, <1>2 DEF Joined, Alive
<1>4. \A p \in Pages : Alive(page[p]) \subseteq Nat
  BY DEF Linking, AllPacked, Packed, Sound, IsPage, Alive
<1>5. ASSUME NEW r \in Rows PROVE r \in AllRows
  <2>1. PICK p \in Linked : r \in {p} \X Alive(page[p])
    BY DEF Rows
  <2>2. p \in Pages /\ r[1] = p /\ r[2] \in Alive(page[p]) /\ r = <<r[1], r[2]>>
    BY <2>1, <1>2
  <2>. QED
    BY <2>2, <1>4 DEF AllRows
<1>6. ASSUME NEW r \in AllRows PROVE r \in Rows
  <2>1. r[1] \in Pages /\ r[2] \in Alive(page[r[1]]) /\ r = <<r[1], r[2]>>
    BY DEF AllRows
  <2>2. r[1] \in Linked
    BY <2>1, <1>3
  <2>3. r \in {r[1]} \X Alive(page[r[1]])
    BY <2>1
  <2>. QED
    BY <2>2, <2>3 DEF Rows
<1>7. ASSUME NEW r \in AllRows
      PROVE  r \in RowPlaces
  <2>1. r[1] \in Pages /\ r[2] \in Alive(page[r[1]]) /\ r = <<r[1], r[2]>>
    BY DEF AllRows
  <2>2. Packed(page[r[1]])
    BY <2>1 DEF Linking, AllPacked
  <2>3. r[2] \in 1..((PageSize - HeaderSize) \div Need)
    BY <2>1, <2>2, SlotsFit
  <2>. QED
    BY <2>1, <2>3 DEF RowPlaces
<1>8. Inserting = Busy
  BY DEF Inserting, Outside, Busy
<1>. QED
  BY <1>5, <1>6, <1>7, <1>8 DEF Reached

LEMMA StepRefines ==
  ASSUME Linking, Reached, Reached', Next
  PROVE  [Store!Next]_(Store!vars)
<1>1. /\ Rows = AllRows /\ Rows' = AllRows'
      /\ AllRows \subseteq RowPlaces /\ AllRows' \subseteq RowPlaces
      /\ Inserting = Busy /\ Inserting' = Busy'
  BY DEF Reached, RowPlaces
<1>2. ASSUME SameRows PROVE Rows' = Rows
  <2>1. AllRows' = AllRows
    BY <1>2 DEF SameRows, AllRows
  <2>. QED
    BY <2>1, <1>1
<1>3. CASE Reopen
  <2>1. SameRows /\ th' = th
    BY <1>3 DEF Reopen, SameRows
  <2>2. Inserting' = Inserting
    BY <2>1, <1>1 DEF Busy
  <2>. QED
    BY <1>2, <2>1, <2>2 DEF Store!vars
<1>4. ASSUME NEW t \in Threads, Step(t) PROVE [Store!Next]_(Store!vars)
  <2>1. CASE SameRows /\ Stays(t)
    <3>1. Busy' = Busy \/ (t \notin Busy /\ Busy' = Busy \cup {t})
      <4>1. PICK l : /\ th' = [th EXCEPT ![t] = l]
                     /\ th[t].pc \in Outside \/ l.pc \notin Outside
        BY <2>1 DEF Stays
      <4>2. th'[t] = l /\ \A u \in Threads \ {t} : th'[u] = th[u]
        BY <4>1 DEF Linking, Calls
      <4>. QED
        BY <4>1, <4>2 DEF Busy
    <3>. QED
      BY <3>1, <2>1, <1>1, <1>2 DEF Store!Next, Store!Call, Store!vars
  <2>2. CASE \E p \in Pages, s \in Nat : PutsRow(t, p, s)
    <3>1. PICK p \in Pages, s \in Nat : PutsRow(t, p, s)
      BY <2>2
    <3>2. /\ Alive(page'[p]) = Alive(page[p]) \cup {s} /\ s \notin Alive(page[p])
          /\ \A q \in Pages \ {p} : page'[q] = page[q]
      BY <3>1 DEF PutsRow, Linking, AllPacked
    <3>3. AllRows' = AllRows \cup {<<p, s>>} /\ <<p, s>> \notin AllRows
      BY <3>2 DEF AllRows
    <3>4. t \in Busy /\ Busy' = Busy \ {t}
      <4>1. /\ th[t].pc \notin Outside /\ th'[t] = Idle
            /\ \A u \in Threads \ {t} : th'[u] = th[u]
        BY <3>1 DEF PutsRow, Linking, Calls
      <4>2. Idle.pc \in Outside
        BY DEF Idle, Outside
      <4>. QED
        BY <4>1, <4>2 DEF Busy
    <3>5. <<p, s>> \in RowPlaces
      BY <1>1, <3>3
    <3>. QED
      BY <1>1, <3>3, <3>4, <3>5 DEF Store!Next, Store!Insert, RowPlaces
  <2>3. CASE \E p \in Pages, s \in Nat : TakesRow(t, p, s)
    <3>1. PICK p \in Pages, s \in Nat : TakesRow(t, p, s)
      BY <2>3
    <3>2. /\ Alive(page'[p]) = Alive(page[p]) \ {s} /\ s \in Alive(page[p])
          /\ \A q \in Pages \ {p} : page'[q] = page[q]
      BY <3>1 DEF TakesRow, Linking, AllPacked
    <3>3. AllRows' = AllRows \ {<<p, s>>} /\ <<p, s>> \in AllRows
      BY <3>2 DEF AllRows
    <3>4. t \notin Busy /\ Busy' = Busy
      <4>1. /\ th[t].pc \in Outside /\ th'[t].pc \in Outside
            /\ \A u \in Threads \ {t} : th'[u] = th[u]
        BY <3>1 DEF TakesRow, Linking, Calls
      <4>. QED
        BY <4>1 DEF Busy
    <3>5. <<p, s>> \in RowPlaces
      BY <1>1, <3>3
    <3>. QED
      BY <1>1, <3>3, <3>4, <3>5 DEF Store!Next, Store!Delete, RowPlaces
  <2>. QED
    BY <1>4, <2>1, <2>2, <2>3, StepRows
<1>. QED
  BY <1>3, <1>4 DEF Next

\* Heap implements RowStore: an insertion that returns has put its row into a
\* place that had none, where every scan finds it until heap_delete takes it away,
\* and no two extensions of the chain lose a page (heap_insert, find_heap_page).
THEOREM Refinement == Spec => ImplementsRowStore
<1>1. ASSUME Init PROVE Store!Init
  <2>1. Linking
    BY <1>1, InitLinks
  <2>2. \A p \in Pages : Alive(page[p]) = {}
    BY <1>1, EmptyPacked DEF Init
  <2>3. Rows = {}
    BY <2>1, <2>2, RowsReached DEF Reached, AllRows
  <2>4. \A t \in Threads : th[t].pc \in Outside
    BY <1>1 DEF Init, Idle, Outside
  <2>5. Inserting = {}
    BY <2>1, <2>4, RowsReached DEF Reached, Busy
  <2>. QED
    BY <2>3, <2>5 DEF Store!Init
<1>2. ASSUME Linking, Reached, Reached', [Next]_vars PROVE [Store!Next]_(Store!vars)
  <2>1. CASE UNCHANGED vars
    <3>1. Rows' = Rows /\ Inserting' = Inserting
      BY <2>1 DEF vars, Rows, Linked, Chain, Alive, Inserting
    <3>. QED
      BY <3>1 DEF Store!vars
  <2>. QED
    BY <1>2, <2>1, StepRefines
<1>. QED
  BY <1>1, <1>2, PagesLinked, RowsReached, PTL DEF Spec, ImplementsRowStore, Store!Spec

-----------------------------------------------------------------------------
(***************************************************************************)
(* What a scan of the heap returns, and the types of Heap, for any threads,*)
(* workload, pages and sizes.                                              *)
(*                                                                         *)
(* The scan follows the path of Linking, which only grows at its end.  The *)
(* invariant Scans says where on the path a scan is and that every row it  *)
(* must show is among those it has copied or lies before it.               *)
(***************************************************************************)
\* The numbers of S up to s: as many as the rank of s.
Upto(S, s) == {r \in S : r <= s}

LEMMA RankIs ==
  ASSUME NEW S, S \subseteq Nat, IsFiniteSet(S)
  PROVE  /\ \A s \in S : Cardinality(Upto(S, s)) \in 1..Cardinality(S)
         /\ \A s, r \in S : Cardinality(Upto(S, s)) = Cardinality(Upto(S, r)) => s = r
<1>1. ASSUME NEW s \in S
      PROVE  IsFiniteSet(Upto(S, s)) /\ Cardinality(Upto(S, s)) \in 1..Cardinality(S)
  <2>1. Upto(S, s) \in SUBSET S /\ {s} \in SUBSET Upto(S, s)
    BY DEF Upto
  <2>2. IsFiniteSet(Upto(S, s)) /\ Cardinality(Upto(S, s)) <= Cardinality(S)
    BY <2>1, FS_Subset
  <2>3. Cardinality({s}) <= Cardinality(Upto(S, s)) /\ Cardinality({s}) = 1
    BY <2>1, <2>2, FS_Subset, FS_Singleton
  <2>4. Cardinality(Upto(S, s)) \in Nat /\ Cardinality(S) \in Nat
    BY <2>2, FS_CardinalityType
  <2>. QED
    BY <2>2, <2>3, <2>4
<1>2. ASSUME NEW s \in S, NEW r \in S, s < r
      PROVE  Cardinality(Upto(S, s)) # Cardinality(Upto(S, r))
  <2>1. s \in Nat /\ r \in Nat /\ \A q \in S : q \in Nat /\ (q <= s => q <= r)
    BY <1>2
  <2>2. Upto(S, s) \in SUBSET Upto(S, r)
    BY <2>1 DEF Upto
  <2>3. r \in Upto(S, r) /\ r \notin Upto(S, s)
    BY <1>2, <2>1 DEF Upto
  <2>. QED
    BY <2>2, <2>3, <1>1, FS_Subset
<1>3. ASSUME NEW s \in S, NEW r \in S, Cardinality(Upto(S, s)) = Cardinality(Upto(S, r))
      PROVE  s = r
  <2>1. ~(s < r) /\ ~(r < s)
    BY <1>2, <1>3
  <2>. QED
    BY <2>1
<1>. QED
  BY <1>1, <1>3

\* Every rank from 1 on is the rank of one number.
LEMMA NthIs ==
  ASSUME NEW S, S \subseteq Nat, IsFiniteSet(S), NEW i \in 1..Cardinality(S)
  PROVE  Nth(S, i) \in S /\ Cardinality(Upto(S, Nth(S, i))) = i
<1>1. PICK n, f : n = Cardinality(S) /\ f = [s \in S |-> Cardinality(Upto(S, s))]
  OBVIOUS
<1>2. n \in Nat /\ IsFiniteSet(1..n) /\ Cardinality(1..n) = n /\ i \in 1..n
  <2>1. n \in Nat
    BY <1>1, FS_CardinalityType
  <2>. QED
    BY <1>1, <2>1, FS_Interval
<1>3. f \in [S -> 1..n] /\ \A s, r \in S : f[s] = f[r] => s = r
  BY <1>1, RankIs
<1>4. f \in Injection(S, 1..n)
  BY <1>3 DEF Injection, IsInjective
<1>5. f \in Surjection(S, 1..n)
  BY <1>1, <1>2, <1>4, FS_Injection
<1>6. PICK s \in S : f[s] = i
  BY <1>2, <1>5 DEF Surjection
<1>7. Cardinality(Upto(S, s)) = i
  BY <1>1, <1>6
<1>. QED
  BY <1>7 DEF Nth, Upto

\* The rows of a page that a scan copies: each of the slots once.
Lists(rs, p, S) ==
  /\ rs \in Seq({p} \X S) /\ IsInjective(rs)
  /\ \A r : r \in ToSet(rs) <=> \E s \in S : r = <<p, s>>

LEMMA RowsAtIs ==
  ASSUME NEW p, NEW S, S \subseteq Nat, IsFiniteSet(S)
  PROVE  Lists(RowsAt(p, S), p, S)
<1>1. PICK n, rs : n = Cardinality(S) /\ rs = RowsAt(p, S)
  OBVIOUS
<1>2. n \in Nat
  BY <1>1, FS_CardinalityType
<1>3. \A i \in 1..n : Nth(S, i) \in S /\ Cardinality(Upto(S, Nth(S, i))) = i
  BY <1>1, NthIs
<1>4. rs = [i \in 1..n |-> <<p, Nth(S, i)>>]
  BY <1>1 DEF RowsAt
<1>5. rs \in Seq({p} \X S)
  <2>1. rs \in [1..n -> {p} \X S]
    BY <1>3, <1>4
  <2>. QED
    BY <1>2, <2>1
<1>6. ASSUME NEW s \in S PROVE \E i \in 1..n : Nth(S, i) = s
  <2>1. PICK i : i = Cardinality(Upto(S, s))
    OBVIOUS
  <2>2. i \in 1..n
    BY <1>1, <2>1, RankIs
  <2>3. Nth(S, i) = s
    BY <1>3, <2>1, <2>2, RankIs
  <2>. QED
    BY <2>2, <2>3
<1>7. ASSUME NEW r PROVE r \in ToSet(rs) <=> \E s \in S : r = <<p, s>>
  BY <1>3, <1>4, <1>6 DEF ToSet
<1>8. ASSUME NEW i \in 1..n, NEW j \in 1..n, rs[i] = rs[j] PROVE i = j
  <2>1. Nth(S, i) = Nth(S, j)
    BY <1>4, <1>8
  <2>. QED
    BY <2>1, <1>3
<1>9. IsInjective(rs)
  BY <1>4, <1>8 DEF IsInjective
<1>. QED
  BY <1>1, <1>5, <1>7, <1>9 DEF Lists

\* Rows appended to others.
LEMMA Appended ==
  ASSUME NEW T, NEW s \in Seq(T), NEW u \in Seq(T), IsInjective(s), IsInjective(u),
         ToSet(s) \cap ToSet(u) = {}
  PROVE  /\ s \o u \in Seq(T) /\ ToSet(s \o u) = ToSet(s) \cup ToSet(u)
         /\ IsInjective(s \o u)
<1>. DEFINE m == Len(s)
            k == Len(u)
            su == s \o u
<1>1. m \in Nat /\ k \in Nat /\ DOMAIN s = 1..m /\ DOMAIN u = 1..k
  OBVIOUS
<1>2. /\ su \in Seq(T) /\ DOMAIN su = 1..(m + k)
      /\ \A i \in 1..m : su[i] = s[i]
      /\ \A i \in 1..k : su[m + i] = u[i]
  OBVIOUS
<1>. HIDE DEF m, k, su
<1>3. \A i \in 1..(m + k) : i \in 1..m \/ (i - m \in 1..k /\ i = m + (i - m))
  BY <1>1
<1>4. \A i \in 1..(m + k) : (i \in 1..m /\ su[i] = s[i] /\ su[i] \in ToSet(s))
        \/ (i - m \in 1..k /\ su[i] = u[i - m] /\ su[i] \in ToSet(u))
  BY <1>1, <1>2, <1>3 DEF ToSet
<1>5. ToSet(su) = ToSet(s) \cup ToSet(u)
  <2>1. ToSet(su) \subseteq ToSet(s) \cup ToSet(u)
    BY <1>2, <1>4 DEF ToSet
  <2>2. ASSUME NEW x \in ToSet(s) PROVE x \in ToSet(su)
    <3>1. PICK i \in 1..m : x = s[i]
      BY <1>1 DEF ToSet
    <3>2. i \in 1..(m + k)
      BY <1>1
    <3>. QED
      BY <3>1, <3>2, <1>2 DEF ToSet
  <2>3. ASSUME NEW x \in ToSet(u) PROVE x \in ToSet(su)
    <3>1. PICK i \in 1..k : x = u[i]
      BY <1>1 DEF ToSet
    <3>2. m + i \in 1..(m + k)
      BY <1>1
    <3>. QED
      BY <3>1, <3>2, <1>2 DEF ToSet
  <2>. QED
    BY <2>1, <2>2, <2>3
<1>6. ASSUME NEW i \in 1..(m + k), NEW j \in 1..(m + k), su[i] = su[j] PROVE i = j
  <2>1. CASE i \in 1..m /\ j \in 1..m
    <3>1. su[i] = s[i] /\ su[j] = s[j]
      BY <2>1, <1>2
    <3>. QED
      BY <3>1, <2>1, <1>1, <1>6 DEF IsInjective
  <2>2. CASE i - m \in 1..k /\ j - m \in 1..k /\ i \notin 1..m /\ j \notin 1..m
    <3>1. u[i - m] = u[j - m]
      BY <2>2, <1>4, <1>6
    <3>2. i - m = j - m
      BY <3>1, <2>2, <1>1 DEF IsInjective
    <3>. QED
      BY <3>2, <1>1
  <2>3. CASE ~(i \in 1..m <=> j \in 1..m)
    <3>1. i \in 1..m => i - m \notin 1..k
      BY <1>1
    <3>2. j \in 1..m => j - m \notin 1..k
      BY <1>1
    <3>. QED
      BY <3>1, <3>2, <2>3, <1>4, <1>6
  <2>. QED
    BY <2>1, <2>2, <2>3, <1>3
<1>. QED
  BY <1>2, <1>5, <1>6 DEF IsInjective, su

-----------------------------------------------------------------------------
\* There is one path only.
LEMMA PathUnique ==
  ASSUME NEW n, NEW c, Path(n, c), NEW m, NEW d, Path(m, d)
  PROVE  n = m /\ c = d
<1>1. /\ n \in Nat \ {0} /\ c \in [1..n -> Pages] /\ c[1] = first
      /\ \A i \in 1..n : page[c[i]].next = IF i = n THEN 0 ELSE c[i + 1]
      /\ m \in Nat \ {0} /\ d \in [1..m -> Pages] /\ d[1] = first
      /\ \A i \in 1..m : page[d[i]].next = IF i = m THEN 0 ELSE d[i + 1]
  BY DEF Path
<1>2. \A p \in Pages : p # 0
  BY DEF Pages
<1>. DEFINE D == {i \in Nat : i \in 1..n /\ ~(i \in 1..m /\ d[i] = c[i])}
<1>3. D = {}
  <2>. SUFFICES ASSUME D # {} PROVE FALSE
    OBVIOUS
  <2>1. PICK i \in D : \A j \in D : ~(j < i)
    <3>1. D \in SUBSET Nat /\ \E x : x \in D
      OBVIOUS
    <3>. HIDE DEF D
    <3>2. \E i \in D : \A j \in D : ~(<<j, i>> \in OpToRel(<, Nat))
      BY <3>1, NatLessThanWellFounded, WFMin
    <3>. QED
      BY <3>1, <3>2 DEF OpToRel
  <2>2. i \in Nat /\ i \in 1..n /\ i # 1 /\ i - 1 \in 1..n /\ i - 1 \in Nat
    BY <2>1, <1>1
  <2>3. i - 1 \notin D
    BY <2>1, <2>2
  <2>4. i - 1 \in 1..m /\ d[i - 1] = c[i - 1]
    BY <2>2, <2>3
  <2>5. page[c[i - 1]].next = c[i] /\ c[i] \in Pages
    BY <2>2, <1>1
  <2>6. i - 1 # m /\ i \in 1..m /\ page[d[i - 1]].next = d[i]
    BY <2>2, <2>4, <2>5, <1>1, <1>2
  <2>. QED
    BY <2>1, <2>4, <2>5, <2>6
<1>4. n <= m /\ \A i \in 1..n : d[i] = c[i]
  BY <1>1, <1>3
<1>5. n = m
  <2>1. n # m => page[d[n]].next = d[n + 1] /\ d[n + 1] \in Pages
    BY <1>1, <1>4
  <2>2. page[c[n]].next = 0 /\ d[n] = c[n]
    BY <1>1, <1>4
  <2>. QED
    BY <2>1, <2>2, <1>2
<1>. QED
  BY <1>1, <1>4, <1>5

\* A step leaves the path or makes it one page longer.
LEMMA StepPath ==
  ASSUME Linking, NEW n, NEW c, Path(n, c), Next
  PROVE  Path(n, c)' \/ Grows(n, c)
<1>1. PICK m, d : Path(m, d) /\ Joined(m, d)
  BY DEF Linking
<1>2. m = n /\ d = c
  BY <1>1, PathUnique
<1>3. On(n, c) \subseteq Pages
  BY FirstOn
<1>4. ASSUME NEW p \in Pages, NEW pn, page' = [page EXCEPT ![p] = pn],
             p \notin On(n, c) \/ Kept(page[p], pn)
      PROVE  Path(n, c)'
  <2>1. page'[p] = pn /\ \A q \in Pages \ {p} : page'[q] = page[q]
    BY <1>4 DEF Linking, AllPacked
  <2>2. \A q \in On(n, c) : Kept(page[q], page'[q])
    BY <2>1, <1>3, <1>4 DEF Kept
  <2>. QED
    BY <2>2, PathKept
<1>5. CASE page' = page
  BY <1>5 DEF Path
<1>6. ASSUME NEW t \in Threads, AllocPage(t) PROVE Path(n, c)'
  <2>1. PICK p \in Unused : page' = [page EXCEPT ![p] = EmptyPage]
    BY <1>6 DEF AllocPage
  <2>2. p \in Pages /\ p \notin On(n, c)
    BY DEF Unused, On, Path
  <2>. QED
    BY <2>1, <2>2, <1>4
<1>7. ASSUME NEW t \in Threads, LinkPage(t) PROVE Grows(n, c)
  BY <1>7, LinkLinks, PathUnique
<1>8. ASSUME NEW t \in Threads, WriteRow(t), page' # page PROVE Path(n, c)'
  <2>. DEFINE p == th[t].pid
  <2>1. /\ page[p].free_slot_head # 0 \/ HasRoom(page[p])
        /\ page' = [page EXCEPT ![p] = WithRow(page[p])] /\ th[t].pc = "row"
    BY <1>8 DEF WriteRow, At
  <2>2. p \in On(n, c)
    BY <2>1, <1>1, <1>2 DEF Joined
  <2>3. p \in Pages /\ Packed(page[p])
    BY <2>2, <1>3 DEF Linking, AllPacked
  <2>4. Kept(page[p], WithRow(page[p]))
    BY <2>1, <2>3, WithRowRows
  <2>. QED
    BY <2>1, <2>3, <2>4, <1>4
<1>9. ASSUME NEW t \in Threads, heap_delete(t) PROVE Path(n, c)'
  <2>1. PICK p \in Pages : \E s \in Alive(page[p]) :
                             page' = [page EXCEPT ![p] = Freed(page[p], s)]
    BY <1>9 DEF heap_delete
  <2>2. PICK s \in Alive(page[p]) : page' = [page EXCEPT ![p] = Freed(page[p], s)]
    BY <2>1
  <2>3. Kept(page[p], Freed(page[p], s))
    BY FreedRows DEF Linking, AllPacked
  <2>. QED
    BY <2>2, <2>3, <1>4
<1>10. ASSUME NEW t \in Threads, Quiet(t) \/ SetLast(t) PROVE page' = page
  BY <1>10 DEF Quiet, CallInsert, TailLatch, TailUnlatch, TakeTail, TestHint, Walk, HintOff,
     HintOn, CallScan, ScanPage, ScanSlots, ScanSlot, ReturnScan, shared, SetLast
<1>11. Reopen => page' = page
  BY DEF Reopen
<1>12. ASSUME NEW t \in Threads, Step(t) PROVE Path(n, c)' \/ Grows(n, c)
  BY <1>5, <1>6, <1>7, <1>8, <1>9, <1>10, <1>12 DEF Step, Quiet
<1>. QED
  BY <1>5, <1>11, <1>12 DEF Next

\* The rows a scan can reach, by the place of their page on the path.
LEMMA RowsOn ==
  ASSUME Linking, NEW n, NEW c, Path(n, c)
  PROVE  /\ \A i \in 1..n : \A s \in Alive(page[c[i]]) : <<c[i], s>> \in Rows
         /\ \A r \in Rows : \E i \in 1..n : /\ r[1] = c[i] /\ r[2] \in Alive(page[c[i]])
                                            /\ r = <<r[1], r[2]>>
         /\ \A i \in 1..n :
              /\ page[c[i]].slots \in Seq(Slot)
              /\ Alive(page[c[i]]) \subseteq 1..Len(page[c[i]].slots)
              /\ IsFiniteSet(Alive(page[c[i]]))
<1>1. Linked = {c[i] : i \in 1..n}
  BY MeetsPath DEF On
<1>2. \A i \in 1..n : \A s \in Alive(page[c[i]]) : <<c[i], s>> \in Rows
  BY <1>1 DEF Rows
<1>3. ASSUME NEW r \in Rows
      PROVE  \E i \in 1..n : /\ r[1] = c[i] /\ r[2] \in Alive(page[c[i]])
                             /\ r = <<r[1], r[2]>>
  <2>1. PICK p \in Linked : r \in {p} \X Alive(page[p])
    BY DEF Rows
  <2>. QED
    BY <2>1, <1>1
<1>4. ASSUME NEW i \in 1..n
      PROVE  /\ page[c[i]].slots \in Seq(Slot)
             /\ Alive(page[c[i]]) \subseteq 1..Len(page[c[i]].slots)
             /\ IsFiniteSet(Alive(page[c[i]]))
  <2>. DEFINE ss == page[c[i]].slots
  <2>1. c[i] \in Pages
    BY DEF Path
  <2>2. ss \in Seq(Slot)
    BY <2>1 DEF Linking, AllPacked, Packed, Sound, IsPage
  <2>3. Alive(page[c[i]]) \subseteq 1..Len(ss) /\ Len(ss) \in Nat
    BY <2>2 DEF Alive
  <2>4. IsFiniteSet(1..Len(ss))
    <3>1. PICK m \in Nat : m = Len(ss)
      BY <2>3
    <3>2. IsFiniteSet(1..m)
      BY FS_Interval
    <3>. QED
      BY <3>1, <3>2
  <2>. QED
    BY <2>2, <2>3, <2>4, FS_Subset
<1>. QED
  BY <1>2, <1>3, <1>4

-----------------------------------------------------------------------------
ScanPcs == {"scan", "slots", "scanned"}

\* What a scan at the k-th page of the path has behind it of that path.
Past(l, c, k, r) ==
  \/ \E i \in 1..(k - 1) : r[1] = c[i]
  \/ l.pc = "slots" /\ r[1] = c[k] /\ r[2] < l.slot

\* A scan with locals l that must show the rows of must and may show those of
\* may: the rows it must show are shown or lie before it, and the successor it
\* has read still leads there, or there is nothing to show behind it.
ScanAt(l, must, may, n, c, k) ==
  /\ k \in 1..(n + 1)
  /\ l.pc # "scanned" => k <= n /\ l.pid = c[k]
  /\ l.pc = "slots" =>
       /\ l.count \in Nat /\ l.slot \in 1..l.count
       /\ \A r \in must : r[1] = c[k] => r[2] <= l.count
       /\ \/ l.next = page[c[k]].next
          \/ l.next = 0 /\ \A r \in must : \E i \in 1..k : r[1] = c[i]
  /\ l.pc = "scanned" => must \subseteq ToSet(l.got)
  /\ must \subseteq Rows
  /\ \A r \in must : Past(l, c, k, r) => r \in ToSet(l.got)
  /\ \A r \in ToSet(l.got) : r \in may /\ (l.pc # "scanned" => Past(l, c, k, r))
  /\ l.got \in Seq(Pages \X Nat) /\ IsInjective(l.got)

ScanOf(t) ==
  IF th[t].pc \in ScanPcs
  THEN \E n, c, k : Path(n, c) /\ ScanAt(th[t], seen[t].must, seen[t].may, n, c, k)
  ELSE th[t].got = << >>

Scans == Linking /\ \A t \in Threads : ScanOf(t)

\* A scan that has shown the rows of what it must up to page k.
LEMMA Shown ==
  ASSUME NEW l, NEW must, NEW may, NEW n, NEW c, NEW k, Path(n, c),
         ScanAt(l, must, may, n, c, k), l.pc # "scanned"
  PROVE  k \in 1..n /\ n \in Nat /\ c[k] \in Pages /\ l.pid = c[k]
         /\ page[c[k]].next = IF k = n THEN 0 ELSE c[k + 1]
BY DEF ScanAt, Path

\* The scans of the other threads stay right: rows that come are not asked for,
\* and a page that comes is behind them.
LEMMA ScanStays ==
  ASSUME Linking, Linking', Next, NEW t \in Threads, th'[t] = th[t], ScanOf(t)
  PROVE  ScanOf(t)'
<1>1. seen'[t] = Observed(t)
  BY DEF Next
<1>2. CASE th[t].pc \notin ScanPcs
  BY <1>2 DEF ScanOf
<1>3. CASE th[t].pc \in ScanPcs
  <2>1. PICK n, c, k : Path(n, c) /\ ScanAt(th[t], seen[t].must, seen[t].may, n, c, k)
    BY <1>3 DEF ScanOf
  <2>2. /\ seen'[t].must = seen[t].must \cap Rows' /\ seen'[t].may = seen[t].may \cup Rows'
    BY <1>1, <1>3 DEF Observed, Scanning, ScanPcs
  <2>3. PICK l, must, may, must2, may2 :
          /\ l = th[t] /\ must = seen[t].must /\ may = seen[t].may
          /\ must2 = must \cap Rows' /\ may2 = may \cup Rows'
    OBVIOUS
  <2>4. ScanAt(l, must, may, n, c, k)
    BY <2>1, <2>3
  <2>5. n \in Nat \ {0} /\ k \in 1..(n + 1)
    BY <2>1, <2>4 DEF ScanAt, Path
  <2>6. ASSUME NEW m, NEW d, m \in {n, n + 1}, Path(m, d)', \A i \in 1..n : d[i] = c[i]
        PROVE  ScanAt(l, must2, may2, m, d, k)'
    <3>1. \A i \in 1..(k - 1) : i \in 1..n /\ d[i] = c[i]
      BY <2>5, <2>6
    <3>2. l.pc # "scanned" => k \in 1..n /\ d[k] = c[k]
      BY <2>4, <2>5, <2>6 DEF ScanAt
    <3>3. l.pc # "scanned" => \A r : Past(l, d, k, r) <=> Past(l, c, k, r)
      BY <3>1, <3>2 DEF Past
    <3>4. l.pc = "slots" =>
            \/ l.next = page'[d[k]].next
            \/ l.next = 0 /\ \A r \in must2 : \E i \in 1..k : r[1] = d[i]
      <4>. SUFFICES ASSUME l.pc = "slots"
                    PROVE  \/ l.next = page'[d[k]].next
                           \/ l.next = 0 /\ \A r \in must2 : \E i \in 1..k : r[1] = d[i]
        OBVIOUS
      <4>1. \/ l.next = page[c[k]].next
            \/ l.next = 0 /\ \A r \in must : \E i \in 1..k : r[1] = c[i]
        BY <2>4 DEF ScanAt
      <4>2. \A i \in 1..k : d[i] = c[i]
        BY <2>5, <2>6, <3>2
      <4>3. /\ page[c[k]].next = IF k = n THEN 0 ELSE c[k + 1]
            /\ page'[d[k]].next = IF k = m THEN 0 ELSE d[k + 1]
        <5>1. k \in 1..n /\ k \in 1..m
          BY <3>2, <2>5, <2>6
        <5>2. page[c[k]].next = IF k = n THEN 0 ELSE c[k + 1]
          BY <5>1, <2>1 DEF Path
        <5>3. page'[d[k]].next = IF k = m THEN 0 ELSE d[k + 1]
          BY <5>1, <2>6 DEF Path
        <5>. QED
          BY <5>2, <5>3
      <4>4. CASE k # n
        <5>1. k + 1 \in 1..n /\ k # m /\ d[k + 1] = c[k + 1]
          BY <4>4, <2>5, <2>6, <3>2
        <5>2. page'[d[k]].next = page[c[k]].next
          BY <5>1, <4>3, <4>4
        <5>. QED
          BY <5>2, <4>1, <4>2, <2>3
      <4>5. CASE k = n
        <5>1. \A r \in must : \E i \in 1..n : r[1] = c[i]
          BY <2>1, <2>4, RowsOn DEF ScanAt
        <5>. QED
          BY <5>1, <4>1, <4>2, <4>3, <4>5, <2>3
      <4>. QED
        BY <4>4, <4>5
    <3>5. /\ k \in 1..(m + 1)
          /\ l.pc # "scanned" => k <= m /\ l.pid = d[k]
      BY <2>4, <2>5, <2>6, <3>2 DEF ScanAt
    <3>6. l.pc = "slots" =>
            /\ l.count \in Nat /\ l.slot \in 1..l.count
            /\ \A r \in must2 : r[1] = d[k] => r[2] <= l.count
      BY <2>3, <2>4, <3>2 DEF ScanAt
    <3>7. /\ l.pc = "scanned" => must2 \subseteq ToSet(l.got)
          /\ must2 \subseteq Rows'
          /\ l.got \in Seq(Pages \X Nat) /\ IsInjective(l.got)
      BY <2>3, <2>4 DEF ScanAt
    <3>8. \A r \in must2 : Past(l, d, k, r) => r \in ToSet(l.got)
      BY <2>3, <2>4, <3>3, <3>7 DEF ScanAt
    <3>9. \A r \in ToSet(l.got) : r \in may2 /\ (l.pc # "scanned" => Past(l, d, k, r))
      BY <2>3, <2>4, <3>3 DEF ScanAt
    <3>. QED
      BY <3>4, <3>5, <3>6, <3>7, <3>8, <3>9 DEF ScanAt
  <2>7. \E m, d : Path(m, d)' /\ ScanAt(l, must2, may2, m, d, k)'
    <3>1. CASE Path(n, c)'
      BY <3>1, <2>6
    <3>2. CASE Grows(n, c)
      BY <3>2, <2>6 DEF Grows
    <3>. QED
      BY <3>1, <3>2, <2>1, StepPath
  <2>8. PICK m, d : Path(m, d)' /\ ScanAt(l, must2, may2, m, d, k)'
    BY <2>7
  <2>9. th'[t] = l /\ seen'[t].must = must2 /\ seen'[t].may = may2
    BY <2>2, <2>3
  <2>. QED
    BY <1>3, <2>8, <2>9 DEF ScanOf
<1>. QED
  BY <1>2, <1>3

\* What a scan appends: rows of page k it has not shown.
Shows(g, l, p, F) ==
  /\ g \in Seq(Pages \X Nat) /\ IsInjective(g)
  /\ \A r : r \in ToSet(g) <=> r \in ToSet(l.got) \/ \E s \in F : r = <<p, s>>
  /\ \A s \in F : <<p, s>> \in Rows

LEMMA ShowMore ==
  ASSUME Linking, NEW n, NEW c, NEW k, Path(n, c), NEW l, NEW must, NEW may,
         ScanAt(l, must, may, n, c, k), l.pc # "scanned",
         NEW F \in SUBSET Alive(page[c[k]]),
         l.pc = "slots" => \A s \in F : s >= l.slot,
         NEW g, g = l.got \o RowsAt(l.pid, F)
  PROVE  Shows(g, l, c[k], F)
<1>1. /\ k \in 1..n /\ n \in Nat /\ c[k] \in Pages /\ l.pid = c[k]
  BY Shown
<1>2. /\ page[c[k]].slots \in Seq(Slot)
      /\ Alive(page[c[k]]) \subseteq 1..Len(page[c[k]].slots)
      /\ IsFiniteSet(Alive(page[c[k]]))
      /\ \A s \in F : <<c[k], s>> \in Rows
  BY <1>1, RowsOn
<1>3. F \subseteq Nat /\ IsFiniteSet(F)
  BY <1>2, FS_Subset
<1>4. PICK rs : rs = RowsAt(c[k], F)
  OBVIOUS
<1>5. /\ rs \in Seq({c[k]} \X F) /\ IsInjective(rs)
      /\ \A r : r \in ToSet(rs) <=> \E s \in F : r = <<c[k], s>>
  <2>1. Lists(rs, c[k], F)
    BY <1>3, <1>4, RowsAtIs
  <2>. QED
    BY <2>1 DEF Lists
<1>6. rs \in Seq(Pages \X Nat)
  <2>1. {c[k]} \X F \subseteq Pages \X Nat
    BY <1>1, <1>3
  <2>2. PICK T : T = {c[k]} \X F
    OBVIOUS
  <2>3. PICK U : U = Pages \X Nat
    OBVIOUS
  <2>4. rs \in Seq(T) /\ T \subseteq U
    BY <1>5, <2>1, <2>2, <2>3
  <2>5. rs \in Seq(U)
    BY <2>4
  <2>. QED
    BY <2>3, <2>5
<1>7. l.got \in Seq(Pages \X Nat) /\ IsInjective(l.got)
      /\ \A r \in ToSet(l.got) : Past(l, c, k, r)
  BY DEF ScanAt
<1>8. ASSUME NEW s \in F PROVE ~Past(l, c, k, <<c[k], s>>)
  <2>1. \A i \in 1..(k - 1) : c[i] # c[k]
    BY <1>1 DEF Path
  <2>2. l.pc = "slots" => s >= l.slot /\ s \in Nat /\ l.slot \in Nat
    BY <1>3 DEF ScanAt
  <2>. QED
    BY <2>1, <2>2 DEF Past
<1>9. ToSet(l.got) \cap ToSet(rs) = {}
  BY <1>5, <1>7, <1>8
<1>10. /\ g \in Seq(Pages \X Nat) /\ IsInjective(g)
       /\ ToSet(g) = ToSet(l.got) \cup ToSet(rs)
  BY <1>1, <1>4, <1>5, <1>6, <1>7, <1>9, Appended
<1>. QED
  BY <1>2, <1>5, <1>10 DEF Shows

\* A scan that goes on behind page k, or has come to its end there.
LEMMA Advance ==
  ASSUME Linking, NEW n, NEW c, NEW k, Path(n, c), NEW l, NEW must, NEW may,
         ScanAt(l, must, may, n, c, k), l.pc # "scanned",
         NEW F \in SUBSET Alive(page[c[k]]),
         l.pc = "slots" => \A s \in F : s >= l.slot,
         \A r \in must : r[1] = c[k] =>
           r[2] \in F \/ (l.pc = "slots" /\ r[2] < l.slot),
         NEW m, m.got = l.got \o RowsAt(l.pid, F), m.pc = AfterPage(m.pid),
         \/ m.pid = page[c[k]].next
         \/ m.pid = 0 /\ \A r \in must : \E i \in 1..k : r[1] = c[i],
         NEW may2, may2 = may \cup Rows
  PROVE  ScanAt(m, must, may2, n, c, k + 1)
<1>1. /\ k \in 1..n /\ n \in Nat /\ c[k] \in Pages /\ l.pid = c[k]
      /\ page[c[k]].next = IF k = n THEN 0 ELSE c[k + 1]
  BY Shown
<1>2. PICK g : g = l.got \o RowsAt(l.pid, F)
  OBVIOUS
<1>3. /\ g \in Seq(Pages \X Nat) /\ IsInjective(g)
      /\ \A r : r \in ToSet(g) <=> r \in ToSet(l.got) \/ \E s \in F : r = <<c[k], s>>
      /\ \A s \in F : <<c[k], s>> \in Rows
  <2>1. Shows(g, l, c[k], F)
    BY <1>2, ShowMore
  <2>. QED
    BY <2>1 DEF Shows
<1>4. /\ must \subseteq Rows
      /\ \A r \in must : Past(l, c, k, r) => r \in ToSet(l.got)
      /\ \A r \in ToSet(l.got) : r \in may /\ Past(l, c, k, r)
  BY DEF ScanAt
<1>5. \A i \in 1..((k + 1) - 1) : i \in 1..(k - 1) \/ i = k
  BY <1>1
<1>6. k \in 1..((k + 1) - 1) /\ \A i \in 1..(k - 1) : i \in 1..((k + 1) - 1)
  BY <1>1
<1>7. ASSUME NEW r \in must, NEW i \in 1..k, r[1] = c[i] PROVE r \in ToSet(g)
  <2>1. r = <<r[1], r[2]>>
    BY <1>4, RowsOn
  <2>2. CASE i = k
    <3>1. CASE r[2] \in F
      BY <3>1, <2>1, <2>2, <1>3, <1>7
    <3>2. CASE l.pc = "slots" /\ r[2] < l.slot
      <4>1. Past(l, c, k, r)
        BY <3>2, <2>2, <1>7 DEF Past
      <4>. QED
        BY <4>1, <1>3, <1>4
    <3>. QED
      BY <3>1, <3>2, <2>2, <1>7
  <2>3. CASE i \in 1..(k - 1)
    <3>1. Past(l, c, k, r)
      BY <2>3, <1>7 DEF Past
    <3>. QED
      BY <3>1, <1>3, <1>4
  <2>. QED
    BY <2>2, <2>3, <1>1
<1>8. ASSUME NEW r \in ToSet(g)
      PROVE  r \in may2 /\ \E i \in 1..k : r[1] = c[i]
  <2>1. CASE r \in ToSet(l.got)
    <3>1. r \in may /\ Past(l, c, k, r)
      BY <2>1, <1>4
    <3>2. k \in 1..k /\ \A i \in 1..(k - 1) : i \in 1..k
      BY <1>1
    <3>. QED
      BY <3>1, <3>2 DEF Past
  <2>2. CASE \E s \in F : r = <<c[k], s>>
    BY <2>2, <1>1, <1>3
  <2>. QED
    BY <2>1, <2>2, <1>3, <1>8
<1>9. m.got = g
  BY <1>2
<1>10. k + 1 \in 1..(n + 1) /\ 1..((k + 1) - 1) = 1..k
  BY <1>1
<1>11. /\ m.pid = 0 => m.pc = "scanned"
       /\ m.pid # 0 => m.pc = "scan"
  BY DEF AfterPage
<1>12. CASE m.pid = 0
  <2>1. \A r \in must : \E i \in 1..k : r[1] = c[i]
    <3>1. CASE page[c[k]].next = 0
      <4>1. k = n
        <5>1. k # n => c[k + 1] \in Pages
          BY <1>1 DEF Path
        <5>. QED
          BY <5>1, <3>1, <1>1 DEF Pages
      <4>. QED
        BY <4>1, <1>4, RowsOn
    <3>. QED
      BY <3>1, <1>12
  <2>2. must \subseteq ToSet(g)
    BY <2>1, <1>7
  <2>. QED
    BY <2>2, <1>3, <1>4, <1>8, <1>9, <1>10, <1>11, <1>12 DEF ScanAt
<1>13. CASE m.pid # 0
  <2>1. k # n /\ k + 1 <= n /\ m.pid = c[k + 1]
    BY <1>1, <1>13
  <2>2. \A r : Past(m, c, k + 1, r) <=> \E i \in 1..k : r[1] = c[i]
    BY <1>10, <1>11, <1>13 DEF Past
  <2>3. \A r \in must : Past(m, c, k + 1, r) => r \in ToSet(g)
    BY <2>2, <1>7
  <2>4. \A r \in ToSet(g) : r \in may2 /\ Past(m, c, k + 1, r)
    BY <2>2, <1>8
  <2>. QED
    BY <2>1, <2>3, <2>4, <1>3, <1>4, <1>9, <1>10, <1>11, <1>13 DEF ScanAt
<1>. QED
  BY <1>12, <1>13

\* While no page changes, neither does what a scan has to do with.
LEMMA SamePages ==
  ASSUME page' = page
  PROVE  /\ Rows' = Rows
         /\ \A n, c : Path(n, c) => Path(n, c)'
         /\ \A l, must, may, n, c, k :
              ScanAt(l, must, may, n, c, k) => ScanAt(l, must, may, n, c, k)'
<1>1. Rows' = Rows
  BY DEF Rows, Linked, Chain, Alive
<1>2. \A n, c : Path(n, c) => Path(n, c)'
  BY DEF Path
<1>3. ASSUME NEW l, NEW must, NEW may, NEW n, NEW c, NEW k,
             ScanAt(l, must, may, n, c, k)
      PROVE  ScanAt(l, must, may, n, c, k)'
  BY <1>1, <1>3 DEF ScanAt, Past
<1>. QED
  BY <1>1, <1>2, <1>3

\* A scan is at page k afterwards, and the step has changed no page.
LEMMA ScansOn ==
  ASSUME NEW t \in Threads, Next, page' = page, th'[t].pc \in ScanPcs,
         th[t].pc # "idle", NEW n, NEW c, NEW k, Path(n, c),
         seen[t].must \subseteq Rows,
         ScanAt(th'[t], seen[t].must, seen[t].may \cup Rows, n, c, k)
  PROVE  ScanOf(t)'
<1>1. seen'[t] = Observed(t)
  BY DEF Next
<1>2. Rows' = Rows
  BY SamePages
<1>3. /\ seen'[t].must = seen[t].must \cap Rows /\ seen'[t].may = seen[t].may \cup Rows
  BY <1>1, <1>2 DEF Observed, Scanning, ScanPcs
<1>4. seen'[t].must = seen[t].must
  BY <1>3
<1>5. PICK l, must, may : /\ l = th'[t] /\ must = seen[t].must
                          /\ may = seen[t].may \cup Rows
  OBVIOUS
<1>6. Path(n, c)' /\ ScanAt(l, must, may, n, c, k)'
  BY <1>5, SamePages
<1>. QED
  BY <1>3, <1>4, <1>5, <1>6 DEF ScanOf

LEMMA CallScanSound ==
  ASSUME Scans, NEW t \in Threads, Next, CallScan(t)
  PROVE  ScanOf(t)'
<1>1. th[t].pc = "idle" /\ GotoPage(t, "scan", first) /\ page' = page
  BY DEF CallScan, At, shared
<1>2. PICK m : m = th'[t]
  OBVIOUS
<1>3. IsLocals(th[t]) /\ th[t].got = << >>
  BY <1>1 DEF Scans, Linking, Calls, ScanOf, ScanPcs
<1>4. m.pc = "scan" /\ m.pid = first /\ m.got = << >>
  BY <1>1, <1>2, <1>3 DEF GotoPage, Scans, Linking, Calls, IsLocals
<1>5. seen'[t] = Observed(t) /\ Rows' = Rows
  BY <1>1, SamePages DEF Next
<1>6. seen'[t].must = Rows /\ seen'[t].may = Rows
  BY <1>1, <1>2, <1>4, <1>5 DEF Observed, Scanning
<1>7. PICK n, c : Path(n, c)
  BY DEF Scans, Linking
<1>8. PICK R : R = Rows
  OBVIOUS
<1>9. ScanAt(m, R, R, n, c, 1)
  <2>1. n \in Nat \ {0} /\ c[1] = first /\ 1 \in 1..(n + 1) /\ 1 <= n
    BY <1>7 DEF Path
  <2>2. \A r : ~Past(m, c, 1, r)
    BY <1>4 DEF Past
  <2>3. ToSet(m.got) = {} /\ IsInjective(m.got) /\ m.got \in Seq(Pages \X Nat)
    BY <1>4 DEF ToSet, IsInjective
  <2>. QED
    BY <2>1, <2>2, <2>3, <1>4, <1>8 DEF ScanAt
<1>10. Path(n, c)' /\ ScanAt(m, R, R, n, c, 1)'
  BY <1>1, <1>7, <1>9, SamePages
<1>. QED
  BY <1>2, <1>4, <1>6, <1>8, <1>10 DEF ScanOf, ScanPcs

LEMMA ScanPageSound ==
  ASSUME Scans, NEW t \in Threads, Next, ScanPage(t)
  PROVE  ScanOf(t)'
<1>1. /\ th[t].pc = "scan" /\ page' = page
      /\ th' = [th EXCEPT ![t] =
           [th[t] EXCEPT !.got = th[t].got \o RowsAt(th[t].pid, Alive(page[th[t].pid])),
                         !.pid = page[th[t].pid].next,
                         !.pc = AfterPage(page[th[t].pid].next)]]
  BY DEF ScanPage, At, shared
<1>2. PICK l, must, may, m :
        /\ l = th[t] /\ must = seen[t].must /\ may = seen[t].may /\ m = th'[t]
  OBVIOUS
<1>3. PICK n, c, k : Path(n, c) /\ ScanAt(l, must, may, n, c, k)
  BY <1>1, <1>2 DEF Scans, ScanOf, ScanPcs
<1>4. IsLocals(th[t])
  BY DEF Scans, Linking, Calls
<1>5. /\ m.got = l.got \o RowsAt(l.pid, Alive(page[l.pid]))
      /\ m.pid = page[l.pid].next /\ m.pc = AfterPage(m.pid)
  BY <1>1, <1>2, <1>4 DEF Scans, Linking, Calls, IsLocals
<1>6. l.pid = c[k] /\ l.pc = "scan"
  BY <1>1, <1>2, <1>3 DEF ScanAt
<1>7. PICK F : F = Alive(page[c[k]])
  OBVIOUS
<1>8. must \subseteq Rows /\ \A r \in must : r[1] = c[k] => r[2] \in F
  <2>1. must \subseteq Rows
    BY <1>3 DEF ScanAt
  <2>2. \A r \in Rows : r[2] \in Alive(page[r[1]])
    BY <1>3, RowsOn DEF Scans
  <2>. QED
    BY <2>1, <2>2, <1>7
<1>9. ScanAt(m, must, may \cup Rows, n, c, k + 1)
  <2>1. PICK may2 : may2 = may \cup Rows
    OBVIOUS
  <2>2. m.got = l.got \o RowsAt(l.pid, F) /\ m.pid = page[c[k]].next
    BY <1>5, <1>6, <1>7
  <2>3. ScanAt(m, must, may2, n, c, k + 1)
    BY <2>1, <2>2, <1>3, <1>5, <1>6, <1>7, <1>8, Advance DEF Scans
  <2>. QED
    BY <2>1, <2>3
<1>10. m.pc \in ScanPcs
  BY <1>5 DEF AfterPage, ScanPcs
<1>. QED
  BY <1>1, <1>2, <1>3, <1>8, <1>9, <1>10, ScansOn

LEMMA ScanSlotsSound ==
  ASSUME Scans, NEW t \in Threads, Next, ScanSlots(t)
  PROVE  ScanOf(t)'
<1>1. /\ th[t].pc = "scan" /\ page' = page /\ page[th[t].pid].slots # << >>
      /\ th' = [th EXCEPT ![t] =
           [th[t] EXCEPT !.pc = "slots", !.slot = 1, !.count = Len(page[th[t].pid].slots),
                         !.next = page[th[t].pid].next]]
  BY DEF ScanSlots, At, shared
<1>2. PICK l, must, may, m :
        /\ l = th[t] /\ must = seen[t].must /\ may = seen[t].may /\ m = th'[t]
  OBVIOUS
<1>3. PICK n, c, k : Path(n, c) /\ ScanAt(l, must, may, n, c, k)
  BY <1>1, <1>2 DEF Scans, ScanOf, ScanPcs
<1>4. IsLocals(th[t])
  BY DEF Scans, Linking, Calls
<1>5. l.pid = c[k] /\ l.pc = "scan" /\ k \in 1..n
  BY <1>1, <1>2, <1>3, Shown DEF ScanAt
<1>6. /\ m.pc = "slots" /\ m.slot = 1 /\ m.count = Len(page[c[k]].slots)
      /\ m.next = page[c[k]].next /\ m.got = l.got /\ m.pid = l.pid
  BY <1>1, <1>2, <1>4, <1>5 DEF Scans, Linking, Calls, IsLocals
<1>7. /\ page[c[k]].slots \in Seq(Slot) /\ page[c[k]].slots # << >>
      /\ Alive(page[c[k]]) \subseteq 1..Len(page[c[k]].slots)
      /\ \A r \in Rows : r[2] \in Alive(page[r[1]])
  BY <1>1, <1>2, <1>3, <1>5, RowsOn DEF Scans
<1>8. m.count \in Nat /\ m.slot \in 1..m.count
  <2>1. m.count \in Nat
    BY <1>6, <1>7
  <2>2. \E s : s \in 1..m.count
    BY <1>6, <1>7
  <2>. QED
    BY <2>1, <2>2, <1>6
<1>9. must \subseteq Rows /\ \A r \in must : r[1] = c[k] => r[2] \in 1..m.count
  BY <1>3, <1>6, <1>7 DEF ScanAt
<1>10. \A r \in must : Past(m, c, k, r) => Past(l, c, k, r)
  <2>1. \A r \in must : r[1] = c[k] => ~(r[2] < m.slot)
    BY <1>6, <1>8, <1>9
  <2>. QED
    BY <2>1 DEF Past
<1>11. \A r : Past(l, c, k, r) => Past(m, c, k, r)
  BY <1>5 DEF Past
<1>12. ScanAt(m, must, may \cup Rows, n, c, k)
  <2>1. PICK may2 : may2 = may \cup Rows
    OBVIOUS
  <2>2. /\ k \in 1..(n + 1) /\ k <= n
        /\ \A r \in must : Past(l, c, k, r) => r \in ToSet(l.got)
        /\ \A r \in ToSet(l.got) : r \in may /\ Past(l, c, k, r)
        /\ l.got \in Seq(Pages \X Nat) /\ IsInjective(l.got)
    BY <1>3, <1>5 DEF ScanAt
  <2>3. \A r \in must : r[1] = c[k] => r[2] <= m.count
    BY <1>8, <1>9
  <2>4. \A r \in ToSet(m.got) : r \in may2 /\ Past(m, c, k, r)
    BY <2>1, <2>2, <1>6, <1>11
  <2>5. \A r \in must : Past(m, c, k, r) => r \in ToSet(m.got)
    BY <2>2, <1>6, <1>10
  <2>6. ScanAt(m, must, may2, n, c, k)
    BY <2>2, <2>3, <2>4, <2>5, <1>5, <1>6, <1>8, <1>9 DEF ScanAt
  <2>. QED
    BY <2>1, <2>6
<1>13. m.pc \in ScanPcs
  BY <1>6 DEF ScanPcs
<1>. QED
  BY <1>1, <1>2, <1>3, <1>9, <1>12, <1>13, ScansOn

LEMMA ScanSlotSound ==
  ASSUME Scans, NEW t \in Threads, Next, ScanSlot(t)
  PROVE  ScanOf(t)'
<1>1. PICK l, must, may, m :
        /\ l = th[t] /\ must = seen[t].must /\ may = seen[t].may /\ m = th'[t]
  OBVIOUS
<1>2. PICK F, done : F = {l.slot} \cap Alive(page[l.pid]) /\ done = (l.slot = l.count)
  OBVIOUS
<1>3. /\ l.pc = "slots" /\ page' = page
      /\ th' = [th EXCEPT ![t] =
           [l EXCEPT !.got = l.got \o RowsAt(l.pid, F),
                     !.slot = IF done THEN 0 ELSE l.slot + 1,
                     !.count = IF done THEN 0 ELSE l.count,
                     !.next = IF done THEN 0 ELSE l.next,
                     !.pid = IF done THEN l.next ELSE l.pid,
                     !.pc = IF done THEN AfterPage(l.next) ELSE l.pc]]
  BY <1>1, <1>2 DEF ScanSlot, At, shared
<1>4. PICK n, c, k : Path(n, c) /\ ScanAt(l, must, may, n, c, k)
  BY <1>1, <1>3 DEF Scans, ScanOf, ScanPcs
<1>5. IsLocals(l)
  BY <1>1 DEF Scans, Linking, Calls
<1>6. m.got = l.got \o RowsAt(l.pid, F)
  BY <1>1, <1>3, <1>5 DEF Scans, Linking, Calls, IsLocals
<1>7. /\ k \in 1..n /\ n \in Nat /\ l.pid = c[k] /\ F \in SUBSET Alive(page[c[k]])
      /\ \A s \in F : s = l.slot
  BY <1>2, <1>3, <1>4, Shown
<1>8. /\ l.count \in Nat /\ l.slot \in 1..l.count
      /\ \A r \in must : r[1] = c[k] => r[2] <= l.count
      /\ \/ l.next = page[c[k]].next
         \/ l.next = 0 /\ \A r \in must : \E i \in 1..k : r[1] = c[i]
      /\ must \subseteq Rows
      /\ \A r \in must : Past(l, c, k, r) => r \in ToSet(l.got)
      /\ \A r \in ToSet(l.got) : r \in may /\ Past(l, c, k, r)
  BY <1>3, <1>4 DEF ScanAt
<1>9. \A s \in F : s >= l.slot
  BY <1>7, <1>8
<1>10. \A r \in must : r[1] = c[k] =>
         r[2] \in Nat /\ r[2] \in Alive(page[c[k]]) /\ r = <<r[1], r[2]>>
  <2>1. \A r \in Rows : r[2] \in Alive(page[r[1]]) /\ r = <<r[1], r[2]>>
    BY <1>4, RowsOn DEF Scans
  <2>2. Alive(page[c[k]]) \subseteq 1..Len(page[c[k]].slots)
    BY <1>4, <1>7, RowsOn DEF Scans
  <2>. QED
    BY <2>1, <2>2, <1>8
<1>11. PICK may2 : may2 = may \cup Rows
  OBVIOUS
<1>12. CASE done
  <2>1. m.pid = l.next /\ m.pc = AfterPage(m.pid)
    BY <1>1, <1>3, <1>5, <1>12 DEF Scans, Linking, Calls, IsLocals
  <2>2. l.slot = l.count
    BY <1>2, <1>12
  <2>3. \A r \in must : r[1] = c[k] => r[2] \in F \/ (l.pc = "slots" /\ r[2] < l.slot)
    <3>1. \A r \in must : r[1] = c[k] => r[2] = l.slot \/ r[2] < l.slot
      BY <2>2, <1>8, <1>10
    <3>. QED
      BY <3>1, <1>2, <1>3, <1>7, <1>10
  <2>4. ScanAt(m, must, may2, n, c, k + 1)
    BY <2>1, <2>3, <1>3, <1>4, <1>6, <1>7, <1>8, <1>9, <1>11, Advance DEF Scans
  <2>5. m.pc \in ScanPcs
    BY <2>1 DEF AfterPage, ScanPcs
  <2>. QED
    BY <2>4, <2>5, <1>1, <1>3, <1>4, <1>8, <1>11, ScansOn
<1>13. CASE ~done
  <2>1. /\ m.pid = l.pid /\ m.pc = "slots" /\ m.slot = l.slot + 1
        /\ m.count = l.count /\ m.next = l.next
    BY <1>1, <1>3, <1>5, <1>13 DEF Scans, Linking, Calls, IsLocals
  <2>2. m.slot \in 1..m.count
    <3>1. l.slot # l.count
      BY <1>2, <1>13
    <3>. QED
      BY <3>1, <2>1, <1>8
  <2>3. PICK g : g = l.got \o RowsAt(l.pid, F)
    OBVIOUS
  <2>4. Shows(g, l, c[k], F)
    BY <2>3, <1>3, <1>4, <1>7, <1>9, ShowMore DEF Scans
  <2>5. /\ g \in Seq(Pages \X Nat) /\ IsInjective(g)
        /\ \A r : r \in ToSet(g) <=> r \in ToSet(l.got) \/ \E s \in F : r = <<c[k], s>>
        /\ \A s \in F : <<c[k], s>> \in Rows
    BY <2>4 DEF Shows
  <2>6. \A r : Past(l, c, k, r) => \/ \E i \in 1..(k - 1) : r[1] = c[i]
                                   \/ r[1] = c[k] /\ r[2] < l.slot
    BY DEF Past
  <2>7. ASSUME NEW r \in must, Past(m, c, k, r) PROVE r \in ToSet(g)
    <3>1. CASE \E i \in 1..(k - 1) : r[1] = c[i]
      <4>1. Past(l, c, k, r)
        BY <3>1 DEF Past
      <4>. QED
        BY <4>1, <2>5, <1>8
    <3>2. CASE r[1] = c[k] /\ r[2] < m.slot
      <4>1. r[2] < l.slot \/ r[2] = l.slot
        BY <3>2, <2>1, <1>8, <1>10
      <4>2. CASE r[2] < l.slot
        <5>1. Past(l, c, k, r)
          BY <4>2, <3>2, <1>3 DEF Past
        <5>. QED
          BY <5>1, <2>5, <1>8
      <4>3. CASE r[2] = l.slot
        <5>1. r[2] \in F /\ r = <<c[k], r[2]>>
          BY <4>3, <3>2, <1>2, <1>7, <1>10
        <5>. QED
          BY <5>1, <2>5
      <4>. QED
        BY <4>1, <4>2, <4>3
    <3>. QED
      BY <3>1, <3>2, <2>7 DEF Past
  <2>8. ASSUME NEW r \in ToSet(g) PROVE r \in may2 /\ Past(m, c, k, r)
    <3>1. CASE r \in ToSet(l.got)
      <4>1. r \in may /\ Past(l, c, k, r)
        BY <3>1, <1>8
      <4>2. CASE \E i \in 1..(k - 1) : r[1] = c[i]
        BY <4>1, <4>2, <1>11 DEF Past
      <4>3. CASE l.pc = "slots" /\ r[1] = c[k] /\ r[2] < l.slot
        <5>1. r[2] < m.slot
          <6>1. r[2] \in Nat
            <7>1. l.got \in Seq(Pages \X Nat)
              BY <1>4 DEF ScanAt
            <7>. QED
              BY <7>1, <3>1 DEF ToSet
          <6>. QED
            BY <6>1, <4>3, <2>1, <1>8
        <5>. QED
          BY <5>1, <4>1, <4>3, <2>1, <1>11 DEF Past
      <4>. QED
        BY <4>1, <4>2, <4>3 DEF Past
    <3>2. CASE \E s \in F : r = <<c[k], s>>
      <4>1. r[1] = c[k] /\ r[2] = l.slot /\ r \in Rows
        BY <3>2, <2>5, <1>7
      <4>2. r[2] < m.slot
        BY <4>1, <2>1, <1>8
      <4>. QED
        BY <4>1, <4>2, <2>1, <1>11 DEF Past
    <3>. QED
      BY <3>1, <3>2, <2>5, <2>8
  <2>9. ScanAt(m, must, may2, n, c, k)
    <3>1. k \in 1..(n + 1) /\ k <= n /\ m.got = g
      BY <2>3, <1>6, <1>7
    <3>. QED
      BY <3>1, <2>1, <2>2, <2>5, <2>7, <2>8, <1>7, <1>8 DEF ScanAt
  <2>10. m.pc \in ScanPcs
    BY <2>1 DEF ScanPcs
  <2>. QED
    BY <2>9, <2>10, <1>1, <1>3, <1>4, <1>8, <1>11, ScansOn
<1>. QED
  BY <1>12, <1>13

\* A thread that is not in a scan before and after its step shows nothing.
LEMMA NoScanSound ==
  ASSUME Scans, NEW t \in Threads,
         \/ CallInsert(t) \/ TailLatch(t) \/ TailUnlatch(t) \/ TakeTail(t)
         \/ TestHint(t) \/ Walk(t) \/ HintOff(t) \/ HintOn(t)
         \/ AllocPage(t) \/ LinkPage(t) \/ SetLast(t) \/ WriteRow(t) \/ heap_delete(t)
         \/ ReturnScan(t)
  PROVE  ScanOf(t)'
<1>1. PICK l : l = th[t]
  OBVIOUS
<1>2. IsLocals(l) /\ (l.pc \notin ScanPcs => l.got = << >>)
  BY <1>1 DEF Scans, Linking, Calls, ScanOf
<1>3. Idle.pc \notin ScanPcs /\ Idle.got = << >>
  BY DEF Idle, ScanPcs
<1>4. ASSUME NEW m, th' = [th EXCEPT ![t] = m], m.pc \notin ScanPcs, m.got = << >>
      PROVE  ScanOf(t)'
  <2>1. th'[t] = m
    BY <1>4 DEF Scans, Linking, Calls
  <2>. QED
    BY <2>1, <1>4 DEF ScanOf
<1>5. ASSUME NEW x, NEW p, x \notin ScanPcs, l.pc \notin ScanPcs,
             Goto(t, x) \/ GotoPage(t, x, p)
      PROVE  ScanOf(t)'
  <2>. DEFINE a == [l EXCEPT !.pc = x]
              b == [l EXCEPT !.pc = x, !.pid = p]
  <2>1. a.pc = x /\ a.got = << >> /\ b.pc = x /\ b.got = << >>
    BY <1>2, <1>5 DEF IsLocals
  <2>2. th' = [th EXCEPT ![t] = a] \/ th' = [th EXCEPT ![t] = b]
    BY <1>1, <1>5 DEF Goto, GotoPage
  <2>. HIDE DEF a, b
  <2>. QED
    BY <2>1, <2>2, <1>4, <1>5
<1>6. CASE CallInsert(t) \/ TakeTail(t) \/ TestHint(t) \/ Walk(t) \/ HintOff(t)
           \/ HintOn(t) \/ AllocPage(t) \/ LinkPage(t) \/ SetLast(t) \/ heap_delete(t)
  <2>1. l.pc \notin ScanPcs
    BY <1>1, <1>6 DEF CallInsert, TakeTail, TestHint, Walk, HintOff, HintOn, AllocPage,
       LinkPage, SetLast, heap_delete, At, ScanPcs
  <2>2. \E x, p : x \notin ScanPcs /\ (Goto(t, x) \/ GotoPage(t, x, p))
    BY <1>6 DEF CallInsert, TakeTail, TestHint, Walk, HintOff, HintOn, AllocPage,
       LinkPage, SetLast, heap_delete, ScanPcs
  <2>. QED
    BY <2>1, <2>2, <1>5
<1>7. CASE TailLatch(t)
  <2>1. PICK r : th' = [th EXCEPT ![t] = [l EXCEPT !.pc = "tail_read", !.room = r]]
    <3>. DEFINE q == page[th[t].pid].free_slot_head # 0 \/ HasRoom(page[th[t].pid])
    <3>1. th' = [th EXCEPT ![t] = [l EXCEPT !.pc = "tail_read", !.room = q]]
      BY <1>1, <1>7 DEF TailLatch
    <3>. HIDE DEF q
    <3>. QED
      BY <3>1
  <2>. DEFINE m == [l EXCEPT !.pc = "tail_read", !.room = r]
  <2>2. l.pc = "tail"
    BY <1>1, <1>7 DEF TailLatch, At
  <2>3. m.pc = "tail_read" /\ m.got = << >>
    BY <2>2, <1>2 DEF IsLocals, ScanPcs
  <2>4. th' = [th EXCEPT ![t] = m]
    BY <2>1
  <2>. HIDE DEF m
  <2>. QED
    BY <2>3, <2>4, <1>4 DEF ScanPcs
<1>8. CASE TailUnlatch(t)
  <2>. DEFINE x == IF th[t].room THEN "take_tail" ELSE "test_hint"
              m == [Idle EXCEPT !.pc = x]
  <2>1. th' = [th EXCEPT ![t] = m]
    BY <1>8 DEF TailUnlatch
  <2>2. m.pc \notin ScanPcs /\ m.got = << >>
    BY DEF Idle, ScanPcs
  <2>. HIDE DEF m
  <2>. QED
    BY <2>1, <2>2, <1>4
<1>9. CASE WriteRow(t)
  <2>1. l.pc = "row"
    BY <1>1, <1>9 DEF WriteRow, At
  <2>2. GotoPage(t, "alloc", 0) \/ th' = [th EXCEPT ![t] = Idle]
    BY <1>9 DEF WriteRow
  <2>. QED
    BY <2>1, <2>2, <1>3, <1>4, <1>5 DEF ScanPcs
<1>10. CASE ReturnScan(t)
  BY <1>10, <1>3, <1>4 DEF ReturnScan
<1>. QED
  BY <1>6, <1>7, <1>8, <1>9, <1>10

LEMMA ScansStep ==
  ASSUME Scans, [Next]_vars, Linking'
  PROVE  Scans'
<1>1. CASE UNCHANGED vars
  <2>1. page' = page /\ th' = th /\ seen' = seen
    BY <1>1 DEF vars
  <2>2. ASSUME NEW t \in Threads PROVE ScanOf(t)'
    <3>1. CASE th[t].pc \notin ScanPcs
      BY <3>1, <2>1 DEF Scans, ScanOf
    <3>2. CASE th[t].pc \in ScanPcs
      <4>1. PICK l, must, may, n, c, k :
              /\ l = th[t] /\ must = seen[t].must /\ may = seen[t].may
              /\ Path(n, c) /\ ScanAt(l, must, may, n, c, k)
        BY <3>2 DEF Scans, ScanOf
      <4>2. Path(n, c)' /\ ScanAt(l, must, may, n, c, k)'
        BY <4>1, <2>1, SamePages
      <4>. QED
        BY <4>1, <4>2, <3>2, <2>1 DEF ScanOf
    <3>. QED
      BY <3>1, <3>2
  <2>. QED
    BY <2>2 DEF Scans
<1>2. CASE Next
  <2>1. ASSUME NEW t \in Threads, th'[t] = th[t] PROVE ScanOf(t)'
    BY <2>1, <1>2, ScanStays DEF Scans
  <2>2. CASE Reopen
    BY <2>1, <2>2 DEF Reopen, Scans
  <2>3. ASSUME NEW t \in Threads, Step(t) PROVE \A u \in Threads : ScanOf(u)'
    <3>1. ScanOf(t)'
      BY <2>3, <1>2, CallScanSound, ScanPageSound, ScanSlotsSound, ScanSlotSound,
         NoScanSound DEF Step
    <3>2. ASSUME NEW u \in Threads \ {t} PROVE th'[u] = th[u]
      <4>1. PICK m : th' = [th EXCEPT ![t] = m]
        BY <2>3 DEF Step, CallInsert, TailLatch, TailUnlatch, TakeTail, TestHint, Walk,
           HintOff, HintOn, AllocPage, LinkPage, SetLast, WriteRow, heap_delete, CallScan,
           ScanPage, ScanSlots, ScanSlot, ReturnScan, Goto, GotoPage
      <4>. QED
        BY <4>1 DEF Scans, Linking, Calls
    <3>. QED
      BY <3>1, <3>2, <2>1
  <2>. QED
    BY <2>2, <2>3, <1>2 DEF Next, Scans
<1>. QED
  BY <1>1, <1>2

\* A scan shows no place twice, every row that was there from its call to its
\* return, and none that never was, whatever is added, deleted and linked
\* meanwhile, and with or without memory for the snapshots (heap_scan).
THEOREM ScansSound == Spec => []HeapScanSound
<1>1. ASSUME Init PROVE Scans
  <2>1. Linking
    BY <1>1, InitLinks
  <2>2. \A t \in Threads : th[t].pc \notin ScanPcs /\ th[t].got = << >>
    BY <1>1 DEF Init, Idle, ScanPcs
  <2>. QED
    BY <2>1, <2>2 DEF Scans, ScanOf
<1>2. Scans => HeapScanSound
  <2>1. ASSUME Scans, NEW t \in Threads, At(t, "scanned")
        PROVE  /\ IsInjective(th[t].got)
               /\ seen[t].must \subseteq ToSet(th[t].got)
               /\ ToSet(th[t].got) \subseteq seen[t].may
    <3>1. th[t].pc = "scanned"
      BY <2>1 DEF At
    <3>2. PICK n, c, k : ScanAt(th[t], seen[t].must, seen[t].may, n, c, k)
      BY <2>1, <3>1 DEF Scans, ScanOf, ScanPcs
    <3>. QED
      BY <3>1, <3>2 DEF ScanAt
  <2>. QED
    BY <2>1 DEF HeapScanSound
<1>3. Scans /\ [Next]_vars /\ Linking' => Scans'
  BY ScansStep
<1>. QED
  BY <1>1, <1>2, <1>3, PagesLinked, PTL DEF Spec

-----------------------------------------------------------------------------
\* What TypeOK asks beyond what the rows, the path and the scans need.
Numbers(l) ==
  /\ l.pc \in {"idle", "tail", "tail_read", "take_tail", "test_hint", "walk", "hint_off",
               "alloc", "link", "set_last", "row", "hint_on", "scan", "slots", "scanned"}
  /\ l.pid \in 0..MaxPage /\ l.room \in BOOLEAN /\ l.next \in 0..MaxPage
  /\ l.slot \in Nat /\ l.count \in Nat

Types ==
  /\ \A p \in Pages : page[p].next \in 0..MaxPage
  /\ hint \in BOOLEAN /\ undefined \in BOOLEAN
  /\ header_lock \in Threads \cup {NoThread}
  /\ \A t \in Threads : header_lock = t => th[t].pc \in {"link", "set_last"}
  /\ readers \in [Pages -> SUBSET Threads]
  /\ \A t \in Threads : Numbers(th[t])

\* The page at which a call reads a successor is one.
LEMMA AtPage ==
  ASSUME Scans, NEW t \in Threads, th[t].pc \in {"walk", "row", "scan", "slots"}
  PROVE  th[t].pid \in Pages
<1>1. CASE th[t].pc \in {"walk", "row"}
  <2>1. PICK n, c : Path(n, c) /\ Joined(n, c)
    BY DEF Scans, Linking
  <2>. QED
    BY <1>1, <2>1, FirstOn DEF Joined
<1>2. CASE th[t].pc \in {"scan", "slots"}
  <2>1. PICK n, c, k : Path(n, c) /\ ScanAt(th[t], seen[t].must, seen[t].may, n, c, k)
    BY <1>2 DEF Scans, ScanOf, ScanPcs
  <2>. QED
    BY <1>2, <2>1, Shown
<1>. QED
  BY <1>1, <1>2

\* No step gives a page a successor that is none.
LEMMA SuccessorsTyped ==
  ASSUME Scans, Types, Linking', Next
  PROVE  \A p \in Pages : page'[p].next \in 0..MaxPage
<1>1. \A p \in Pages : page[p].next \in 0..MaxPage
  BY DEF Types
<1>2. ASSUME NEW p \in Pages, NEW pn, page' = [page EXCEPT ![p] = pn],
             pn.next \in 0..MaxPage
      PROVE  \A q \in Pages : page'[q].next \in 0..MaxPage
  <2>1. page'[p] = pn /\ \A q \in Pages \ {p} : page'[q] = page[q]
    BY <1>2 DEF Scans, Linking, AllPacked
  <2>. QED
    BY <2>1, <1>1, <1>2
<1>3. CASE page' = page
  BY <1>1, <1>3
<1>4. ASSUME NEW t \in Threads, AllocPage(t)
      PROVE  \A p \in Pages : page'[p].next \in 0..MaxPage
  <2>1. PICK p \in Unused : page' = [page EXCEPT ![p] = EmptyPage]
    BY <1>4 DEF AllocPage
  <2>2. p \in Pages /\ EmptyPage.next \in 0..MaxPage
    BY HeapAssumption DEF Unused, EmptyPage
  <2>. QED
    BY <2>1, <2>2, <1>2
<1>5. ASSUME NEW t \in Threads, LinkPage(t)
      PROVE  \A p \in Pages : page'[p].next \in 0..MaxPage
  <2>. DEFINE pn == [page[last] EXCEPT !.next = th[t].pid]
  <2>1. page' = [page EXCEPT ![last] = pn]
    BY <1>5 DEF LinkPage
  <2>2. last \in Pages
    BY FirstOn DEF Scans, Linking, Joined
  <2>3. pn.next = th[t].pid
    BY <2>2 DEF Scans, Linking, AllPacked, Packed, Sound, IsPage
  <2>4. th[t].pid \in 0..MaxPage
    BY DEF Types, Numbers
  <2>. HIDE DEF pn
  <2>. QED
    BY <2>1, <2>2, <2>3, <2>4, <1>2
<1>6. ASSUME NEW t \in Threads, WriteRow(t), page' # page
      PROVE  \A p \in Pages : page'[p].next \in 0..MaxPage
  <2>. DEFINE p == th[t].pid
  <2>1. /\ page[p].free_slot_head # 0 \/ HasRoom(page[p])
        /\ page' = [page EXCEPT ![p] = WithRow(page[p])] /\ th[t].pc = "row"
    BY <1>6 DEF WriteRow, At
  <2>2. p \in Pages /\ Packed(page[p])
    BY <2>1, AtPage DEF Scans, Linking, AllPacked
  <2>3. Kept(page[p], WithRow(page[p]))
    BY <2>1, <2>2, WithRowRows
  <2>. QED
    BY <2>1, <2>2, <2>3, <1>1, <1>2 DEF Kept
<1>7. ASSUME NEW t \in Threads, heap_delete(t)
      PROVE  \A p \in Pages : page'[p].next \in 0..MaxPage
  <2>1. PICK p \in Pages : \E s \in Alive(page[p]) :
                             page' = [page EXCEPT ![p] = Freed(page[p], s)]
    BY <1>7 DEF heap_delete
  <2>2. PICK s \in Alive(page[p]) : page' = [page EXCEPT ![p] = Freed(page[p], s)]
    BY <2>1
  <2>3. Kept(page[p], Freed(page[p], s))
    BY FreedRows DEF Scans, Linking, AllPacked
  <2>. QED
    BY <2>2, <2>3, <1>1, <1>2 DEF Kept
<1>8. ASSUME NEW t \in Threads, Quiet(t) \/ SetLast(t) PROVE page' = page
  BY <1>8 DEF Quiet, CallInsert, TailLatch, TailUnlatch, TakeTail, TestHint, Walk, HintOff,
     HintOn, CallScan, ScanPage, ScanSlots, ScanSlot, ReturnScan, shared, SetLast
<1>9. Reopen => page' = page
  BY DEF Reopen
<1>10. ASSUME NEW t \in Threads, Step(t)
       PROVE  \A p \in Pages : page'[p].next \in 0..MaxPage
  BY <1>3, <1>4, <1>5, <1>6, <1>7, <1>8, <1>10 DEF Step, Quiet
<1>. QED
  BY <1>3, <1>9, <1>10 DEF Next

\* The numbers of a call stay in their ranges.
LEMMA NumbersKept ==
  ASSUME Scans, Types, NEW t \in Threads, Step(t)
  PROVE  Numbers(th'[t]) /\ \A u \in Threads \ {t} : th'[u] = th[u]
<1>1. PICK l : l = th[t]
  OBVIOUS
<1>2. IsLocals(l) /\ Numbers(l) /\ last \in Pages /\ first \in Pages /\ MaxPage \in Nat
  BY <1>1, FirstOn, HeapAssumption DEF Scans, Linking, Calls, Types, Joined
<1>3. \A p \in Pages : p \in 0..MaxPage /\ page[p].next \in 0..MaxPage
  BY HeapAssumption DEF Types, Pages
<1>4. Numbers(Idle)
  BY <1>2 DEF Idle, Numbers
<1>5. ASSUME NEW m, th' = [th EXCEPT ![t] = m], Numbers(m)
      PROVE  Numbers(th'[t]) /\ \A u \in Threads \ {t} : th'[u] = th[u]
  BY <1>5 DEF Scans, Linking, Calls
<1>6. ASSUME NEW x \in {"tail", "take_tail", "test_hint", "walk", "hint_off", "alloc", "link",
                        "set_last", "row", "hint_on", "scan", "idle"},
             NEW p \in 0..MaxPage, Goto(t, x) \/ GotoPage(t, x, p)
      PROVE  Numbers(th'[t]) /\ \A u \in Threads \ {t} : th'[u] = th[u]
  <2>. DEFINE a == [l EXCEPT !.pc = x]
              b == [l EXCEPT !.pc = x, !.pid = p]
  <2>1. Numbers(a) /\ Numbers(b)
    BY <1>2 DEF IsLocals, Numbers
  <2>2. th' = [th EXCEPT ![t] = a] \/ th' = [th EXCEPT ![t] = b]
    BY <1>1, <1>6 DEF Goto, GotoPage
  <2>. HIDE DEF a, b
  <2>. QED
    BY <2>1, <2>2, <1>5
<1>7. CASE CallInsert(t) \/ TakeTail(t) \/ TestHint(t) \/ HintOff(t)
           \/ HintOn(t) \/ AllocPage(t) \/ LinkPage(t) \/ SetLast(t) \/ heap_delete(t)
           \/ CallScan(t)
  <2>1. 0 \in 0..MaxPage /\ \A p \in Unused : p \in 0..MaxPage
    BY <1>2, <1>3 DEF Unused
  <2>2. CASE CallInsert(t) \/ TakeTail(t) \/ CallScan(t)
    BY <2>2, <1>2, <1>3, <1>6 DEF CallInsert, TakeTail, CallScan
  <2>3. CASE TestHint(t) \/ HintOff(t) \/ HintOn(t)
    BY <2>1, <2>3, <1>2, <1>3, <1>6 DEF TestHint, HintOff, HintOn
  <2>4. CASE AllocPage(t)
    BY <2>1, <2>4, <1>6 DEF AllocPage
  <2>5. CASE LinkPage(t) \/ SetLast(t) \/ heap_delete(t)
    BY <2>1, <2>5, <1>6 DEF LinkPage, SetLast, heap_delete
  <2>. QED
    BY <2>2, <2>3, <2>4, <2>5, <1>7
<1>8. CASE Walk(t)
  <2>1. l.pid \in Pages
    BY <1>1, <1>8, AtPage DEF Walk, At
  <2>2. page[l.pid].next \in 0..MaxPage /\ 0 \in 0..MaxPage
    BY <2>1, <1>2, <1>3
  <2>. QED
    BY <2>2, <1>1, <1>6, <1>8 DEF Walk
<1>9. CASE TailLatch(t)
  <2>. DEFINE q == page[th[t].pid].free_slot_head # 0 \/ HasRoom(page[th[t].pid])
              m == [l EXCEPT !.pc = "tail_read", !.room = q]
  <2>1. th' = [th EXCEPT ![t] = m]
    BY <1>1, <1>9 DEF TailLatch
  <2>2. q \in BOOLEAN
    OBVIOUS
  <2>. HIDE DEF q
  <2>3. Numbers(m)
    BY <2>2, <1>2 DEF IsLocals, Numbers
  <2>. HIDE DEF m
  <2>. QED
    BY <2>1, <2>3, <1>5
<1>10. CASE TailUnlatch(t)
  <2>. DEFINE x == IF th[t].room THEN "take_tail" ELSE "test_hint"
              m == [Idle EXCEPT !.pc = x]
  <2>1. th' = [th EXCEPT ![t] = m]
    BY <1>10 DEF TailUnlatch
  <2>2. Numbers(m)
    BY <1>2 DEF Idle, Numbers
  <2>. HIDE DEF m
  <2>. QED
    BY <2>1, <2>2, <1>5
<1>11. CASE WriteRow(t)
  <2>1. GotoPage(t, "alloc", 0) \/ th' = [th EXCEPT ![t] = Idle]
    BY <1>11 DEF WriteRow
  <2>2. 0 \in 0..MaxPage
    BY <1>2
  <2>. QED
    BY <2>1, <2>2, <1>4, <1>5, <1>6
<1>12. CASE ReturnScan(t)
  BY <1>12, <1>4, <1>5 DEF ReturnScan
<1>13. CASE ScanPage(t)
  <2>. DEFINE g == l.got \o RowsAt(l.pid, Alive(page[l.pid]))
              p == page[l.pid].next
              m == [l EXCEPT !.got = g, !.pid = p, !.pc = AfterPage(p)]
  <2>1. th' = [th EXCEPT ![t] = m]
    BY <1>1, <1>13 DEF ScanPage
  <2>2. l.pid \in Pages
    BY <1>1, <1>13, AtPage DEF ScanPage, At
  <2>3. p \in 0..MaxPage /\ AfterPage(p) \in {"scan", "scanned"}
    BY <2>2, <1>3 DEF AfterPage
  <2>. HIDE DEF g, p
  <2>4. Numbers(m)
    BY <2>3, <1>2 DEF IsLocals, Numbers
  <2>. HIDE DEF m
  <2>. QED
    BY <2>1, <2>4, <1>5
<1>14. CASE ScanSlots(t)
  <2>. DEFINE p == page[l.pid].next
              k == Len(page[l.pid].slots)
              m == [l EXCEPT !.pc = "slots", !.slot = 1, !.count = k, !.next = p]
  <2>1. th' = [th EXCEPT ![t] = m]
    BY <1>1, <1>14 DEF ScanSlots
  <2>2. l.pid \in Pages
    BY <1>1, <1>14, AtPage DEF ScanSlots, At
  <2>3. p \in 0..MaxPage
    BY <2>2, <1>3
  <2>4. k \in Nat
    BY <2>2 DEF Scans, Linking, AllPacked, Packed, Sound, IsPage
  <2>. HIDE DEF p, k
  <2>5. Numbers(m)
    BY <2>3, <2>4, <1>2 DEF IsLocals, Numbers
  <2>. HIDE DEF m
  <2>. QED
    BY <2>1, <2>5, <1>5
<1>15. CASE ScanSlot(t)
  <2>1. PICK g, done : /\ g = l.got \o RowsAt(l.pid, {l.slot} \cap Alive(page[l.pid]))
                       /\ done = (l.slot = l.count)
    OBVIOUS
  <2>. DEFINE m == [l EXCEPT !.got = g,
                             !.slot = IF done THEN 0 ELSE l.slot + 1,
                             !.count = IF done THEN 0 ELSE l.count,
                             !.next = IF done THEN 0 ELSE l.next,
                             !.pid = IF done THEN l.next ELSE l.pid,
                             !.pc = IF done THEN AfterPage(l.next) ELSE l.pc]
  <2>2. th' = [th EXCEPT ![t] = m]
    BY <1>1, <1>15, <2>1 DEF ScanSlot
  <2>3. AfterPage(l.next) \in {"scan", "scanned"}
    BY DEF AfterPage
  <2>4. Numbers(m)
    BY <2>3, <1>2 DEF IsLocals, Numbers
  <2>. HIDE DEF m
  <2>. QED
    BY <2>2, <2>4, <1>5
<1>. QED
  BY <1>7, <1>8, <1>9, <1>10, <1>11, <1>12, <1>13, <1>14, <1>15 DEF Step

LEMMA TypesStep ==
  ASSUME Scans, Types, Linking', [Next]_vars
  PROVE  Types'
<1>1. CASE UNCHANGED vars
  BY <1>1 DEF vars, Types, Numbers
<1>2. CASE Next
  <2>1. \A p \in Pages : page'[p].next \in 0..MaxPage
    BY <1>2, SuccessorsTyped
  <2>2. CASE Reopen
    <3>1. hint' \in BOOLEAN /\ UNCHANGED <<header_lock, readers, th, undefined>>
      BY <2>2 DEF Reopen
    <3>. QED
      BY <2>1, <3>1 DEF Types, Numbers
  <2>3. ASSUME NEW t \in Threads, Step(t) PROVE Types'
    <3>1. Numbers(th'[t]) /\ \A u \in Threads \ {t} : th'[u] = th[u]
      BY <2>3, NumbersKept
    <3>2. hint' \in BOOLEAN /\ undefined' \in BOOLEAN
      BY <2>3 DEF Types, Step, CallInsert, TailLatch, TailUnlatch, TakeTail, TestHint, Walk,
         HintOff, HintOn, AllocPage, LinkPage, SetLast, WriteRow, heap_delete, CallScan,
         ScanPage, ScanSlots, ScanSlot, ReturnScan, shared
    <3>3. readers' \in [Pages -> SUBSET Threads]
      <4>1. CASE TailLatch(t) \/ TailUnlatch(t)
        BY <4>1 DEF Types, TailLatch, TailUnlatch
      <4>2. CASE ~(TailLatch(t) \/ TailUnlatch(t))
        BY <4>2, <2>3 DEF Types, Step, CallInsert, TakeTail, TestHint, Walk,
           HintOff, HintOn, AllocPage, LinkPage, SetLast, WriteRow, heap_delete, CallScan,
           ScanPage, ScanSlots, ScanSlot, ReturnScan
      <4>. QED
        BY <4>1, <4>2
    <3>4. /\ header_lock' \in Threads \cup {NoThread}
          /\ \A u \in Threads : header_lock' = u => th'[u].pc \in {"link", "set_last"}
      <4>1. CASE AllocPage(t)
        <5>1. header_lock' = t
          BY <4>1 DEF AllocPage
        <5>2. PICK p : GotoPage(t, "link", p)
          BY <4>1 DEF AllocPage
        <5>3. th'[t].pc = "link"
          BY <5>2, Gone DEF Scans, Linking
        <5>. QED
          BY <5>1, <5>3
      <4>2. CASE SetLast(t)
        BY <4>2, HeapAssumption DEF SetLast
      <4>3. CASE LinkPage(t)
        <5>1. header_lock' = header_lock /\ Goto(t, "set_last")
          BY <4>3 DEF LinkPage
        <5>2. th'[t].pc = "set_last"
          BY <5>1, Gone DEF Scans, Linking
        <5>. QED
          BY <5>1, <5>2, <3>1 DEF Types
      <4>4. CASE ~(AllocPage(t) \/ SetLast(t) \/ LinkPage(t))
        <5>1. header_lock' = header_lock /\ th[t].pc \notin {"link", "set_last"}
          BY <4>4, <2>3 DEF Step, CallInsert, TailLatch, TailUnlatch, TakeTail, TestHint,
             Walk, HintOff, HintOn, WriteRow, heap_delete, CallScan,
             ScanPage, ScanSlots, ScanSlot, ReturnScan, shared, At
        <5>. QED
          BY <5>1, <3>1 DEF Types
      <4>. QED
        BY <4>1, <4>2, <4>3, <4>4
    <3>. QED
      BY <2>1, <3>1, <3>2, <3>3, <3>4 DEF Types
  <2>. QED
    BY <2>2, <2>3, <1>2 DEF Next
<1>. QED
  BY <1>1, <1>2

\* Every variable has its type in every reachable state, and header_lock is held
\* by the thread that extends the chain (find_heap_page, heap_scan).
THEOREM TypesKept == Spec => []TypeOK
<1>1. ASSUME Init PROVE Scans /\ Types
  <2>1. Linking
    BY <1>1, InitLinks
  <2>2. \A t \in Threads : th[t] = Idle
    BY <1>1 DEF Init
  <2>3. Scans
    BY <2>1, <2>2 DEF Scans, ScanOf, Idle, ScanPcs
  <2>4. Numbers(Idle)
    BY HeapAssumption DEF Idle, Numbers
  <2>5. EmptyPage.next = 0 /\ NoPage.next = 0 /\ 0 \in 0..MaxPage
    BY HeapAssumption DEF EmptyPage, NoPage
  <2>6. \A p \in Pages : page[p].next \in 0..MaxPage
    BY <2>5, <1>1 DEF Init
  <2>7. header_lock = NoThread /\ hint = FALSE /\ undefined = FALSE
        /\ readers = [p \in Pages |-> {}] /\ NoThread \notin Threads
    BY <1>1, HeapAssumption DEF Init
  <2>8. Types
    BY <2>2, <2>4, <2>6, <2>7 DEF Types
  <2>. QED
    BY <2>3, <2>8
<1>2. ASSUME Scans, Types PROVE TypeOK
  <2>1. PICK n, c : Path(n, c) /\ Joined(n, c)
    BY <1>2 DEF Scans, Linking
  <2>2. last \in Pages /\ page[last].type = "heap"
    BY <2>1, FirstOn DEF Joined, On, Path
  <2>3. ASSUME NEW p \in Pages PROVE page[p] \in PageType
    <3>1. IsPage(page[p]) /\ page[p].next \in 0..MaxPage
      BY <1>2 DEF Scans, Linking, AllPacked, Packed, Sound, Types
    <3>. QED
      BY <3>1 DEF IsPage, PageType
  <2>4. page \in [Pages -> PageType]
    BY <2>3, <1>2 DEF Scans, Linking, AllPacked
  <2>5. ASSUME NEW t \in Threads PROVE th[t] \in Locals
    <3>1. IsLocals(th[t]) /\ Numbers(th[t])
      BY <1>2 DEF Scans, Linking, Calls, Types
    <3>2. th[t].got \in Seq(Pages \X Nat)
      <4>1. CASE th[t].pc \in ScanPcs
        BY <4>1, <1>2 DEF Scans, ScanOf, ScanAt
      <4>2. CASE th[t].pc \notin ScanPcs
        <5>1. th[t].got = << >>
          BY <4>2, <1>2 DEF Scans, ScanOf
        <5>2. << >> \in Seq(Pages \X Nat)
          OBVIOUS
        <5>. QED
          BY <5>1, <5>2
      <4>. QED
        BY <4>1, <4>2
    <3>. QED
      BY <3>1, <3>2 DEF IsLocals, Numbers, Locals
  <2>6. th \in [Threads -> Locals]
    BY <2>5, <1>2 DEF Scans, Linking, Calls
  <2>. QED
    BY <2>2, <2>4, <2>6, <1>2 DEF TypeOK, Types
<1>3. Scans /\ Types /\ [Next]_vars /\ Linking' => (Scans /\ Types)'
  BY ScansStep, TypesStep
<1>. QED
  BY <1>1, <1>2, <1>3, PagesLinked, PTL DEF Spec
=============================================================================
