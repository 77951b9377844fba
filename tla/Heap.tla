-------------------------------- MODULE Heap --------------------------------
(***************************************************************************)
(* The heap table of MiniDB (storage/table.c): rows in the slots of pages, *)
(* deleted slots in a chain per page, the pages in a chain of their own    *)
(* with its tail in last_heap_page_id, and the hint that says whether the  *)
(* chain is worth a walk for deleted slots.                                *)
(*                                                                         *)
(* A stretch under a page latch that reads no shared variable twice is one *)
(* action.  The tail is read under its latch in two, TailLatch and         *)
(* TailUnlatch: last_heap_page_id is evaluated for each of them, and may   *)
(* have changed in between.  A thread that unlatches a page it has not     *)
(* latched makes the behaviour undefined: nothing is specified after that. *)
(***************************************************************************)
EXTENDS Integers, FiniteSets, Sequences, SequencesExt

CONSTANTS
  Threads,   \* the threads that use the heap
  NoThread,
  Workload,  \* Workload[t]: the operations thread t may call
  MaxPage,   \* bound on the pages the pager has for the heap
  PageSize,  \* page_size
  RowSize    \* row_size

HeaderSize == 16  \* sizeof(heap_page_header_t)
SlotSize == 8     \* sizeof(slot_t)
Need == SlotSize + RowSize

\* A conversion to uint16_t.
U16(n) == n % 65536

\* The code tests nowhere that a row fits into an empty page, nor that the size
\* of a page, which is that of the operating system, fits into 16 bits: where it
\* does not, no page has room and heap_insert allocates pages for ever.
ASSUME HeapAssumption ==
  /\ IsFiniteSet(Threads) /\ NoThread \notin Threads
  /\ Workload \in [Threads -> SUBSET {"insert", "delete", "scan"}]
  /\ MaxPage \in Nat \ {0}
  /\ PageSize \in Nat /\ RowSize \in Nat \ {0}
  /\ HeaderSize + Need <= PageSize /\ PageSize < 65536

VARIABLES
  page,         \* page[p]: the page, as heap pages are laid out
  last,         \* pager->last_heap_page_id
  hint,         \* pager->heap_may_have_free_slots
  header_lock,  \* its owner
  readers,      \* readers[p]: the threads that have the read latch of p
  th,           \* th[t]: the locals of the call t is in
  undefined,    \* whether a latch was released by a thread without it
  seen          \* history: the rows there throughout and at some time of a scan

shared == <<page, last, hint, header_lock>>
vars == <<page, last, hint, header_lock, readers, th, undefined, seen>>

Pages == 1..MaxPage
first == 1  \* header.first_heap_page_id

\* Slots are counted from 1, and 0 is SLOT_NONE, the end of a chain and no page.
Slot == [offset : Int, status : {"ALIVE", "FREE"}, next_free : Nat]
PageType ==
  [type : {"other", "heap"}, next : 0..MaxPage, slots : Seq(Slot),
   free_slot_head : Nat, free_space_offset : Nat]

EmptyPage ==
  [type |-> "heap", next |-> 0, slots |-> << >>, free_slot_head |-> 0,
   free_space_offset |-> 0]
NoPage == [EmptyPage EXCEPT !.type = "other"]

Unused == {p \in Pages : page[p].type = "other"}

\* pid: the page the call is at.  room: what the tail's header said.  slot:
\* the slot a scan without a snapshot is at, of the count it has read.
Idle ==
  [pc |-> "idle", pid |-> 0, room |-> FALSE, next |-> 0, slot |-> 0, count |-> 0,
   got |-> << >>]
At(t, where) == th[t].pc = where /\ ~undefined
Goto(t, where) == th' = [th EXCEPT ![t].pc = where]
GotoPage(t, where, p) == th' = [th EXCEPT ![t].pc = where, ![t].pid = p]

-----------------------------------------------------------------------------
slots_end(n) == HeaderSize + n * SlotSize

available_space(pg) ==
  LET front == U16(slots_end(Len(pg.slots)))
      back == U16(PageSize - pg.free_space_offset)
  IN IF back <= front THEN 0 ELSE back - front

\* Mutant: the slot is forgotten, only the row has to fit.
HasRoom_RowOnly(pg) == available_space(pg) >= U16(RowSize)

HasRoom(pg) == available_space(pg) >= U16(Need)

Alive(pg) == {s \in DOMAIN pg.slots : pg.slots[s].status = "ALIVE"}
FreeSlots(pg) == {s \in DOMAIN pg.slots : pg.slots[s].status = "FREE"}

\* Mutant: the slot taken from the chain stays its head.
Reuse_KeepsHead(pg) ==
  [pg EXCEPT !.slots[pg.free_slot_head] =
     [@ EXCEPT !.status = "ALIVE", !.next_free = 0]]

\* The head of the chain of free slots gets the row, at the same offset.
Reuse(pg) ==
  LET s == pg.free_slot_head IN
  [pg EXCEPT !.free_slot_head = pg.slots[s].next_free,
             !.slots[s] = [@ EXCEPT !.status = "ALIVE", !.next_free = 0]]

\* A new slot behind the directory, its row in front of the other rows.
Extend(pg) ==
  [pg EXCEPT
     !.slots = Append(@, [offset |-> U16(PageSize - pg.free_space_offset - RowSize),
                          status |-> "ALIVE", next_free |-> 0]),
     !.free_space_offset = U16(@ + RowSize)]

WithRow(pg) == IF pg.free_slot_head # 0 THEN Reuse(pg) ELSE Extend(pg)

Freed(pg, s) ==
  [pg EXCEPT !.slots[s] = [@ EXCEPT !.status = "FREE", !.next_free = pg.free_slot_head],
             !.free_slot_head = s]

-----------------------------------------------------------------------------
\* heap_insert and find_heap_page.  Bound: no call begins when the file has no
\* page left.
Inserting == {t \in Threads : th[t].pc \notin {"idle", "hint_on", "scan", "slots", "scanned"}}
CallInsert(t) ==
  /\ At(t, "idle")
  /\ "insert" \in Workload[t]
  /\ Unused # {}
  /\ GotoPage(t, "tail", last)
  /\ UNCHANGED <<shared, readers, undefined>>

TailLatch(t) ==
  /\ At(t, "tail")
  /\ readers' = [readers EXCEPT ![th[t].pid] = @ \cup {t}]
  /\ LET pg == page[th[t].pid] IN
       th' = [th EXCEPT ![t].pc = "tail_read",
                        ![t].room = pg.free_slot_head # 0 \/ HasRoom(pg)]
  /\ UNCHANGED <<shared, undefined>>

\* pager_unlatch_r(last_heap_page_id): not always the page that was latched.
TailUnlatch(t) ==
  /\ At(t, "tail_read")
  /\ IF t \in readers[last]
     THEN /\ readers' = [readers EXCEPT ![last] = @ \ {t}]
          /\ UNCHANGED undefined
     ELSE undefined' = TRUE /\ UNCHANGED readers
  /\ th' = [th EXCEPT ![t] =
       [Idle EXCEPT !.pc = IF th[t].room THEN "take_tail" ELSE "test_hint"]]
  /\ UNCHANGED shared

\* return last_heap_page_id, read once more.
TakeTail(t) ==
  /\ At(t, "take_tail")
  /\ GotoPage(t, "row", last)
  /\ UNCHANGED <<shared, readers, undefined>>

TestHint(t) ==
  /\ At(t, "test_hint")
  /\ IF hint THEN GotoPage(t, "walk", first) ELSE Goto(t, "alloc")
  /\ UNCHANGED <<shared, readers, undefined>>

\* One page of the chain, under its read latch.
Walk(t) ==
  /\ At(t, "walk")
  /\ LET pg == page[th[t].pid] IN
       IF pg.free_slot_head # 0 THEN Goto(t, "row")
       ELSE IF pg.next # 0 THEN GotoPage(t, "walk", pg.next)
       ELSE Goto(t, "hint_off")
  /\ UNCHANGED <<shared, readers, undefined>>

HintOff(t) ==
  /\ At(t, "hint_off")
  /\ hint' = FALSE
  /\ GotoPage(t, "alloc", 0)
  /\ UNCHANGED <<page, last, header_lock, readers, undefined>>

\* Mutant: the chain is extended without waiting for header_lock.
AllocPage_NoWait(t) ==
  /\ At(t, "alloc")
  /\ header_lock' = t
  /\ \E p \in Unused :
       /\ page' = [page EXCEPT ![p] = EmptyPage]
       /\ GotoPage(t, "link", p)
  /\ UNCHANGED <<last, hint, readers, undefined>>

\* header_lock, pager_alloc_page, and the header of a page nobody else knows.
\* Unused pages are interchangeable.  Without one, at the bound of the model, the
\* thread stays where it is and holds nothing.
AllocPage(t) ==
  /\ At(t, "alloc")
  /\ header_lock = NoThread
  /\ header_lock' = t
  /\ \E p \in Unused :
       /\ \A q \in Unused : p <= q
       /\ page' = [page EXCEPT ![p] = EmptyPage]
       /\ GotoPage(t, "link", p)
  /\ UNCHANGED <<last, hint, readers, undefined>>

\* The old tail, under its write latch.
LinkPage(t) ==
  /\ At(t, "link")
  /\ readers[last] = {}
  /\ page' = [page EXCEPT ![last].next = th[t].pid]
  /\ Goto(t, "set_last")
  /\ UNCHANGED <<last, hint, header_lock, readers, undefined>>

\* Mutant: header_lock is not given back.
SetLast_KeepsLock(t) ==
  /\ At(t, "set_last")
  /\ last' = th[t].pid
  /\ Goto(t, "row")
  /\ UNCHANGED <<page, hint, header_lock, readers, undefined>>

SetLast(t) ==
  /\ At(t, "set_last")
  /\ last' = th[t].pid
  /\ header_lock' = NoThread
  /\ Goto(t, "row")
  /\ UNCHANGED <<page, hint, readers, undefined>>

\* Mutant: the latch of the full page is kept while the chain is extended.
WriteRow_KeepsLatch(t) ==
  /\ At(t, "row")
  /\ LET p == th[t].pid IN
       /\ readers[p] = {}
       /\ IF page[p].free_slot_head # 0 \/ HasRoom(page[p])
          THEN /\ page' = [page EXCEPT ![p] = WithRow(@)]
               /\ th' = [th EXCEPT ![t] = Idle]
               /\ UNCHANGED readers
          ELSE /\ GotoPage(t, "alloc", 0)
               /\ readers' = [readers EXCEPT ![p] = {t}]
               /\ UNCHANGED page
  /\ UNCHANGED <<last, hint, header_lock, undefined>>

\* retry_insert: under the write latch, the row or one more page.
WriteRow(t) ==
  /\ At(t, "row")
  /\ LET p == th[t].pid IN
       /\ readers[p] = {}
       /\ IF page[p].free_slot_head # 0 \/ HasRoom(page[p])
          THEN /\ page' = [page EXCEPT ![p] = WithRow(@)]
               /\ th' = [th EXCEPT ![t] = Idle]
          ELSE GotoPage(t, "alloc", 0) /\ UNCHANGED page
  /\ UNCHANGED <<last, hint, header_lock, readers, undefined>>

-----------------------------------------------------------------------------
\* Mutant: a slot that is free already is put into the chain again.
heap_delete_Twice(t) ==
  /\ At(t, "idle")
  /\ "delete" \in Workload[t]
  /\ \E p \in Pages \ Unused :
       /\ readers[p] = {}
       /\ \E s \in DOMAIN page[p].slots : page' = [page EXCEPT ![p] = Freed(@, s)]
  /\ Goto(t, "hint_on")
  /\ UNCHANGED <<last, hint, header_lock, readers, undefined>>

\* heap_delete, under the write latch; a slot without a row returns -1 and
\* changes nothing.
heap_delete(t) ==
  /\ At(t, "idle")
  /\ "delete" \in Workload[t]
  /\ \E p \in Pages \ Unused :
       /\ readers[p] = {}
       /\ \E s \in Alive(page[p]) : page' = [page EXCEPT ![p] = Freed(@, s)]
  /\ Goto(t, "hint_on")
  /\ UNCHANGED <<last, hint, header_lock, readers, undefined>>

\* The hint, after the latch.
HintOn(t) ==
  /\ At(t, "hint_on")
  /\ hint' = TRUE
  /\ Goto(t, "idle")
  /\ UNCHANGED <<page, last, header_lock, readers, undefined>>

-----------------------------------------------------------------------------
\* heap_scan.
CallScan(t) ==
  /\ At(t, "idle")
  /\ "scan" \in Workload[t]
  /\ GotoPage(t, "scan", first)
  /\ UNCHANGED <<shared, readers, undefined>>

\* The i-th slot of S, and the places of the rows in the slots S of page p, in the
\* order of the slots.
Nth(S, i) == CHOOSE s \in S : Cardinality({r \in S : r <= s}) = i
RowsAt(p, S) == [i \in 1..Cardinality(S) |-> <<p, Nth(S, i)>>]

AfterPage(n) == IF n # 0 THEN "scan" ELSE "scanned"

\* Mutant: the scan goes on with the page after the next one.
ScanPage_Skips(t) ==
  /\ At(t, "scan")
  /\ LET c == th[t]
         pg == page[c.pid]
         next == IF pg.next # 0 THEN page[pg.next].next ELSE 0
     IN /\ pg.slots = << >> \/ Alive(pg) # {}
        /\ th' = [th EXCEPT ![t] =
             [c EXCEPT !.got = @ \o RowsAt(c.pid, Alive(pg)),
                       !.pid = next,
                       !.pc = AfterPage(next)]]
  /\ UNCHANGED <<shared, readers, undefined>>

\* A page under its read latch, with a snapshot of its rows; or a page without
\* slots.
ScanPage(t) ==
  /\ At(t, "scan")
  /\ LET c == th[t]
         pg == page[c.pid]
     IN /\ pg.slots = << >> \/ Alive(pg) # {}
        /\ th' = [th EXCEPT ![t] =
             [c EXCEPT !.got = @ \o RowsAt(c.pid, Alive(pg)),
                       !.pid = pg.next,
                       !.pc = AfterPage(pg.next)]]
  /\ UNCHANGED <<shared, readers, undefined>>

\* No snapshot: malloc fails, or there is no row to take one of.  The slots
\* counted now are read one by one.
ScanSlots(t) ==
  /\ At(t, "scan")
  /\ LET pg == page[th[t].pid] IN
       /\ pg.slots # << >>
       /\ th' = [th EXCEPT ![t] =
            [@ EXCEPT !.pc = "slots", !.slot = 1, !.count = Len(pg.slots),
                      !.next = pg.next]]
  /\ UNCHANGED <<shared, readers, undefined>>

\* One slot under the read latch, and the next page after the last slot.
ScanSlot(t) ==
  /\ At(t, "slots")
  /\ LET c == th[t]
         found == {c.slot} \cap Alive(page[c.pid])
         done == c.slot = c.count
     IN th' = [th EXCEPT ![t] =
          [c EXCEPT !.got = @ \o RowsAt(c.pid, found),
                    !.slot = IF done THEN 0 ELSE @ + 1,
                    !.count = IF done THEN 0 ELSE @,
                    !.next = IF done THEN 0 ELSE @,
                    !.pid = IF done THEN c.next ELSE @,
                    !.pc = IF done THEN AfterPage(c.next) ELSE @]]
  /\ UNCHANGED <<shared, readers, undefined>>

ReturnScan(t) ==
  /\ At(t, "scanned")
  /\ th' = [th EXCEPT ![t] = Idle]
  /\ UNCHANGED <<shared, readers, undefined>>

-----------------------------------------------------------------------------
\* The pages met from first on.
Chain ==
  LET f[n \in 0..MaxPage] ==
        IF n = 0 THEN first ELSE IF f[n - 1] = 0 THEN 0 ELSE page[f[n - 1]].next
  IN f
Linked == {Chain[n] : n \in 0..MaxPage} \ {0}
Rows == UNION {{p} \X Alive(page[p]) : p \in Linked}

\* pager_close and pager_open between statements: the walk along the chain.
Reopen ==
  /\ ~undefined
  /\ \A t \in Threads : th[t].pc = "idle"
  /\ last' \in {p \in Linked : page[p].next = 0}
  /\ hint' = (\E p \in Linked : page[p].free_slot_head # 0)
  /\ UNCHANGED <<page, header_lock, readers, th, undefined>>

\* pager_open(create).
Init ==
  /\ page = [p \in Pages |-> IF p = first THEN EmptyPage ELSE NoPage]
  /\ last = first
  /\ hint = FALSE
  /\ header_lock = NoThread
  /\ readers = [p \in Pages |-> {}]
  /\ th = [t \in Threads |-> Idle]
  /\ undefined = FALSE
  /\ seen = [t \in Threads |-> [must |-> {}, may |-> {}]]

Step(t) ==
  \/ CallInsert(t) \/ TailLatch(t) \/ TailUnlatch(t) \/ TakeTail(t)
  \/ TestHint(t) \/ Walk(t) \/ HintOff(t)
  \/ AllocPage(t) \/ LinkPage(t) \/ SetLast(t) \/ WriteRow(t)
  \/ heap_delete(t) \/ HintOn(t)
  \/ CallScan(t) \/ ScanPage(t) \/ ScanSlots(t) \/ ScanSlot(t) \/ ReturnScan(t)

\* What a scan of t will have to show and may show, after this step.
Scanning(t) == th'[t].pc \in {"scan", "slots", "scanned"}
Observed(t) ==
  IF ~Scanning(t) THEN [must |-> {}, may |-> {}]
  ELSE IF th[t].pc = "idle" THEN [must |-> Rows, may |-> Rows]
  ELSE [must |-> seen[t].must \cap Rows', may |-> seen[t].may \cup Rows']

Next ==
  /\ Reopen \/ \E t \in Threads : Step(t)
  /\ seen' = [t \in Threads |-> Observed(t)]

Spec == Init /\ [][Next]_vars

\* Every thread that is in a call runs; latches and header_lock are held for a
\* bounded time by each, so one that is free again and again is got.
InCall(t) ==
  \/ TailLatch(t) \/ TailUnlatch(t) \/ TakeTail(t) \/ TestHint(t) \/ Walk(t)
  \/ HintOff(t) \/ AllocPage(t) \/ LinkPage(t) \/ SetLast(t) \/ WriteRow(t)
  \/ HintOn(t) \/ ScanPage(t) \/ ScanSlots(t) \/ ScanSlot(t) \/ ReturnScan(t)

Fairness ==
  \A t \in Threads :
    SF_vars(InCall(t) /\ seen' = [u \in Threads |-> Observed(u)])

FairSpec == Spec /\ Fairness
-----------------------------------------------------------------------------
Locals ==
  [pc : {"idle", "tail", "tail_read", "take_tail", "test_hint", "walk", "hint_off",
         "alloc", "link", "set_last", "row", "hint_on", "scan", "slots", "scanned"},
   pid : 0..MaxPage, room : BOOLEAN, next : 0..MaxPage, slot : Nat, count : Nat,
   got : Seq(Pages \X Nat)]

\* Every variable has its type, the tail is a heap page, and header_lock is held
\* by the thread that extends the chain.
TypeOK ==
  /\ page \in [Pages -> PageType]
  /\ last \in Pages /\ page[last].type = "heap"
  /\ hint \in BOOLEAN
  /\ header_lock \in Threads \cup {NoThread}
  /\ \A t \in Threads : header_lock = t => th[t].pc \in {"link", "set_last"}
  /\ readers \in [Pages -> SUBSET Threads]
  /\ th \in [Threads -> Locals]
  /\ undefined \in BOOLEAN

\* The rows of a page lie behind its slot directory, inside the page and apart
\* from each other, however slots were deleted, reused and added (the offsets
\* of heap_insert, the tests with available_space, the one after the latch).
RowsApart ==
  \A p \in Pages :
    LET ss == page[p].slots IN
    /\ slots_end(Len(ss)) <= PageSize - page[p].free_space_offset
    /\ \A i \in DOMAIN ss :
         /\ PageSize - page[p].free_space_offset <= ss[i].offset
         /\ ss[i].offset + RowSize <= PageSize
    /\ \A i, j \in DOMAIN ss : i < j => ss[j].offset + RowSize <= ss[i].offset

\* From free_slot_head on, next_free meets every deleted slot of the page once
\* and no slot with a row: a slot is never given to two rows, and none is lost
\* (heap_delete and the reuse in heap_insert).
FreeSlotsExact ==
  \A p \in Pages :
    LET pg == page[p]
        free == FreeSlots(pg)
    IN \E n \in 0..Len(pg.slots) : \E f \in [1..n -> free] :
         /\ free = {f[i] : i \in 1..n}
         /\ \A i, j \in 1..n : f[i] = f[j] => i = j
         /\ pg.free_slot_head = IF n = 0 THEN 0 ELSE f[1]
         /\ \A i \in 1..n : pg.slots[f[i]].next_free = IF i = n THEN 0 ELSE f[i + 1]

\* A scan shows no place twice, every row that was there from its call to its
\* return, and none that never was, with a snapshot of a page and slot by slot,
\* without memory or where every row of the page was deleted, while rows are
\* added and deleted, slots used again and the chain grows (heap_scan).
HeapScanSound ==
  \A t \in Threads :
    At(t, "scanned") =>
      /\ IsInjective(th[t].got)
      /\ seen[t].must \subseteq ToSet(th[t].got)
      /\ ToSet(th[t].got) \subseteq seen[t].may

\* A thread has the read latch of a page, and its pin, only until the
\* pager_unlatch_r that goes with its pager_get_page_rlatch (find_heap_page).
LatchesReturned ==
  \A p \in Pages : \A t \in readers[p] : th[t].pc = "tail_read"

\* Every call returns, but for an insertion that needs a page when the file has
\* no more, at the bound of the model.  An insertion whose page is filled by
\* others before it latches it, the page it has just added included, asks for one
\* page more each time (retry_insert): it may be overtaken as long as the file can
\* grow, and no longer.  The latches and header_lock are taken in an order
\* without a cycle, and a scan is kept by nobody.
CallsReturn ==
  \/ \A t \in Threads :
       th[t].pc # "idle" ~>
         th[t].pc = "idle" \/ (th[t].pc = "alloc" /\ Unused = {})
  \/ <>undefined

\* The rows on the pages a scan can reach, each in a place of its own: no two
\* extensions of the chain lose a page, and a row is deleted only by heap_delete.
Store == INSTANCE RowStore WITH
  Places <- Pages \X (1..((PageSize - HeaderSize) \div Need)),
  rows <- Rows,
  inserting <- Inserting

ImplementsRowStore == Store!Spec
=============================================================================
