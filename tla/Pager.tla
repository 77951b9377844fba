------------------------------- MODULE Pager -------------------------------
(***************************************************************************)
(* The pager of MiniDB (storage/pager.c): a fixed pool of frames over the  *)
(* database file, LRU replacement among the frames no one has pinned,      *)
(* write-back of dirty frames at eviction and at the high watermark, the   *)
(* list of free pages threaded through the pages themselves.               *)
(*                                                                         *)
(* pager_mutex makes each operation one action; a page latch is taken in a *)
(* step of its own, after the pin and outside the mutex.                   *)
(*                                                                         *)
(* The callers do what the heap and the B+ tree do.  They pin pages with a *)
(* latch and without one, a page they have latched a second time too; they *)
(* write under a write latch or under a pin alone, whoever else has the    *)
(* latch; and they mark a page dirty before they let go of it.  They wait  *)
(* for latches of pages that are freed and used again meanwhile.  The      *)
(* model ends where a page that is latched loses its pin, to an unpin too  *)
(* many of the B+ tree, and where no frame is left.                        *)
(***************************************************************************)
EXTENDS Integers, FiniteSets, Sequences, SequencesExt

CONSTANTS
  Threads,         \* the threads that use pages
  Frames,          \* the frames of the pool (MAX_FRAMES of them)
  NoFrame,         \* no frame: the pointer of a thread that has none
  MaxPage,         \* bound on the page numbers the file may grow to
  Words,           \* bound on what the callers write into pages
  MaxPins,         \* bound on the pins at a time
  HighWatermark,   \* dirty_high_watermark
  LowWatermark     \* dirty_low_watermark

Page == 1..MaxPage

ASSUME PagerAssumption ==
  /\ IsFiniteSet(Threads) /\ IsFiniteSet(Frames)
  /\ NoFrame \notin Frames
  /\ MaxPage \in Nat /\ MaxPage >= 2
  /\ Words \subseteq Nat
  /\ MaxPins \in Nat
  /\ HighWatermark \in Nat \ {0} /\ LowWatermark \in 0..HighWatermark

\* A page in use holds a word; a free page holds the number of the next one.
Content == [type : {"used", "free"}, word : Nat]
Zeroed == [type |-> "used", word |-> 0]

\* A frame with page 0 is not valid.
Frame == [page : 0..MaxPage, dirty : BOOLEAN, pin : Nat, data : Content]
EmptyFrame == [page |-> 0, dirty |-> FALSE, pin |-> 0, data |-> Zeroed]

VARIABLES
  frame,        \* the frames
  lru,          \* the frames in the order of their used_tick, oldest first
  disk,         \* the pages in the file
  header,       \* pager->header in memory: free_page_head and next_page_id
  live,         \* history: the pages allocated and not freed since
  hold,         \* hold[u][p]: what use u has of page p
  at,           \* at[u][p]: the frame the pointer of u to page p points into
  status        \* right; slipped: a pin has been given back once too often;
                \* crashed: a caller has used the NULL of pager_get_page

vars == <<frame, lru, disk, header, live, hold, at, status>>

\* A thread uses a page under its latch (pager_get_page_rlatch and _wlatch), by
\* a pin of its own (pager_get_page), or both.
Use == Threads \X {"latch", "pin"}

\* want_r and want_w: pinned, waiting for the latch.  wrote, pinned_wrote: the
\* bytes are changed, pager_mark_dirty is still to come.
Unmarked == {"wrote", "pinned_wrote"}
Writing == {"w", "wrote"}
Latched == Writing \cup {"r"}
HoldState == Latched \cup {"none", "want_r", "want_w", "pinned", "pinned_wrote"}

\* What pager_get_page leaves a use with: the pin alone, or the pin and the
\* latch still to be had.
Got(u) == IF u[2] = "pin" THEN {"pinned"} ELSE {"want_r", "want_w"}

Holders(p) == {u \in Use : hold[u][p] # "none"}
CanPin == Cardinality({x \in Use \X Page : hold[x[1]][x[2]] # "none"}) < MaxPins
Quiet == \A u \in Use, p \in Page : hold[u][p] = "none"

-----------------------------------------------------------------------------
\* find_frame
Resident(p) == {i \in Frames : frame[i].page = p}
Invalid == {i \in Frames : frame[i].page = 0}
Unpinned == {i \in Frames : frame[i].pin = 0}

Older(order, i, j) ==
  \E m, n \in DOMAIN order : m < n /\ order[m] = i /\ order[n] = j

\* used_tick = ++tick
Touched(i) == Append(Remove(lru, i), i)

\* Mutant: the least recently used frame, pinned or not.
FrameFor_IgnoresPins(p) ==
  IF Resident(p) # {} THEN Resident(p)
  ELSE IF Invalid # {} THEN Invalid
  ELSE {i \in Frames : \A j \in Frames \ {i} : Older(lru, i, j)}

\* The frame pager_get_page uses for page p: a hit, or the choice of
\* evict_frame: a frame not in use, else the oldest that is not pinned.
FrameFor(p) ==
  IF Resident(p) # {} THEN Resident(p)
  ELSE IF Invalid # {} THEN Invalid
  ELSE {i \in Unpinned : \A j \in Unpinned \ {i} : Older(lru, i, j)}

\* Mutant: a dirty frame is dropped at its eviction.
WrittenBack_Drops(i, p) == disk

\* evict_frame writes a dirty frame back before frame i is given to page p.
WrittenBack(i, p) ==
  IF frame[i].page \notin {0, p} /\ frame[i].dirty
  THEN [disk EXCEPT ![frame[i].page] = frame[i].data]
  ELSE disk

\* Frame i once pager_get_page has put page p there, with one pin more.
Loaded(i, p) ==
  IF frame[i].page = p
  THEN [frame[i] EXCEPT !.pin = @ + 1]
  ELSE [page |-> p, dirty |-> FALSE, pin |-> 1, data |-> disk[p]]

DirtyFrames(fr) == {i \in Frames : fr[i].page # 0 /\ fr[i].dirty}

\* pager_flush_dirty: the oldest dirty frames without a pin, until the number
\* of dirty frames is down to the low watermark.
FlushSet(fr, order) ==
  LET dirty == DirtyFrames(fr)
      loose == {i \in dirty : fr[i].pin = 0}
  IN IF Cardinality(dirty) < HighWatermark THEN {}
     ELSE {i \in loose : Cardinality({j \in loose : Older(order, j, i)})
                           < Cardinality(dirty) - LowWatermark}

Cleaned(fr, S) ==
  [i \in Frames |-> IF i \in S THEN [fr[i] EXCEPT !.dirty = FALSE] ELSE fr[i]]

Stored(dk, fr, S) ==
  [p \in Page |-> IF \E i \in S : fr[i].page = p
                  THEN fr[CHOOSE i \in S : fr[i].page = p].data
                  ELSE dk[p]]

\* Mutant: a second pager_unpin at the end.
Rewrite_UnpinsTwice(i, p, c) ==
  LET fr == [frame EXCEPT ![i] = [Loaded(i, p) EXCEPT !.dirty = TRUE, !.data = c]]
      S == FlushSet(fr, Touched(i))
  IN /\ frame' = [Cleaned(fr, S) EXCEPT ![i].pin = @ - 2]
     /\ lru' = Touched(i)
     /\ disk' = Stored(WrittenBack(i, p), fr, S)

\* pager_get_page, new contents, pager_mark_dirty and pager_unpin in one
\* critical section, as pager_alloc_page and pager_free_page do it.
Rewrite(i, p, c) ==
  LET fr == [frame EXCEPT ![i] = [Loaded(i, p) EXCEPT !.dirty = TRUE, !.data = c]]
      S == FlushSet(fr, Touched(i))
  IN /\ frame' = [Cleaned(fr, S) EXCEPT ![i].pin = @ - 1]
     /\ lru' = Touched(i)
     /\ disk' = Stored(WrittenBack(i, p), fr, S)

-----------------------------------------------------------------------------
\* pager_get_page, and pager_get_page_rlatch and pager_get_page_wlatch up to the
\* latch.  A page number may be stale: of a root that has been freed since.
GetPage(u, p) ==
  /\ p < header.next_page_id
  /\ hold[u][p] = "none"
  /\ CanPin
  /\ \E i \in FrameFor(p), got \in Got(u) :
       /\ frame' = [frame EXCEPT ![i] = Loaded(i, p)]
       /\ lru' = Touched(i)
       /\ disk' = WrittenBack(i, p)
       /\ hold' = [hold EXCEPT ![u][p] = got]
       /\ at' = [at EXCEPT ![u][p] = i]
  /\ UNCHANGED <<header, live, status>>

\* Every frame is pinned: pager_get_page returns NULL, in pager_alloc_page and
\* pager_free_page too, and the caller uses it without a test.  (The two callers
\* that test it, for the root and the next leaf of a search, return.)
NoFrameLeft ==
  /\ CanPin
  /\ \E p \in Page : p <= header.next_page_id /\ FrameFor(p) = {}
  /\ status' = "crashed"
  /\ UNCHANGED <<frame, lru, disk, header, live, hold, at>>

\* Mutant: pager_get_page_wlatch takes the latch with pthread_rwlock_rdlock.
Latch_Shared(u, p) ==
  /\ hold[u][p] \in {"want_r", "want_w"}
  /\ \A v \in Use, q \in Page : at[v][q] = at[u][p] => hold[v][q] # "wrote"
  /\ hold' = [hold EXCEPT ![u][p] = IF @ = "want_r" THEN "r" ELSE "w"]
  /\ UNCHANGED <<frame, lru, disk, header, live, at, status>>

\* pthread_rwlock_rdlock and pthread_rwlock_wrlock on the latch of the frame.
Latch(u, p) ==
  /\ \/ /\ hold[u][p] = "want_r"
        /\ \A v \in Use, q \in Page :
             at[v][q] = at[u][p] => hold[v][q] \notin Writing
        /\ hold' = [hold EXCEPT ![u][p] = "r"]
     \/ /\ hold[u][p] = "want_w"
        /\ \A v \in Use, q \in Page :
             at[v][q] = at[u][p] => hold[v][q] \notin Latched
        /\ hold' = [hold EXCEPT ![u][p] = "w"]
  /\ UNCHANGED <<frame, lru, disk, header, live, at, status>>

\* A caller writes through its pointer, whatever page the frame holds now, under
\* the write latch or under its pin alone.  It writes into pages in use only:
\* one whose root was freed while it waited sees that it is not the root.
Write(u, p, w) ==
  /\ p \in live
  /\ hold[u][p] \in Writing \cup {"pinned", "pinned_wrote"}
  /\ frame' = [frame EXCEPT ![at[u][p]].data = [type |-> "used", word |-> w]]
  /\ hold' = [hold EXCEPT ![u][p] =
                 IF @ \in Writing THEN "wrote" ELSE "pinned_wrote"]
  /\ UNCHANGED <<lru, disk, header, live, at, status>>

pager_mark_dirty(u, p) ==
  /\ hold[u][p] \in Unmarked
  /\ LET fr == [i \in Frames |-> IF i \in Resident(p)
                                 THEN [frame[i] EXCEPT !.dirty = TRUE]
                                 ELSE frame[i]]
         S == FlushSet(fr, lru)
     IN /\ frame' = Cleaned(fr, S)
        /\ disk' = Stored(disk, fr, S)
  /\ hold' = [hold EXCEPT ![u][p] = IF @ = "wrote" THEN "w" ELSE "pinned"]
  /\ UNCHANGED <<lru, header, live, at, status>>

\* The frames with one pin less on page p.
Unpinning(p) ==
  [i \in Frames |-> IF i \in Resident(p) /\ frame[i].pin > 0
                    THEN [frame[i] EXCEPT !.pin = @ - 1]
                    ELSE frame[i]]

\* pager_unpin of a pin, pager_unlatch_r and pager_unlatch_w of a latch and its
\* pin.
Unpin(u, p) ==
  /\ hold[u][p] \in {"r", "w", "pinned"}
  /\ frame' = Unpinning(p)
  /\ hold' = [hold EXCEPT ![u][p] = "none"]
  /\ at' = [at EXCEPT ![u][p] = NoFrame]
  /\ UNCHANGED <<lru, disk, header, live, status>>

\* fix_internal_underflow_latched: pager_unpin of a node that it has latched and
\* that propagate_delete has unpinned before.  The latch has no pin any more, the
\* frame may be given to another page under it, and pager_unlatch_w will not find
\* the latch: the model ends.
ExtraUnpin(t, p) ==
  /\ hold[<<t, "latch">>][p] = "w"
  /\ hold[<<t, "pin">>][p] = "none"
  /\ frame' = Unpinning(p)
  /\ status' = "slipped"
  /\ UNCHANGED <<lru, disk, header, live, hold, at>>

\* Mutant: the page is taken and the list still begins with it.
pager_alloc_page_KeepsHead ==
  /\ header.free_page_head # 0
  /\ \E i \in FrameFor(header.free_page_head) :
       Rewrite(i, header.free_page_head, Zeroed)
  /\ live' = live \cup {header.free_page_head}
  /\ UNCHANGED <<header, hold, at, status>>

\* pager_alloc_page: the head of the free list, else the end of the file.
pager_alloc_page ==
  \/ /\ header.free_page_head # 0
     /\ LET p == header.free_page_head IN
          \E i \in FrameFor(p) :
            /\ header' = [header EXCEPT !.free_page_head = Loaded(i, p).data.word]
            /\ Rewrite(i, p, Zeroed)
            /\ live' = live \cup {p}
     /\ UNCHANGED <<hold, at, status>>
  \/ /\ header.free_page_head = 0
     /\ header.next_page_id <= MaxPage
     /\ LET p == header.next_page_id IN
          \E i \in FrameFor(p) :
            /\ header' = [header EXCEPT !.next_page_id = @ + 1]
            /\ Rewrite(i, p, Zeroed)
            /\ live' = live \cup {p}
     /\ UNCHANGED <<hold, at, status>>

\* pager_free_page: a page in use, whoever has or waits for its latch.
pager_free_page(p) ==
  /\ p \in live
  /\ \E i \in FrameFor(p) :
       Rewrite(i, p, [type |-> "free", word |-> header.free_page_head])
  /\ header' = [header EXCEPT !.free_page_head = p]
  /\ live' = live \ {p}
  /\ UNCHANGED <<hold, at, status>>

\* pager_flush_all between statements (the .flush command, the server's end).
pager_flush_all ==
  /\ Quiet
  /\ frame' = Cleaned(frame, DirtyFrames(frame))
  /\ disk' = Stored(disk, frame, DirtyFrames(frame))
  /\ UNCHANGED <<lru, header, live, hold, at, status>>

\* pager_close and pager_open on the same file: the header is written there and
\* read again with what it held.
Reopen ==
  /\ Quiet
  /\ disk' = Stored(disk, frame, DirtyFrames(frame))
  /\ frame' = [i \in Frames |-> EmptyFrame]
  /\ lru' = << >>
  /\ UNCHANGED <<header, live, hold, at, status>>

\* pager_open(create): page 1 is the heap, page 2 the root of the index.
Init ==
  /\ frame = [i \in Frames |-> EmptyFrame]
  /\ lru = << >>
  /\ disk = [p \in Page |-> Zeroed]
  /\ header = [free_page_head |-> 0, next_page_id |-> 3]
  /\ live = {1, 2}
  /\ hold = [u \in Use |-> [p \in Page |-> "none"]]
  /\ at = [u \in Use |-> [p \in Page |-> NoFrame]]
  /\ status = "right"

Step ==
  \/ \E u \in Use, p \in Page :
       \/ GetPage(u, p)
       \/ Latch(u, p)
       \/ \E w \in Words : Write(u, p, w)
       \/ pager_mark_dirty(u, p)
       \/ Unpin(u, p)
  \/ \E t \in Threads, p \in Page : ExtraUnpin(t, p)
  \/ \E p \in Page : pager_free_page(p)
  \/ pager_alloc_page
  \/ pager_flush_all
  \/ Reopen
  \/ NoFrameLeft

Next == status = "right" /\ Step

Spec == Init /\ [][Next]_vars
-----------------------------------------------------------------------------

\* Every variable has its type.
TypeOK ==
  /\ frame \in [Frames -> Frame]
  /\ lru \in Seq(Frames)
  /\ disk \in [Page -> Content]
  /\ header \in [free_page_head : Nat, next_page_id : Nat]
  /\ live \subseteq Page
  /\ hold \in [Use -> [Page -> HoldState]]
  /\ at \in [Use -> [Page -> Frames \cup {NoFrame}]]
  /\ status \in {"right", "slipped", "crashed"}

\* Until a pin is given back once too often, a page is in one frame at most,
\* every pointer a thread has to a page points into that frame, and the pins of
\* the frame are those that the threads have: no eviction takes a page away from
\* under its user, and no frame stays pinned for nobody.
PinsExact == status = "right" =>
  /\ \A i, j \in Frames : frame[i].page = frame[j].page /\ i # j => frame[i].page = 0
  /\ \A i \in Frames :
       frame[i].pin = IF frame[i].page = 0 THEN 0
                      ELSE Cardinality(Holders(frame[i].page))
  /\ \A u \in Use, p \in Page :
       hold[u][p] # "none" => at[u][p] \in Resident(p)

\* Until then a page has one latched writer or any number of latched readers,
\* although the latch belongs to the frame and frames change their pages.
LatchExcludes == status = "right" =>
  \A p \in Page : \A u, v \in Use :
    u # v /\ hold[u][p] \in Writing => hold[v][p] \notin Latched

\* What page p holds for the callers, in its frame or in the file.
Latest(p) ==
  IF Resident(p) # {} THEN frame[CHOOSE i \in Resident(p) : TRUE].data ELSE disk[p]

\* The pages met from free_page_head on, through the pages themselves.
FreeChain ==
  LET f[n \in 0..MaxPage] ==
        IF n = 0 THEN header.free_page_head
        ELSE IF f[n - 1] \in Page THEN Latest(f[n - 1]).word ELSE 0
  IN f

\* Every page below next_page_id is in use or on the free list, never both;
\* the list meets no page twice, all its pages are marked free, and it ends:
\* through evictions, and with threads that still wait for a page that is freed,
\* until a pin is given back once too often.
FreeListExact == status = "right" =>
  LET chain == FreeChain
      met == {chain[n] : n \in 0..MaxPage} \ {0}
  IN /\ chain[MaxPage] = 0
     /\ \A m, n \in 0..MaxPage : chain[m] = chain[n] /\ m # n => chain[m] = 0
     /\ met \cap live = {}
     /\ met \cup live = 1..(header.next_page_id - 1)
     /\ \A p \in met : Latest(p).type = "free"

\* Eviction, flushing, closing and opening lose and change nothing, a freed
\* page comes back zeroed, and no page is allocated twice.
Store == INSTANCE PageStore WITH
  content <- [p \in Page |-> IF p \in live THEN Latest(p).word ELSE 0]

ImplementsPageStore == Store!Spec
=============================================================================
