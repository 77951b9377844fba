----------------------------- MODULE PagerProofs ----------------------------
(***************************************************************************)
(* Proofs about Pager for any threads, frames, pages and watermarks.       *)
(*                                                                         *)
(* The invariant has four parts: the pool (a page in one frame at most,    *)
(* and a frame that is not dirty agrees with the file), the pins and       *)
(* pointers of the threads, the list of free pages, and the latches.  What *)
(* an operation does to the pool is put together from three steps, each    *)
(* with a lemma of its own: loading a page, flushing dirty frames, and     *)
(* changing what a frame holds.                                            *)
(***************************************************************************)
EXTENDS Pager, FiniteSetTheorems, WellFoundedInduction, TLAPS

\* No page is in two frames.
Apart(fr) ==
  \A i, j \in Frames : i # j /\ fr[i].page # 0 => fr[i].page # fr[j].page

\* W: the pages that have been written to and are to be marked dirty.
Pool(fr, dk, W) ==
  /\ fr \in [Frames -> Frame]
  /\ dk \in [Page -> Content]
  /\ Apart(fr)
  /\ \A i \in Frames :
       fr[i].page # 0 /\ ~fr[i].dirty /\ fr[i].page \notin W =>
         fr[i].data = dk[fr[i].page]

LatestIn(fr, dk, p) ==
  IF \E i \in Frames : fr[i].page = p
  THEN fr[CHOOSE i \in Frames : fr[i].page = p].data
  ELSE dk[p]

\* What the callers see, page by page.
View(fr, dk) == [p \in Page |-> LatestIn(fr, dk, p)]

\* The same view but for page p.
Put(v, p, c) == [v EXCEPT ![p] = c]

\* The frames after page p in frame i has been given new contents.
Replaced(fr, fs, i, p) ==
  /\ i \in Frames /\ p \in Page /\ fs \in [Frames -> Frame]
  /\ fr[i].page = p /\ fs[i].page = p
  /\ \A j \in Frames \ {i} : fs[j] = fr[j]

Users(h, p) == {t \in Use : h[t][p] # "none"}
PinsOf(h, p) == IF p = 0 THEN 0 ELSE Cardinality(Users(h, p))

\* Every frame has a pin for each user of its page, and every pointer points
\* into the frame of its page.
Pins(fr, h, a) ==
  /\ h \in [Use -> [Page -> HoldState]]
  /\ a \in [Use -> [Page -> Frames \cup {NoFrame}]]
  /\ \A i \in Frames : fr[i].pin = PinsOf(h, fr[i].page)
  /\ \A t \in Use, p \in Page :
       h[t][p] # "none" => a[t][p] \in Frames /\ fr[a[t][p]].page = p

\* The same pages with the same pins; the same users.
SamePages(fr, fs) ==
  \A i \in Frames : fs[i].page = fr[i].page /\ fs[i].pin = fr[i].pin
SameUsers(h, g) ==
  /\ g \in [Use -> [Page -> HoldState]]
  /\ \A t \in Use, p \in Page : g[t][p] = "none" <=> h[t][p] = "none"

Wrote(h) == {p \in Page : \E t \in Use : h[t][p] \in Unmarked}

\* c lists the n free pages, which are those that are not live.
Chain(n, c, hd, lv, view) ==
  /\ n \in Nat /\ c \in [1..n -> Page]
  /\ \A i, j \in 1..n : c[i] = c[j] => i = j
  /\ {c[i] : i \in 1..n} = (1..(hd.next_page_id - 1)) \ lv
  /\ hd.free_page_head = IF n = 0 THEN 0 ELSE c[1]
  /\ \A i \in 1..n :
       view[c[i]] = [type |-> "free", word |-> IF i = n THEN 0 ELSE c[i + 1]]

FreeList(hd, lv, view) ==
  /\ hd \in [free_page_head : Nat, next_page_id : Nat]
  /\ hd.next_page_id \in 1..(MaxPage + 1)
  /\ lv \subseteq 1..(hd.next_page_id - 1)
  /\ \E n, c : Chain(n, c, hd, lv, view)

\* No two uses of a page have its latch unless both read.
Exclusive ==
  \A p \in Page : \A t, u \in Use :
    t # u /\ hold[t][p] \in Writing => hold[u][p] \notin Latched

Inv ==
  /\ Pool(frame, disk, Wrote(hold))
  /\ Pins(frame, hold, at)
  /\ FreeList(header, live, View(frame, disk))
  /\ Exclusive

\* What holds until a pin is given back once too often.
InvWhileRight == status = "right" => Inv

-----------------------------------------------------------------------------
\* Finitely many threads use a page in finitely many ways.
LEMMA UseFinite == IsFiniteSet(Use)
<1>1. {"latch", "pin"} = {"latch"} \cup {"pin"}
  OBVIOUS
<1>2. IsFiniteSet({"latch", "pin"})
  <2>1. IsFiniteSet({"latch"}) /\ IsFiniteSet({"pin"})
    BY FS_Singleton
  <2>2. IsFiniteSet({"latch"} \cup {"pin"})
    BY <2>1, FS_Union
  <2>. QED
    BY <1>1, <2>2
<1>. QED
  BY <1>2, FS_Product, PagerAssumption DEF Use

\* What a page holds is in its frame, or in the file when it has none.
LEMMA ViewInFrame ==
  ASSUME NEW fr, NEW dk, Apart(fr), NEW i \in Frames, fr[i].page \in Page
  PROVE  LatestIn(fr, dk, fr[i].page) = fr[i].data
<1>1. fr[i].page # 0
  BY DEF Page
<1>2. \A j \in Frames : fr[j].page = fr[i].page => j = i
  BY <1>1 DEF Apart
<1>3. (CHOOSE j \in Frames : fr[j].page = fr[i].page) = i
  BY <1>2
<1>. QED
  BY <1>3 DEF LatestIn

\* The same for a page that is in no frame.
LEMMA ViewInFile ==
  ASSUME NEW fr, NEW dk, NEW p, \A i \in Frames : fr[i].page # p
  PROVE  LatestIn(fr, dk, p) = dk[p]
BY DEF LatestIn

\* What the callers see of a page is the contents of a page.
LEMMA ViewType ==
  ASSUME NEW fr, NEW dk, NEW W, Pool(fr, dk, W), NEW p \in Page
  PROVE  LatestIn(fr, dk, p) \in Content
<1>1. CASE \E i \in Frames : fr[i].page = p
  <2>1. PICK i \in Frames : fr[i].page = p
    BY <1>1
  <2>2. LatestIn(fr, dk, p) = fr[i].data
    BY <2>1, ViewInFrame DEF Pool
  <2>. QED
    BY <2>2 DEF Pool, Frame
<1>2. CASE \A i \in Frames : fr[i].page # p
  BY <1>2, ViewInFile DEF Pool
<1>. QED
  BY <1>1, <1>2

\* Pins have no part in what the callers see.
LEMMA SamePool ==
  ASSUME NEW fr, NEW dk, NEW W, Pool(fr, dk, W), NEW fs \in [Frames -> Frame],
         \A i \in Frames : /\ fs[i].page = fr[i].page /\ fs[i].dirty = fr[i].dirty
                         /\ fs[i].data = fr[i].data
  PROVE  Pool(fs, dk, W) /\ View(fs, dk) = View(fr, dk)
<1>1. Pool(fs, dk, W)
  BY DEF Pool, Apart
<1>2. ASSUME NEW p \in Page PROVE LatestIn(fs, dk, p) = LatestIn(fr, dk, p)
  <2>1. CASE \E i \in Frames : fr[i].page = p
    <3>1. PICK i \in Frames : fr[i].page = p
      BY <2>1
    <3>2. fs[i].page = p
      BY <3>1
    <3>3. Apart(fr) /\ Apart(fs)
      BY <1>1 DEF Pool
    <3>4. LatestIn(fr, dk, fr[i].page) = fr[i].data
      BY <3>1, <3>3, ViewInFrame
    <3>5. LatestIn(fs, dk, fs[i].page) = fs[i].data
      BY <3>2, <3>3, ViewInFrame
    <3>. QED
      BY <3>1, <3>2, <3>4, <3>5
  <2>2. CASE \A i \in Frames : fr[i].page # p
    BY <2>2, ViewInFile
  <2>. QED
    BY <2>1, <2>2
<1>. QED
  BY <1>1, <1>2 DEF View

\* The frame that pager_get_page chooses has the page, or nobody has it pinned.
LEMMA FrameChosen ==
  ASSUME Inv, NEW p \in Page, NEW i \in FrameFor(p)
  PROVE  /\ i \in Frames
         /\ \/ frame[i].page = p
            \/ /\ \A j \in Frames : frame[j].page # p
               /\ frame[i].page = 0 \/ frame[i].pin = 0
BY DEF FrameFor, Resident, Invalid, Unpinned

\* A page whose frame has no pin has no user.
LEMMA NoPinNoUser ==
  ASSUME Inv, NEW i \in Frames, frame[i].page \in Page, frame[i].pin = 0
  PROVE  Users(hold, frame[i].page) = {} /\ frame[i].page \notin Wrote(hold)
<1>1. frame[i].page # 0
  BY DEF Page
<1>2. Cardinality(Users(hold, frame[i].page)) = 0
  BY <1>1 DEF Inv, Pins, PinsOf
<1>3. IsFiniteSet(Users(hold, frame[i].page))
  BY UseFinite, FS_Subset DEF Users
<1>4. Users(hold, frame[i].page) = {}
  BY <1>2, <1>3, FS_EmptySet
<1>. QED
  BY <1>4 DEF Users, Wrote, Unmarked

\* A page that is in no frame has no user.
LEMMA NoFrameNoUser ==
  ASSUME Inv, NEW p \in Page, \A j \in Frames : frame[j].page # p
  PROVE  Users(hold, p) = {} /\ p \notin Wrote(hold)
BY DEF Inv, Pins, Users, Wrote, Unmarked

-----------------------------------------------------------------------------
\* evict_frame and the reading of the page: the callers see nothing of it.
LEMMA Loading ==
  ASSUME Inv, NEW p \in Page, NEW i \in FrameFor(p)
  PROVE  LET fr == [frame EXCEPT ![i] = Loaded(i, p)]
             dk == WrittenBack(i, p)
         IN /\ i \in Frames
            /\ Pool(fr, dk, Wrote(hold))
            /\ View(fr, dk) = View(frame, disk)
            /\ fr[i].page = p
            /\ fr[i].pin = Cardinality(Users(hold, p)) + 1
            /\ Cardinality(Users(hold, p)) \in Nat
            /\ \A j \in Frames \ {i} : fr[j] = frame[j]
            /\ \A q \in Page \ {p} : frame[i].page = q => Users(hold, q) = {}
            /\ Loaded(i, p).data = LatestIn(frame, disk, p)
<1>. DEFINE fr == [frame EXCEPT ![i] = Loaded(i, p)]
            dk == WrittenBack(i, p)
            W == Wrote(hold)
<1>0. /\ Pool(frame, disk, W) /\ frame \in [Frames -> Frame] /\ disk \in [Page -> Content]
      /\ p # 0 /\ p \in 0..MaxPage
  BY DEF Inv, Pool, Page
<1>1. i \in Frames
  BY FrameChosen
<1>2. IsFiniteSet(Users(hold, p))
  BY UseFinite, FS_Subset DEF Users
<1>3. Cardinality(Users(hold, p)) \in Nat
  BY <1>2, FS_CardinalityType
<1>4. CASE frame[i].page = p
  <2>1. fr[i] = [frame[i] EXCEPT !.pin = @ + 1]
    BY <1>0, <1>1, <1>4 DEF Loaded
  <2>2. frame[i] \in Frame
    BY <1>0, <1>1
  <2>3. /\ fr[i] \in Frame /\ fr[i].page = p /\ fr[i].dirty = frame[i].dirty
        /\ fr[i].data = frame[i].data /\ fr[i].pin = frame[i].pin + 1
    BY <2>1, <2>2, <1>4 DEF Frame
  <2>4. dk = disk
    BY <1>4 DEF WrittenBack
  <2>5. fr \in [Frames -> Frame]
    BY <2>3, <1>0
  <2>6. \A j \in Frames : fr[j].page = frame[j].page /\ fr[j].dirty = frame[j].dirty
                            /\ fr[j].data = frame[j].data
    BY <2>3, <1>0, <1>4
  <2>7. Loaded(i, p).data = LatestIn(frame, disk, p)
    <3>1. Loaded(i, p) = fr[i]
      BY <1>0, <1>1
    <3>2. LatestIn(frame, disk, p) = frame[i].data
      BY <1>0, <1>1, <1>4, ViewInFrame DEF Pool
    <3>. QED
      BY <3>1, <3>2, <2>3
  <2>. HIDE DEF fr
  <2>8. Pool(fr, disk, W) /\ View(fr, disk) = View(frame, disk)
    BY <1>0, <2>5, <2>6, SamePool
  <2>9. Pool(fr, dk, W) /\ View(fr, dk) = View(frame, disk)
    BY <2>4, <2>8
  <2>10. frame[i].pin = Cardinality(Users(hold, p))
    BY <1>0, <1>1, <1>4 DEF Inv, Pins, PinsOf
  <2>. USE DEF fr
  <2>. QED
    BY <1>0, <1>1, <1>3, <1>4, <2>3, <2>7, <2>9, <2>10
<1>5. CASE frame[i].page # p
  <2>. DEFINE old == frame[i].page
  <2>1. \A j \in Frames : frame[j].page # p
    BY <1>5, FrameChosen
  <2>2. old = 0 \/ frame[i].pin = 0
    BY <1>5, FrameChosen
  <2>3. frame[i] \in Frame /\ old \in 0..MaxPage /\ frame[i].data \in Content
    BY <1>0, <1>1 DEF Frame
  <2>4. old # 0 => old \in Page /\ Users(hold, old) = {} /\ old \notin W
    BY <2>2, <2>3, <1>1, NoPinNoUser DEF Page
  <2>5. Users(hold, p) = {} /\ p \notin W
    BY <2>1, NoFrameNoUser
  <2>6. Loaded(i, p) = [page |-> p, dirty |-> FALSE, pin |-> 1, data |-> disk[p]]
    BY <1>5 DEF Loaded
  <2>7. Loaded(i, p) \in Frame
    BY <2>6, <1>0 DEF Frame
  <2>8. fr \in [Frames -> Frame] /\ fr[i] = Loaded(i, p)
    BY <2>7, <1>0, <1>1
  <2>9. \A j \in Frames \ {i} : fr[j] = frame[j]
    BY <1>0
  <2>10. \A q \in Page : dk[q] = IF q = old /\ frame[i].dirty THEN frame[i].data ELSE disk[q]
    BY <1>0, <1>5, <2>4 DEF WrittenBack, Page
  <2>11. dk \in [Page -> Content]
    BY <1>0, <2>3 DEF WrittenBack
  <2>. HIDE DEF fr, dk
  <2>12. Apart(fr)
    BY <2>1, <2>6, <2>8, <2>9, <1>0, <1>1 DEF Pool, Apart
  <2>13. dk[p] = disk[p]
    BY <2>10, <1>5
  <2>14. ASSUME NEW j \in Frames, fr[j].page # 0, ~fr[j].dirty, fr[j].page \notin W
         PROVE  fr[j].data = dk[fr[j].page]
    <3>1. CASE j = i
      BY <3>1, <2>6, <2>8, <2>13
    <3>2. CASE j # i
      <4>1. fr[j] = frame[j] /\ frame[j].page # old /\ frame[j].page \in Page
        BY <3>2, <2>9, <2>14, <1>0, <1>1 DEF Pool, Apart, Frame, Page
      <4>2. frame[j].data = disk[frame[j].page]
        BY <4>1, <2>14, <1>0 DEF Pool
      <4>. QED
        BY <4>1, <4>2, <2>10
    <3>. QED
      BY <3>1, <3>2
  <2>15. Pool(fr, dk, W)
    BY <2>8, <2>11, <2>12, <2>14 DEF Pool
  <2>16. LatestIn(frame, disk, p) = disk[p]
    BY <2>1, ViewInFile
  <2>17. ASSUME NEW q \in Page PROVE LatestIn(fr, dk, q) = LatestIn(frame, disk, q)
    <3>1. CASE q = p
      <4>1. fr[i].page = p
        BY <2>6, <2>8
      <4>2. LatestIn(fr, dk, p) = fr[i].data
        BY <4>1, <2>12, <1>1, ViewInFrame
      <4>. QED
        BY <3>1, <4>2, <2>6, <2>8, <2>16
    <3>2. CASE q # p /\ q = old
      <4>1. LatestIn(frame, disk, q) = frame[i].data
        BY <3>2, <1>0, <1>1, ViewInFrame DEF Pool
      <4>2. q # 0
        BY DEF Page
      <4>3. \A j \in Frames : fr[j].page # q
        BY <3>2, <4>2, <2>6, <2>8, <2>9, <1>0, <1>1 DEF Pool, Apart
      <4>4. LatestIn(fr, dk, q) = dk[q]
        BY <4>3, ViewInFile
      <4>5. frame[i].dirty \/ frame[i].data = disk[q]
        BY <3>2, <4>2, <2>4, <1>0, <1>1 DEF Pool
      <4>. QED
        BY <3>2, <4>1, <4>4, <4>5, <2>10
    <3>3. CASE q # p /\ q # old
      <4>1. \A j \in Frames : fr[j].page = q <=> frame[j].page = q
        BY <3>3, <2>6, <2>8, <2>9
      <4>2. CASE \E j \in Frames : frame[j].page = q
        <5>1. PICK j \in Frames : frame[j].page = q
          BY <4>2
        <5>2. j # i /\ fr[j] = frame[j]
          BY <5>1, <3>3, <2>9
        <5>3. LatestIn(frame, disk, q) = frame[j].data
          BY <5>1, <1>0, ViewInFrame DEF Pool
        <5>4. LatestIn(fr, dk, q) = fr[j].data
          BY <5>1, <5>2, <2>12, ViewInFrame
        <5>. QED
          BY <5>2, <5>3, <5>4
      <4>3. CASE \A j \in Frames : frame[j].page # q
        <5>1. LatestIn(frame, disk, q) = disk[q] /\ LatestIn(fr, dk, q) = dk[q]
          BY <4>1, <4>3, ViewInFile
        <5>. QED
          BY <5>1, <3>3, <2>10
      <4>. QED
        BY <4>2, <4>3
    <3>. QED
      BY <3>1, <3>2, <3>3
  <2>18. View(fr, dk) = View(frame, disk)
    BY <2>17 DEF View
  <2>19. Cardinality(Users(hold, p)) = 0
    BY <2>5, FS_EmptySet
  <2>20. Loaded(i, p).data = disk[p] /\ fr[i].page = p /\ fr[i].pin = 1
    BY <2>6, <2>8
  <2>21. \A q \in Page \ {p} : old = q => Users(hold, q) = {}
    BY <2>4 DEF Page
  <2>. USE DEF fr, dk
  <2>. QED
    BY <1>1, <2>9, <2>15, <2>16, <2>18, <2>19, <2>20, <2>21
<1>. QED
  BY <1>4, <1>5

\* Writing dirty frames back changes neither what the callers see nor whose
\* the frames are (pager_flush_dirty, pager_flush_all).
LEMMA Flushing ==
  ASSUME NEW fr, NEW dk, NEW W, NEW S, Pool(fr, dk, W), S \subseteq DirtyFrames(fr)
  PROVE  /\ Pool(Cleaned(fr, S), Stored(dk, fr, S), W)
         /\ View(Cleaned(fr, S), Stored(dk, fr, S)) = View(fr, dk)
         /\ SamePages(fr, Cleaned(fr, S))
<1>. DEFINE fs == Cleaned(fr, S)
            ds == Stored(dk, fr, S)
<1>1. /\ fr \in [Frames -> Frame] /\ dk \in [Page -> Content] /\ Apart(fr)
      /\ S \subseteq Frames
  BY DEF Pool, DirtyFrames
<1>2. ASSUME NEW i \in Frames
      PROVE  /\ fs[i] \in Frame
             /\ fs[i].page = fr[i].page /\ fs[i].pin = fr[i].pin /\ fs[i].data = fr[i].data
             /\ fs[i].dirty = (fr[i].dirty /\ i \notin S)
  <2>1. fr[i] \in Frame
    BY <1>1
  <2>2. fs[i] = IF i \in S THEN [fr[i] EXCEPT !.dirty = FALSE] ELSE fr[i]
    BY DEF Cleaned
  <2>. QED
    BY <2>1, <2>2 DEF Frame
<1>3. ASSUME NEW i \in S
      PROVE  fr[i].page \in Page /\ ds[fr[i].page] = fr[i].data
  <2>1. fr[i] \in Frame /\ fr[i].page # 0
    BY <1>1 DEF DirtyFrames
  <2>2. fr[i].page \in Page
    BY <2>1, PagerAssumption DEF Frame, Page
  <2>3. \A j \in S : fr[j].page = fr[i].page => j = i
    BY <1>1, <2>1 DEF Apart
  <2>4. (CHOOSE j \in S : fr[j].page = fr[i].page) = i
    BY <2>3
  <2>. QED
    BY <2>2, <2>4 DEF Stored
<1>4. ASSUME NEW p \in Page, \A i \in S : fr[i].page # p
      PROVE  ds[p] = dk[p]
  BY <1>4 DEF Stored
<1>5. ds \in [Page -> Content]
  <2>1. ASSUME NEW p \in Page PROVE ds[p] \in Content
    <3>1. CASE \E i \in S : fr[i].page = p
      BY <3>1, <1>1, <1>3 DEF Frame
    <3>2. CASE \A i \in S : fr[i].page # p
      BY <3>2, <1>1, <1>4
    <3>. QED
      BY <3>1, <3>2
  <2>2. ds = [p \in Page |-> ds[p]]
    BY DEF Stored
  <2>. QED
    BY <2>1, <2>2
<1>6. fs \in [Frames -> Frame]
  BY <1>2 DEF Cleaned
<1>. HIDE DEF fs, ds
<1>7. Apart(fs)
  BY <1>1, <1>2 DEF Apart
<1>8. ASSUME NEW i \in Frames, fr[i].page # 0, i \notin S
      PROVE  fr[i].page \in Page /\ ds[fr[i].page] = dk[fr[i].page]
  <2>1. fr[i].page \in Page
    BY <1>1, <1>8, PagerAssumption DEF Frame, Page
  <2>2. \A j \in S : fr[j].page # fr[i].page
    BY <1>1, <1>8 DEF Apart
  <2>. QED
    BY <2>1, <2>2, <1>4
<1>9. Pool(fs, ds, W)
  <2>1. ASSUME NEW i \in Frames, fs[i].page # 0, ~fs[i].dirty, fs[i].page \notin W
        PROVE  fs[i].data = ds[fs[i].page]
    <3>1. CASE i \in S
      BY <3>1, <1>2, <1>3
    <3>2. CASE i \notin S
      <4>1. fr[i].data = dk[fr[i].page]
        BY <3>2, <2>1, <1>2 DEF Pool
      <4>. QED
        BY <4>1, <3>2, <2>1, <1>2, <1>8
    <3>. QED
      BY <3>1, <3>2
  <2>. QED
    BY <2>1, <1>5, <1>6, <1>7 DEF Pool
<1>10. ASSUME NEW p \in Page PROVE LatestIn(fs, ds, p) = LatestIn(fr, dk, p)
  <2>1. CASE \E i \in Frames : fr[i].page = p
    <3>1. PICK i \in Frames : fr[i].page = p
      BY <2>1
    <3>2. fs[i].page = p
      BY <3>1, <1>2
    <3>3. LatestIn(fs, ds, p) = fs[i].data
      BY <3>2, <1>7, ViewInFrame
    <3>4. LatestIn(fr, dk, p) = fr[i].data
      BY <3>1, <1>1, ViewInFrame
    <3>. QED
      BY <3>3, <3>4, <1>2
  <2>2. CASE \A i \in Frames : fr[i].page # p
    <3>1. LatestIn(fs, ds, p) = ds[p] /\ LatestIn(fr, dk, p) = dk[p]
      BY <2>2, <1>2, ViewInFile
    <3>. QED
      BY <3>1, <2>2, <1>1, <1>4
  <2>. QED
    BY <2>1, <2>2
<1>11. View(fs, ds) = View(fr, dk)
  BY <1>10 DEF View
<1>12. SamePages(fr, fs)
  BY <1>2 DEF SamePages
<1>. QED
  BY <1>9, <1>11, <1>12 DEF fs, ds

\* New contents for the page in a frame: it is to be written back, or its
\* writer is going to mark it dirty.
LEMMA Changing ==
  ASSUME NEW fr, NEW dk, NEW W, NEW V, Pool(fr, dk, W),
         NEW fs, NEW i, NEW p, Replaced(fr, fs, i, p),
         fs[i].dirty \/ p \in V, W \subseteq V \cup {p}
  PROVE  /\ Pool(fs, dk, V)
         /\ View(fs, dk) = Put(View(fr, dk), p, fs[i].data)
<1>0. /\ i \in Frames /\ p \in Page /\ fs \in [Frames -> Frame]
      /\ fr[i].page = p /\ fs[i].page = p
      /\ \A j \in Frames \ {i} : fs[j] = fr[j]
  BY DEF Replaced
<1>1. /\ fr \in [Frames -> Frame] /\ dk \in [Page -> Content] /\ Apart(fr) /\ p # 0
  BY <1>0 DEF Pool, Page
<1>2. \A j \in Frames : fs[j].page = fr[j].page
  BY <1>0
<1>3. Apart(fs)
  BY <1>0, <1>1, <1>2 DEF Apart
<1>4. ASSUME NEW j \in Frames, fs[j].page # 0, ~fs[j].dirty, fs[j].page \notin V
      PROVE  fs[j].data = dk[fs[j].page]
  <2>1. j # i
    BY <1>0, <1>4
  <2>2. fs[j] = fr[j] /\ fr[j].page # p
    BY <2>1, <1>0, <1>1, <1>4 DEF Apart
  <2>3. fr[j].page \notin W
    BY <2>2, <1>0, <1>4
  <2>. QED
    BY <2>2, <2>3, <1>4 DEF Pool
<1>5. ASSUME NEW q \in Page
      PROVE  LatestIn(fs, dk, q) = IF q = p THEN fs[i].data ELSE LatestIn(fr, dk, q)
  <2>1. CASE q = p
    BY <2>1, <1>0, <1>3, ViewInFrame
  <2>2. CASE q # p /\ \E j \in Frames : fr[j].page = q
    <3>1. PICK j \in Frames : fr[j].page = q
      BY <2>2
    <3>2. j # i /\ fs[j] = fr[j]
      BY <3>1, <2>2, <1>0
    <3>3. LatestIn(fr, dk, q) = fr[j].data
      BY <3>1, <1>1, ViewInFrame
    <3>4. LatestIn(fs, dk, q) = fs[j].data
      BY <3>1, <3>2, <1>3, ViewInFrame
    <3>. QED
      BY <2>2, <3>2, <3>3, <3>4
  <2>3. CASE q # p /\ \A j \in Frames : fr[j].page # q
    BY <2>3, <1>2, ViewInFile
  <2>. QED
    BY <2>1, <2>2, <2>3
<1>6. View(fs, dk) = Put(View(fr, dk), p, fs[i].data)
  BY <1>5 DEF View, Put
<1>. QED
  BY <1>0, <1>1, <1>3, <1>4, <1>6 DEF Pool

-----------------------------------------------------------------------------
\* Loading a page leaves the pins of the other frames and the pointers right.
LEMMA LoadingPins ==
  ASSUME Inv, NEW p \in Page, NEW i \in FrameFor(p)
  PROVE  LET fr == [frame EXCEPT ![i] = Loaded(i, p)]
         IN /\ \A j \in Frames \ {i} : fr[j].pin = PinsOf(hold, fr[j].page)
            /\ \A t \in Use, q \in Page :
                 hold[t][q] # "none" => at[t][q] \in Frames /\ fr[at[t][q]].page = q
<1>. DEFINE fr == [frame EXCEPT ![i] = Loaded(i, p)]
<1>1. /\ i \in Frames /\ fr[i].page = p
      /\ \A j \in Frames \ {i} : fr[j] = frame[j]
      /\ \A q \in Page \ {p} : frame[i].page = q => Users(hold, q) = {}
  <2>1. i \in Frames
    BY FrameChosen
  <2>2. fr[i].page = p
    BY Loading, Zenon
  <2>3. \A j \in Frames \ {i} : fr[j] = frame[j]
    BY <2>1 DEF fr
  <2>4. \A q \in Page \ {p} : frame[i].page = q => Users(hold, q) = {}
    BY Loading, Zenon
  <2>. QED
    BY <2>1, <2>2, <2>3, <2>4
<1>. HIDE DEF fr
<1>2. \A j \in Frames \ {i} : fr[j].pin = PinsOf(hold, fr[j].page)
  BY <1>1 DEF Inv, Pins
<1>3. ASSUME NEW t \in Use, NEW q \in Page, hold[t][q] # "none"
      PROVE  at[t][q] \in Frames /\ fr[at[t][q]].page = q
  <2>1. at[t][q] \in Frames /\ frame[at[t][q]].page = q
    BY <1>3 DEF Inv, Pins
  <2>2. t \in Users(hold, q)
    BY <1>3 DEF Users
  <2>3. CASE at[t][q] # i
    BY <1>1, <2>1, <2>3
  <2>4. CASE at[t][q] = i
    BY <1>1, <2>1, <2>2, <2>4
  <2>. QED
    BY <2>3, <2>4
<1>. QED
  BY <1>2, <1>3 DEF fr

\* A step that moves no page and changes nobody's pins.
LEMMA SamePins ==
  ASSUME NEW fr, fr \in [Frames -> Frame], NEW h, NEW a, Pins(fr, h, a),
         NEW fs, SamePages(fr, fs), NEW g, SameUsers(h, g)
  PROVE  Pins(fs, g, a)
<1>1. ASSUME NEW i \in Frames, fr[i].page \in Page
      PROVE  Users(g, fr[i].page) = Users(h, fr[i].page)
  BY <1>1 DEF Users, SameUsers
<1>2. ASSUME NEW i \in Frames
      PROVE  fs[i].pin = PinsOf(g, fs[i].page)
  <2>1. fr[i].page = 0 \/ fr[i].page \in Page
    BY PagerAssumption DEF Frame, Page
  <2>2. PinsOf(g, fr[i].page) = PinsOf(h, fr[i].page)
    BY <1>1, <2>1 DEF PinsOf
  <2>. QED
    BY <2>2 DEF Pins, SamePages
<1>. QED
  BY <1>2 DEF Pins, SamePages, SameUsers

\* pager_alloc_page and pager_free_page write page p and leave everybody's pins
\* as they were.
LEMMA Rewriting ==
  ASSUME Inv, NEW p \in Page, NEW i \in FrameFor(p), NEW c \in Content,
         Rewrite(i, p, c)
  PROVE  /\ Pool(frame', disk', Wrote(hold))
         /\ View(frame', disk') = Put(View(frame, disk), p, c)
         /\ Pins(frame', hold, at)
<1>. DEFINE f1 == [frame EXCEPT ![i] = Loaded(i, p)]
            f2 == [frame EXCEPT ![i] = [Loaded(i, p) EXCEPT !.dirty = TRUE, !.data = c]]
            dk == WrittenBack(i, p)
            W == Wrote(hold)
            S == FlushSet(f2, Touched(i))
            f3 == Cleaned(f2, S)
<1>1. /\ i \in Frames /\ Pool(f1, dk, W) /\ View(f1, dk) = View(frame, disk)
      /\ f1[i].page = p /\ f1[i].pin = Cardinality(Users(hold, p)) + 1
      /\ Cardinality(Users(hold, p)) \in Nat
  BY Loading
<1>2. frame \in [Frames -> Frame] /\ f1 \in [Frames -> Frame]
  BY <1>1 DEF Inv, Pool
<1>3. /\ \A j \in Frames \ {i} : f1[j].pin = PinsOf(hold, f1[j].page)
      /\ \A t \in Use, q \in Page :
           hold[t][q] # "none" => at[t][q] \in Frames /\ f1[at[t][q]].page = q
  BY LoadingPins
<1>4. /\ f2 \in [Frames -> Frame]
      /\ \A j \in Frames \ {i} : f2[j] = f1[j]
      /\ f2[i].page = p /\ f2[i].dirty /\ f2[i].data = c /\ f2[i].pin = f1[i].pin
  <2>1. f1[i] = Loaded(i, p) /\ Loaded(i, p) \in Frame
    BY <1>1, <1>2
  <2>2. f2[i] = [f1[i] EXCEPT !.dirty = TRUE, !.data = c]
    BY <1>1, <1>2, <2>1
  <2>3. /\ f2[i] \in Frame /\ f2[i].page = f1[i].page /\ f2[i].dirty
        /\ f2[i].data = c /\ f2[i].pin = f1[i].pin
    BY <2>1, <2>2 DEF Frame
  <2>. QED
    BY <1>1, <1>2, <2>3
<1>5. frame' = [f3 EXCEPT ![i].pin = @ - 1] /\ disk' = Stored(dk, f2, S)
  BY DEF Rewrite
<1>6. S \subseteq DirtyFrames(f2)
  BY DEF FlushSet
<1>. HIDE DEF f1, f2, dk, W, S
<1>7. Pool(f2, dk, W) /\ View(f2, dk) = Put(View(frame, disk), p, c)
  <2>1. /\ W \subseteq W \cup {p} /\ (f2[i].dirty \/ p \in W)
        /\ Replaced(f1, f2, i, p)
    BY <1>1, <1>4 DEF Replaced
  <2>2. Pool(f2, dk, W) /\ View(f2, dk) = Put(View(f1, dk), p, f2[i].data)
    BY <2>1, <1>1, Changing
  <2>. QED
    BY <2>2, <1>1, <1>4
<1>8. /\ Pool(f3, disk', W) /\ View(f3, disk') = View(f2, dk)
      /\ \A j \in Frames : f3[j].page = f2[j].page /\ f3[j].pin = f2[j].pin
  BY <1>5, <1>6, <1>7, Flushing DEF SamePages
<1>9. f3 \in [Frames -> Frame]
  BY <1>8 DEF Pool
<1>. HIDE DEF f3
<1>10. /\ frame' \in [Frames -> Frame]
       /\ \A j \in Frames \ {i} : frame'[j] = f3[j]
       /\ frame'[i].page = f3[i].page /\ frame'[i].dirty = f3[i].dirty
       /\ frame'[i].data = f3[i].data /\ frame'[i].pin = f3[i].pin - 1
  <2>1. f3[i] \in Frame /\ f3[i].pin - 1 \in Nat
    BY <1>1, <1>4, <1>8, <1>9
  <2>2. frame'[i] = [f3[i] EXCEPT !.pin = @ - 1]
    BY <1>1, <1>5, <1>9
  <2>3. /\ frame'[i] \in Frame /\ frame'[i].page = f3[i].page
        /\ frame'[i].dirty = f3[i].dirty /\ frame'[i].data = f3[i].data
        /\ frame'[i].pin = f3[i].pin - 1
    BY <2>1, <2>2 DEF Frame
  <2>. QED
    BY <2>3, <1>5, <1>9
<1>11. \A j \in Frames : /\ frame'[j].page = f3[j].page /\ frame'[j].dirty = f3[j].dirty
                         /\ frame'[j].data = f3[j].data
  BY <1>10
<1>12. Pool(frame', disk', W) /\ View(frame', disk') = View(f3, disk')
  BY <1>8, <1>10, <1>11, SamePool
<1>13. \A j \in Frames : frame'[j].page = f1[j].page
  BY <1>1, <1>4, <1>8, <1>11
<1>14. \A j \in Frames : frame'[j].pin = PinsOf(hold, frame'[j].page)
  <2>1. ASSUME NEW j \in Frames, j # i
        PROVE  frame'[j].pin = PinsOf(hold, frame'[j].page)
    BY <2>1, <1>3, <1>4, <1>8, <1>10, <1>13
  <2>2. PinsOf(hold, p) = Cardinality(Users(hold, p))
    BY DEF PinsOf, Page
  <2>3. frame'[i].pin = PinsOf(hold, frame'[i].page)
    <3>1. frame'[i].page = p
      BY <1>1, <1>13
    <3>2. f3[i].pin = Cardinality(Users(hold, p)) + 1
      BY <1>1, <1>4, <1>8
    <3>3. frame'[i].pin = Cardinality(Users(hold, p))
      BY <3>2, <1>1, <1>10
    <3>. QED
      BY <3>1, <3>3, <2>2
  <2>. QED
    BY <2>1, <2>3
<1>15. Pins(frame', hold, at)
  BY <1>3, <1>13, <1>14 DEF Inv, Pins
<1>. QED
  BY <1>7, <1>8, <1>12, <1>15 DEF W

-----------------------------------------------------------------------------
\* The list of free pages: writing a page in use does not touch it, and it
\* gains and loses pages at its head.
LEMMA ListUntouched ==
  ASSUME NEW hd, NEW lv, NEW v, FreeList(hd, lv, v),
         NEW w, \A p \in Page \ lv : w[p] = v[p]
  PROVE  FreeList(hd, lv, w)
<1>1. PICK n, c : Chain(n, c, hd, lv, v)
  BY DEF FreeList
<1>2. \A i \in 1..n : c[i] \in Page \ lv
  BY <1>1 DEF Chain
<1>3. Chain(n, c, hd, lv, w)
  BY <1>1, <1>2 DEF Chain
<1>. QED
  BY <1>3 DEF FreeList

\* A page in use becomes the head of the list (pager_free_page).
LEMMA ListGrows ==
  ASSUME NEW hd, NEW lv, NEW v, FreeList(hd, lv, v), v \in [Page -> Content],
         NEW p \in lv
  PROVE  /\ p \in Page
         /\ FreeList([hd EXCEPT !.free_page_head = p], lv \ {p},
                     Put(v, p, [type |-> "free", word |-> hd.free_page_head]))
<1>. DEFINE hd2 == [hd EXCEPT !.free_page_head = p]
            w == Put(v, p, [type |-> "free", word |-> hd.free_page_head])
<1>1. PICK n, c : Chain(n, c, hd, lv, v)
  BY DEF FreeList
<1>2. /\ n \in Nat /\ c \in [1..n -> Page]
      /\ hd \in [free_page_head : Nat, next_page_id : Nat]
      /\ hd.next_page_id \in 1..(MaxPage + 1)
      /\ p \in 1..(hd.next_page_id - 1) /\ p \in Page
  BY <1>1, PagerAssumption DEF Chain, FreeList, Page
<1>0. \A i \in 1..n : c[i] \in Page \ lv
  BY <1>1 DEF Chain
<1>. DEFINE m == n + 1
            d == [i \in 1..m |-> IF i = 1 THEN p ELSE c[i - 1]]
<1>3. hd2 \in [free_page_head : Nat, next_page_id : Nat]
      /\ hd2.next_page_id = hd.next_page_id /\ hd2.free_page_head = p
  BY <1>2 DEF Page
<1>4. m \in Nat /\ d \in [1..m -> Page] /\ m # 0 /\ d[1] = p
  BY <1>2
<1>5. \A i \in 1..m : i # 1 => i - 1 \in 1..n /\ d[i] = c[i - 1]
  BY <1>2
<1>6. \A i, j \in 1..m : d[i] = d[j] => i = j
  BY <1>0, <1>1, <1>2, <1>4, <1>5 DEF Chain
<1>7. {d[i] : i \in 1..m} = (1..(hd2.next_page_id - 1)) \ (lv \ {p})
  <2>1. {d[i] : i \in 1..m} = {c[i] : i \in 1..n} \cup {p}
    <3>1. \A i \in 1..n : i + 1 \in 1..m /\ d[i + 1] = c[i]
      BY <1>2
    <3>2. 1 \in 1..m
      BY <1>2
    <3>. HIDE DEF d, m
    <3>3. {c[i] : i \in 1..n} \cup {p} \subseteq {d[i] : i \in 1..m}
      BY <3>1, <3>2, <1>4
    <3>4. \A i \in 1..m : d[i] \in {c[j] : j \in 1..n} \cup {p}
      BY <1>4, <1>5
    <3>. QED
      BY <3>3, <3>4
  <2>2. {c[i] : i \in 1..n} = (1..(hd.next_page_id - 1)) \ lv
    BY <1>1 DEF Chain
  <2>3. ((1..(hd.next_page_id - 1)) \ lv) \cup {p} = (1..(hd.next_page_id - 1)) \ (lv \ {p})
    BY <1>2
  <2>. HIDE DEF d, m
  <2>. QED
    BY <2>1, <2>2, <2>3, <1>3
<1>8. \A i \in 1..m :
        w[d[i]] = [type |-> "free", word |-> IF i = m THEN 0 ELSE d[i + 1]]
  <2>1. ASSUME NEW i \in 1..m, i = 1
        PROVE  w[d[i]] = [type |-> "free", word |-> IF i = m THEN 0 ELSE d[i + 1]]
    <3>1. w[p] = [type |-> "free", word |-> hd.free_page_head]
      BY <1>2 DEF Put
    <3>2. hd.free_page_head = IF i = m THEN 0 ELSE d[i + 1]
      BY <2>1, <1>1, <1>2 DEF Chain
    <3>. QED
      BY <2>1, <3>1, <3>2, <1>4
  <2>2. ASSUME NEW i \in 1..m, i # 1
        PROVE  w[d[i]] = [type |-> "free", word |-> IF i = m THEN 0 ELSE d[i + 1]]
    <3>1. i - 1 \in 1..n /\ d[i] = c[i - 1] /\ c[i - 1] # p
      BY <2>2, <1>0, <1>2, <1>5
    <3>2. w[d[i]] = v[c[i - 1]]
      BY <3>1, <1>2 DEF Put
    <3>3. v[c[i - 1]] = [type |-> "free", word |-> IF i - 1 = n THEN 0 ELSE c[i - 1 + 1]]
      BY <3>1, <1>1 DEF Chain
    <3>4. (IF i - 1 = n THEN 0 ELSE c[i - 1 + 1]) = (IF i = m THEN 0 ELSE d[i + 1])
      BY <2>2, <1>2
    <3>. QED
      BY <3>2, <3>3, <3>4
  <2>. QED
    BY <2>1, <2>2
<1>. HIDE DEF d, m, hd2, w
<1>9. Chain(m, d, hd2, lv \ {p}, w)
  BY <1>3, <1>4, <1>6, <1>7, <1>8 DEF Chain
<1>10. lv \ {p} \subseteq 1..(hd2.next_page_id - 1)
  BY <1>3 DEF FreeList
<1>. QED
  BY <1>2, <1>3, <1>9, <1>10 DEF FreeList, hd2, w

\* The head of the list comes into use (pager_alloc_page).
LEMMA ListShrinks ==
  ASSUME NEW hd, NEW lv, NEW v, FreeList(hd, lv, v), hd.free_page_head # 0
  PROVE  LET p == hd.free_page_head IN
         /\ p \in Page \ lv
         /\ FreeList([hd EXCEPT !.free_page_head = v[p].word], lv \cup {p},
                     Put(v, p, Zeroed))
<1>. DEFINE p == hd.free_page_head
            hd2 == [hd EXCEPT !.free_page_head = v[p].word]
            w == Put(v, p, Zeroed)
<1>1. PICK n, c : Chain(n, c, hd, lv, v)
  BY DEF FreeList
<1>2. /\ n \in Nat \ {0} /\ c \in [1..n -> Page] /\ p = c[1]
      /\ hd \in [free_page_head : Nat, next_page_id : Nat]
      /\ hd.next_page_id \in 1..(MaxPage + 1) /\ lv \subseteq 1..(hd.next_page_id - 1)
  BY <1>1 DEF Chain, FreeList
<1>3. \A i \in 1..n : c[i] \in (1..(hd.next_page_id - 1)) \ lv
  BY <1>1 DEF Chain
<1>4. 1 \in 1..n /\ p \in (1..(hd.next_page_id - 1)) \ lv /\ p \in Page
  BY <1>2, <1>3
<1>. DEFINE m == n - 1
            d == [i \in 1..m |-> c[i + 1]]
<1>5. v[p].word = IF m = 0 THEN 0 ELSE c[2]
  <2>1. v[c[1]] = [type |-> "free", word |-> IF 1 = n THEN 0 ELSE c[1 + 1]]
    BY <1>1, <1>4 DEF Chain
  <2>. QED
    BY <2>1, <1>2
<1>6. v[p].word \in Nat
  BY <1>2, <1>5 DEF Page
<1>7. /\ hd2 \in [free_page_head : Nat, next_page_id : Nat]
      /\ hd2.next_page_id = hd.next_page_id /\ hd2.free_page_head = v[p].word
  BY <1>2, <1>6
<1>8. \A i \in 1..m : i + 1 \in 1..n /\ i + 1 # 1 /\ d[i] = c[i + 1]
  BY <1>2
<1>9. m \in Nat /\ d \in [1..m -> Page]
  BY <1>2, <1>8
<1>10. \A i, j \in 1..m : d[i] = d[j] => i = j
  BY <1>1, <1>8 DEF Chain
<1>11. \A i \in 1..n : i # 1 => i - 1 \in 1..m /\ c[i] = d[i - 1]
  BY <1>2
<1>12. \A i \in 1..m : d[i] # p
  BY <1>1, <1>2, <1>4, <1>8 DEF Chain
<1>13. {d[i] : i \in 1..m} = (1..(hd2.next_page_id - 1)) \ (lv \cup {p})
  <2>1. \A q \in {d[i] : i \in 1..m} : q \in {c[i] : i \in 1..n} /\ q # p
    BY <1>8, <1>12
  <2>2. \A q \in {c[i] : i \in 1..n} : q # p => q \in {d[i] : i \in 1..m}
    BY <1>2, <1>11
  <2>3. {c[i] : i \in 1..n} = (1..(hd2.next_page_id - 1)) \ lv
    BY <1>1, <1>7 DEF Chain
  <2>. QED
    BY <2>1, <2>2, <2>3
<1>14. hd2.free_page_head = IF m = 0 THEN 0 ELSE d[1]
  <2>1. m # 0 => d[1] = c[2]
    BY <1>2
  <2>. QED
    BY <2>1, <1>5, <1>7
<1>15. \A i \in 1..m :
         w[d[i]] = [type |-> "free", word |-> IF i = m THEN 0 ELSE d[i + 1]]
  <2>. SUFFICES ASSUME NEW i \in 1..m
                PROVE  w[d[i]] = [type |-> "free", word |-> IF i = m THEN 0 ELSE d[i + 1]]
    OBVIOUS
  <2>1. v[c[i + 1]] = [type |-> "free", word |-> IF i + 1 = n THEN 0 ELSE c[i + 1 + 1]]
    BY <1>1, <1>8 DEF Chain
  <2>2. (IF i + 1 = n THEN 0 ELSE c[i + 1 + 1]) = (IF i = m THEN 0 ELSE d[i + 1])
    BY <1>2
  <2>3. w[d[i]] = v[d[i]]
    BY <1>12 DEF Put
  <2>. QED
    BY <2>1, <2>2, <2>3, <1>8
<1>. HIDE DEF d, m, w, hd2
<1>16. Chain(m, d, hd2, lv \cup {p}, w)
  BY <1>9, <1>10, <1>13, <1>14, <1>15 DEF Chain
<1>17. FreeList(hd2, lv \cup {p}, w)
  BY <1>2, <1>4, <1>7, <1>16 DEF FreeList
<1>. QED
  BY <1>4, <1>17 DEF hd2, w

\* The end of the file, when the list is empty.
LEMMA FileGrows ==
  ASSUME NEW hd, NEW lv, NEW v, FreeList(hd, lv, v), hd.free_page_head = 0,
         hd.next_page_id <= MaxPage
  PROVE  LET p == hd.next_page_id IN
         /\ p \in Page \ lv
         /\ FreeList([hd EXCEPT !.next_page_id = @ + 1], lv \cup {p}, Put(v, p, Zeroed))
<1>. DEFINE p == hd.next_page_id
            hd2 == [hd EXCEPT !.next_page_id = @ + 1]
            w == Put(v, p, Zeroed)
<1>1. PICK n, c : Chain(n, c, hd, lv, v)
  BY DEF FreeList
<1>2. /\ hd \in [free_page_head : Nat, next_page_id : Nat]
      /\ p \in 1..MaxPage /\ lv \subseteq 1..(p - 1)
  BY PagerAssumption DEF FreeList
<1>3. n = 0
  <2>1. ASSUME n # 0 PROVE FALSE
    <3>1. c[1] = 0 /\ c[1] \in Page
      BY <2>1, <1>1 DEF Chain
    <3>. QED
      BY <3>1 DEF Page
  <2>. QED
    BY <2>1
<1>4. /\ hd2 \in [free_page_head : Nat, next_page_id : Nat]
      /\ hd2.next_page_id = p + 1 /\ hd2.free_page_head = 0
  BY <1>2
<1>5. {c[i] : i \in 1..n} = (1..(p - 1)) \ lv
  BY <1>1 DEF Chain
<1>6. {c[i] : i \in 1..n} = {}
  BY <1>3
<1>7. (1..(hd2.next_page_id - 1)) \ (lv \cup {p}) = {}
  BY <1>2, <1>4, <1>5, <1>6
<1>. HIDE DEF w, hd2
<1>8. Chain(n, c, hd2, lv \cup {p}, w)
  BY <1>1, <1>3, <1>4, <1>6, <1>7 DEF Chain
<1>9. lv \cup {p} \subseteq 1..(hd2.next_page_id - 1)
  <2>1. p \in Nat /\ hd2.next_page_id - 1 = p
    BY <1>2, <1>4
  <2>2. \A q \in lv \cup {p} : q \in 1..p
    BY <1>2
  <2>. QED
    BY <2>1, <2>2
<1>10. FreeList(hd2, lv \cup {p}, w)
  BY <1>2, <1>4, <1>8, <1>9, PagerAssumption DEF FreeList
<1>. QED
  BY <1>2, <1>10 DEF hd2, w, Page

-----------------------------------------------------------------------------
\* The operations.  Each keeps the invariant; what it does to the view of the
\* callers is stated too, for the refinement.
Same == View(frame, disk)' = View(frame, disk)

LEMMA GetPageInv ==
  ASSUME Inv, NEW t \in Use, NEW p \in Page, GetPage(t, p)
  PROVE  Inv' /\ Same
<1>1. PICK i \in FrameFor(p), want \in Got(t) :
        /\ frame' = [frame EXCEPT ![i] = Loaded(i, p)]
        /\ disk' = WrittenBack(i, p)
        /\ hold' = [hold EXCEPT ![t][p] = want]
        /\ at' = [at EXCEPT ![t][p] = i]
  BY DEF GetPage
<1>2. /\ hold[t][p] = "none" /\ header' = header /\ live' = live
      /\ want \in {"want_r", "want_w", "pinned"}
  BY DEF GetPage, Got
<1>3. /\ hold \in [Use -> [Page -> HoldState]]
      /\ at \in [Use -> [Page -> Frames \cup {NoFrame}]]
  BY DEF Inv, Pins
<1>4. /\ i \in Frames /\ Pool(frame', disk', Wrote(hold))
      /\ View(frame', disk') = View(frame, disk)
      /\ frame'[i].page = p /\ frame'[i].pin = Cardinality(Users(hold, p)) + 1
  BY <1>1, Loading
<1>5. /\ \A j \in Frames \ {i} : frame'[j].pin = PinsOf(hold, frame'[j].page)
      /\ \A u \in Use, q \in Page :
           hold[u][q] # "none" => at[u][q] \in Frames /\ frame'[at[u][q]].page = q
  BY <1>1, LoadingPins
<1>6. /\ hold' \in [Use -> [Page -> HoldState]]
      /\ \A u \in Use, q \in Page :
           hold'[u][q] = IF u = t /\ q = p THEN want ELSE hold[u][q]
  BY <1>1, <1>2, <1>3 DEF HoldState
<1>7. /\ at' \in [Use -> [Page -> Frames \cup {NoFrame}]]
      /\ \A u \in Use, q \in Page :
           at'[u][q] = IF u = t /\ q = p THEN i ELSE at[u][q]
  BY <1>1, <1>3, <1>4
<1>8. Wrote(hold') = Wrote(hold)
  BY <1>2, <1>6 DEF Wrote, Unmarked
<1>9. ASSUME NEW j \in Frames PROVE frame'[j].pin = PinsOf(hold', frame'[j].page)
  <2>1. CASE j = i
    <3>1. Users(hold', p) = Users(hold, p) \cup {t} /\ t \notin Users(hold, p)
      BY <1>2, <1>6 DEF Users
    <3>2. IsFiniteSet(Users(hold, p))
      BY UseFinite, FS_Subset DEF Users
    <3>3. Cardinality(Users(hold', p)) = Cardinality(Users(hold, p)) + 1
      BY <3>1, <3>2, FS_AddElement
    <3>. QED
      BY <2>1, <3>3, <1>4 DEF PinsOf, Page
  <2>2. CASE j # i
    <3>1. frame'[j].page = 0 \/ frame'[j].page \in Page
      BY <1>4, PagerAssumption DEF Pool, Frame, Page
    <3>2. frame'[j].page # p
      BY <2>2, <1>4 DEF Pool, Apart, Page
    <3>3. frame'[j].page \in Page => Users(hold', frame'[j].page) = Users(hold, frame'[j].page)
      BY <3>2, <1>6 DEF Users
    <3>. QED
      BY <2>2, <3>1, <3>3, <1>5 DEF PinsOf
  <2>. QED
    BY <2>1, <2>2
<1>10. Pins(frame', hold', at')
  BY <1>4, <1>5, <1>6, <1>7, <1>9 DEF Pins
<1>11. Exclusive'
  BY <1>2, <1>6 DEF Inv, Exclusive, Writing, Latched
<1>. QED
  BY <1>2, <1>4, <1>8, <1>10, <1>11 DEF Inv, Same

LEMMA LatchInv ==
  ASSUME Inv, NEW t \in Use, NEW p \in Page, Latch(t, p)
  PROVE  Inv' /\ Same
<1>1. UNCHANGED <<frame, disk, header, live, at>>
  BY DEF Latch
<1>2. hold \in [Use -> [Page -> HoldState]]
  BY DEF Inv, Pins
<1>3. PICK new \in {"r", "w"} :
        /\ hold' = [hold EXCEPT ![t][p] = new]
        /\ hold[t][p] \in {"want_r", "want_w"}
        /\ \A u \in Use, q \in Page :
             at[u][q] = at[t][p] =>
               hold[u][q] \notin IF new = "r" THEN Writing ELSE Latched
  BY DEF Latch
<1>4. /\ hold' \in [Use -> [Page -> HoldState]]
      /\ \A u \in Use, q \in Page :
           hold'[u][q] = IF u = t /\ q = p THEN new ELSE hold[u][q]
  <2>1. new \in HoldState
    BY DEF HoldState, Latched, Writing
  <2>. QED
    BY <2>1, <1>2, <1>3
<1>5. Wrote(hold') = Wrote(hold)
  BY <1>3, <1>4 DEF Wrote, Unmarked
<1>6. Pins(frame', hold', at')
  <2>1. SameUsers(hold, hold') /\ SamePages(frame, frame')
    BY <1>1, <1>3, <1>4 DEF SameUsers, SamePages
  <2>2. Pins(frame, hold, at) /\ frame \in [Frames -> Frame]
    BY DEF Inv, Pool
  <2>3. Pins(frame', hold', at)
    BY <2>1, <2>2, SamePins
  <2>. QED
    BY <2>3, <1>1
<1>7. ASSUME NEW u \in Use, u # t, hold[u][p] \in Latched
      PROVE  at[u][p] = at[t][p]
  <2>1. /\ at[u][p] \in Frames /\ frame[at[u][p]].page = p
        /\ at[t][p] \in Frames /\ frame[at[t][p]].page = p
    BY <1>3, <1>7 DEF Inv, Pins, Latched, Writing
  <2>. QED
    BY <2>1 DEF Inv, Pool, Apart, Page
<1>8. Exclusive'
  <2>. SUFFICES ASSUME NEW q \in Page, NEW u \in Use, NEW v \in Use, u # v,
                       hold'[u][q] \in Writing
                PROVE  hold'[v][q] \notin Latched
    BY DEF Exclusive
  <2>1. CASE q # p \/ (u # t /\ v # t)
    BY <2>1, <1>4 DEF Inv, Exclusive
  <2>2. CASE q = p /\ u = t
    <3>1. new = "w"
      BY <2>2, <1>4 DEF Writing
    <3>. QED
      BY <2>2, <3>1, <1>3, <1>4, <1>7
  <2>3. CASE q = p /\ v = t
    <3>1. hold[u][p] \in Writing
      BY <2>3, <1>4
    <3>2. at[u][p] = at[t][p]
      BY <2>3, <3>1, <1>7 DEF Latched
    <3>. QED
      BY <3>1, <3>2, <1>3 DEF Latched
  <2>. QED
    BY <2>1, <2>2, <2>3
<1>. QED
  BY <1>1, <1>5, <1>6, <1>8 DEF Inv, Same

LEMMA WriteInv ==
  ASSUME Inv, NEW t \in Use, NEW p \in Page, NEW w \in Words, Write(t, p, w)
  PROVE  /\ Inv'
         /\ p \in live
         /\ View(frame, disk)' = Put(View(frame, disk), p, [type |-> "used", word |-> w])
<1>. DEFINE i == at[t][p]
            c == [type |-> "used", word |-> w]
            h == IF hold[t][p] \in Writing THEN "wrote" ELSE "pinned_wrote"
<1>1. /\ p \in live /\ hold[t][p] # "none"
      /\ frame' = [frame EXCEPT ![i].data = c]
      /\ hold' = [hold EXCEPT ![t][p] = h]
      /\ hold[t][p] \in Writing <=> h = "wrote"
      /\ UNCHANGED <<disk, header, live, at>>
  BY DEF Write, Writing
<1>2. hold \in [Use -> [Page -> HoldState]] /\ frame \in [Frames -> Frame]
  BY DEF Inv, Pins, Pool
<1>3. i \in Frames /\ frame[i].page = p
  BY <1>1 DEF Inv, Pins
<1>4. c \in Content
  BY PagerAssumption DEF Content
<1>5. /\ frame' \in [Frames -> Frame] /\ frame'[i].data = c
      /\ \A j \in Frames \ {i} : frame'[j] = frame[j]
      /\ frame'[i].page = frame[i].page /\ frame'[i].pin = frame[i].pin
  <2>1. frame[i] \in Frame /\ frame'[i] = [frame[i] EXCEPT !.data = c]
    BY <1>1, <1>2, <1>3
  <2>2. /\ frame'[i] \in Frame /\ frame'[i].data = c
        /\ frame'[i].page = frame[i].page /\ frame'[i].pin = frame[i].pin
    BY <2>1, <1>4 DEF Frame
  <2>3. frame' = [frame EXCEPT ![i] = frame'[i]]
    BY <1>1, <1>2, <1>3
  <2>. QED
    BY <2>2, <2>3, <1>2, <1>3
<1>6. /\ hold' \in [Use -> [Page -> HoldState]]
      /\ \A u \in Use, q \in Page :
           hold'[u][q] = IF u = t /\ q = p THEN h ELSE hold[u][q]
  BY <1>1, <1>2 DEF HoldState, Latched, Writing
<1>7. h \in {"wrote", "pinned_wrote"}
  OBVIOUS
<1>. HIDE DEF i, c, h
<1>12. Wrote(hold) \subseteq Wrote(hold') \cup {p} /\ p \in Wrote(hold')
  BY <1>6, <1>7 DEF Wrote, Unmarked
<1>8. /\ Pool(frame', disk, Wrote(hold'))
      /\ View(frame', disk) = Put(View(frame, disk), p, frame'[i].data)
  <2>1. Replaced(frame, frame', i, p)
    BY <1>3, <1>5 DEF Replaced
  <2>. QED
    BY <2>1, <1>12, Changing DEF Inv
<1>9. Pins(frame', hold', at')
  <2>1. SameUsers(hold, hold') /\ SamePages(frame, frame')
    BY <1>1, <1>5, <1>6, <1>7 DEF SameUsers, SamePages
  <2>2. Pins(frame, hold, at)
    BY DEF Inv
  <2>3. Pins(frame', hold', at)
    BY <2>1, <2>2, <1>2, SamePins
  <2>. QED
    BY <2>3, <1>1
<1>10. FreeList(header', live', View(frame', disk'))
  <2>1. \A q \in Page \ live : View(frame', disk)[q] = View(frame, disk)[q]
    BY <1>1, <1>8 DEF Put, View
  <2>. QED
    BY <2>1, <1>1, ListUntouched DEF Inv
<1>11. Exclusive'
  BY <1>1, <1>6, <1>7 DEF Inv, Exclusive, Writing, Latched
<1>. QED
  BY <1>1, <1>5, <1>8, <1>9, <1>10, <1>11 DEF Inv, c

LEMMA MarkDirtyInv ==
  ASSUME Inv, NEW t \in Use, NEW p \in Page, pager_mark_dirty(t, p)
  PROVE  Inv' /\ Same
<1>. DEFINE i == at[t][p]
            f1 == [j \in Frames |-> IF j \in Resident(p)
                                    THEN [frame[j] EXCEPT !.dirty = TRUE]
                                    ELSE frame[j]]
            S == FlushSet(f1, lru)
            h == IF hold[t][p] = "wrote" THEN "w" ELSE "pinned"
<1>1. /\ hold[t][p] \in Unmarked
      /\ frame' = Cleaned(f1, S) /\ disk' = Stored(disk, f1, S)
      /\ hold' = [hold EXCEPT ![t][p] = h]
      /\ UNCHANGED <<header, live, at>>
  BY DEF pager_mark_dirty
<1>2. /\ hold \in [Use -> [Page -> HoldState]] /\ frame \in [Frames -> Frame]
      /\ Pool(frame, disk, Wrote(hold)) /\ Apart(frame)
  BY DEF Inv, Pins, Pool
<1>3. i \in Frames /\ frame[i].page = p
  BY <1>1 DEF Inv, Pins, Unmarked
<1>4. Resident(p) = {i}
  BY <1>2, <1>3 DEF Resident, Apart, Page
<1>5. /\ f1 \in [Frames -> Frame]
      /\ \A j \in Frames \ {i} : f1[j] = frame[j]
      /\ f1[i].page = p /\ f1[i].dirty /\ f1[i].data = frame[i].data
      /\ f1[i].pin = frame[i].pin
  <2>1. frame[i] \in Frame /\ f1[i] = [frame[i] EXCEPT !.dirty = TRUE]
    BY <1>2, <1>3, <1>4
  <2>2. /\ f1[i] \in Frame /\ f1[i].page = frame[i].page /\ f1[i].dirty
        /\ f1[i].data = frame[i].data /\ f1[i].pin = frame[i].pin
    BY <2>1 DEF Frame
  <2>3. \A j \in Frames \ {i} : f1[j] = frame[j]
    BY <1>4
  <2>. QED
    BY <2>2, <2>3, <1>2, <1>3
<1>6. S \subseteq DirtyFrames(f1)
  BY DEF FlushSet
<1>7. /\ hold' \in [Use -> [Page -> HoldState]]
      /\ \A u \in Use, q \in Page :
           hold'[u][q] = IF u = t /\ q = p THEN h ELSE hold[u][q]
      /\ h \in {"w", "pinned"} /\ (h = "w" <=> hold[t][p] = "wrote")
  BY <1>1, <1>2 DEF HoldState, Latched, Writing
<1>8. Wrote(hold) \subseteq Wrote(hold') \cup {p}
  BY <1>7 DEF Wrote
<1>. HIDE DEF i, f1, S, h
<1>9. /\ Pool(f1, disk, Wrote(hold'))
      /\ View(f1, disk) = View(frame, disk)
  <2>1. Replaced(frame, f1, i, p) /\ (f1[i].dirty \/ p \in Wrote(hold'))
    BY <1>3, <1>5 DEF Replaced
  <2>2. Pool(frame, disk, Wrote(hold))
    BY <1>2
  <2>3. /\ Pool(f1, disk, Wrote(hold'))
        /\ View(f1, disk) = Put(View(frame, disk), p, f1[i].data)
    BY <2>1, <2>2, <1>8, Changing
  <2>4. LatestIn(frame, disk, p) = frame[i].data
    BY <1>2, <1>3, ViewInFrame
  <2>5. f1[i].data = View(frame, disk)[p]
    BY <2>4, <1>5 DEF View
  <2>. QED
    BY <2>3, <2>5 DEF Put, View
<1>10. /\ Pool(frame', disk', Wrote(hold')) /\ View(frame', disk') = View(frame, disk)
       /\ SamePages(f1, frame')
  BY <1>1, <1>6, <1>9, Flushing
<1>11. Pins(frame', hold', at')
  <2>1. SameUsers(hold, hold') /\ SamePages(frame, frame')
    BY <1>1, <1>3, <1>5, <1>7, <1>10 DEF SameUsers, SamePages, Unmarked
  <2>2. Pins(frame, hold, at)
    BY DEF Inv
  <2>3. Pins(frame', hold', at)
    BY <2>1, <2>2, <1>2, SamePins
  <2>. QED
    BY <2>3, <1>1
<1>12. Exclusive'
  BY <1>1, <1>7 DEF Inv, Exclusive, Writing, Latched
<1>. QED
  BY <1>1, <1>10, <1>11, <1>12 DEF Inv, Same

LEMMA UnpinInv ==
  ASSUME Inv, NEW t \in Use, NEW p \in Page, Unpin(t, p)
  PROVE  Inv' /\ Same
<1>1. /\ hold[t][p] \in {"r", "w", "pinned"}
      /\ frame' = [i \in Frames |-> IF i \in Resident(p) /\ frame[i].pin > 0
                                     THEN [frame[i] EXCEPT !.pin = @ - 1]
                                     ELSE frame[i]]
      /\ hold' = [hold EXCEPT ![t][p] = "none"]
      /\ at' = [at EXCEPT ![t][p] = NoFrame]
      /\ UNCHANGED <<disk, header, live>>
  BY DEF Unpin, Unpinning
<1>2. /\ hold \in [Use -> [Page -> HoldState]] /\ frame \in [Frames -> Frame]
      /\ at \in [Use -> [Page -> Frames \cup {NoFrame}]]
      /\ Pool(frame, disk, Wrote(hold)) /\ Apart(frame)
      /\ \A j \in Frames : frame[j].pin = PinsOf(hold, frame[j].page)
  BY DEF Inv, Pins, Pool
<1>3. ASSUME NEW j \in Frames
      PROVE  /\ frame'[j] \in Frame
             /\ frame'[j].page = frame[j].page /\ frame'[j].dirty = frame[j].dirty
             /\ frame'[j].data = frame[j].data
             /\ frame'[j].pin = IF frame[j].page = p /\ frame[j].pin > 0
                                THEN frame[j].pin - 1 ELSE frame[j].pin
  <2>1. frame[j] \in Frame
    BY <1>2
  <2>2. frame'[j] = IF frame[j].page = p /\ frame[j].pin > 0
                    THEN [frame[j] EXCEPT !.pin = @ - 1] ELSE frame[j]
    BY <1>1 DEF Resident
  <2>. QED
    BY <2>1, <2>2 DEF Frame
<1>4. frame' \in [Frames -> Frame]
  BY <1>1, <1>3
<1>5. Pool(frame', disk, Wrote(hold)) /\ View(frame', disk) = View(frame, disk)
  BY <1>2, <1>3, <1>4, SamePool
<1>6. /\ hold' \in [Use -> [Page -> HoldState]]
      /\ \A u \in Use, q \in Page :
           hold'[u][q] = IF u = t /\ q = p THEN "none" ELSE hold[u][q]
  BY <1>1, <1>2 DEF HoldState
<1>7. /\ at' \in [Use -> [Page -> Frames \cup {NoFrame}]]
      /\ \A u \in Use, q \in Page :
           at'[u][q] = IF u = t /\ q = p THEN NoFrame ELSE at[u][q]
  BY <1>1, <1>2
<1>8. Wrote(hold') = Wrote(hold)
  BY <1>1, <1>6 DEF Wrote, Unmarked
<1>9. ASSUME NEW j \in Frames PROVE frame'[j].pin = PinsOf(hold', frame'[j].page)
  <2>1. CASE frame[j].page = p
    <3>1. Users(hold', p) = Users(hold, p) \ {t} /\ t \in Users(hold, p)
      BY <1>1, <1>6 DEF Users
    <3>2. IsFiniteSet(Users(hold, p))
      BY UseFinite, FS_Subset DEF Users
    <3>3. /\ Cardinality(Users(hold', p)) = Cardinality(Users(hold, p)) - 1
          /\ Cardinality(Users(hold, p)) \in Nat
          /\ Cardinality(Users(hold', p)) \in Nat
      BY <3>1, <3>2, FS_RemoveElement, FS_CardinalityType
    <3>4. frame[j].pin = Cardinality(Users(hold, p)) /\ p # 0
      BY <2>1, <1>2 DEF PinsOf, Page
    <3>. QED
      BY <2>1, <3>3, <3>4, <1>3 DEF PinsOf
  <2>2. CASE frame[j].page # p
    <3>1. frame[j].page = 0 \/ frame[j].page \in Page
      BY <1>2, PagerAssumption DEF Frame, Page
    <3>2. frame[j].page \in Page => Users(hold', frame[j].page) = Users(hold, frame[j].page)
      BY <2>2, <1>6 DEF Users
    <3>. QED
      BY <2>2, <3>1, <3>2, <1>2, <1>3 DEF PinsOf
  <2>. QED
    BY <2>1, <2>2
<1>10. ASSUME NEW u \in Use, NEW q \in Page, hold'[u][q] # "none"
       PROVE  at'[u][q] \in Frames /\ frame'[at'[u][q]].page = q
  <2>1. hold[u][q] # "none" /\ at'[u][q] = at[u][q]
    BY <1>6, <1>7, <1>10
  <2>2. at[u][q] \in Frames /\ frame[at[u][q]].page = q
    BY <2>1 DEF Inv, Pins
  <2>. QED
    BY <2>1, <2>2, <1>3
<1>11. Pins(frame', hold', at')
  BY <1>6, <1>7, <1>9, <1>10 DEF Pins
<1>12. Exclusive'
  BY <1>6 DEF Inv, Exclusive, Writing, Latched
<1>. QED
  BY <1>1, <1>5, <1>8, <1>11, <1>12 DEF Inv, Same

LEMMA AllocInv ==
  ASSUME Inv, pager_alloc_page
  PROVE  /\ Inv'
         /\ \E p \in Page \ live :
              /\ live' = live \cup {p}
              /\ View(frame, disk)' = Put(View(frame, disk), p, Zeroed)
<1>1. UNCHANGED <<hold, at>>
  BY DEF pager_alloc_page
<1>2. Zeroed \in Content
  BY DEF Zeroed, Content
<1>3. FreeList(header, live, View(frame, disk)) /\ Exclusive'
  BY <1>1 DEF Inv, Exclusive
<1>4. CASE header.free_page_head # 0
  <2>. DEFINE p == header.free_page_head
  <2>1. PICK i \in FrameFor(p) :
          /\ header' = [header EXCEPT !.free_page_head = Loaded(i, p).data.word]
          /\ Rewrite(i, p, Zeroed)
          /\ live' = live \cup {p}
    BY <1>4 DEF pager_alloc_page
  <2>2. /\ p \in Page \ live
        /\ FreeList([header EXCEPT !.free_page_head = View(frame, disk)[p].word],
                    live \cup {p}, Put(View(frame, disk), p, Zeroed))
    BY <1>3, <1>4, ListShrinks
  <2>. HIDE DEF p
  <2>3. Loaded(i, p).data = View(frame, disk)[p]
    BY <2>2, Loading DEF View
  <2>4. /\ Pool(frame', disk', Wrote(hold)) /\ Pins(frame', hold, at)
        /\ View(frame', disk') = Put(View(frame, disk), p, Zeroed)
    BY <2>1, <2>2, <1>2, Rewriting
  <2>5. FreeList(header', live', View(frame', disk'))
    BY <2>1, <2>2, <2>3, <2>4
  <2>. QED
    BY <2>1, <2>2, <2>4, <2>5, <1>1, <1>3 DEF Inv
<1>5. CASE header.free_page_head = 0
  <2>. DEFINE p == header.next_page_id
  <2>1. p <= MaxPage
    BY <1>5 DEF pager_alloc_page
  <2>2. PICK i \in FrameFor(p) :
          /\ header' = [header EXCEPT !.next_page_id = @ + 1]
          /\ Rewrite(i, p, Zeroed)
          /\ live' = live \cup {p}
    BY <1>5 DEF pager_alloc_page
  <2>3. /\ p \in Page \ live
        /\ FreeList([header EXCEPT !.next_page_id = @ + 1],
                    live \cup {p}, Put(View(frame, disk), p, Zeroed))
    BY <2>1, <1>3, <1>5, FileGrows
  <2>. HIDE DEF p
  <2>4. /\ Pool(frame', disk', Wrote(hold)) /\ Pins(frame', hold, at)
        /\ View(frame', disk') = Put(View(frame, disk), p, Zeroed)
    BY <2>2, <2>3, <1>2, Rewriting
  <2>5. FreeList(header', live', View(frame', disk'))
    BY <2>2, <2>3, <2>4
  <2>. QED
    BY <2>2, <2>3, <2>4, <2>5, <1>1, <1>3 DEF Inv
<1>. QED
  BY <1>4, <1>5

LEMMA FreeInv ==
  ASSUME Inv, NEW p \in Page, pager_free_page(p)
  PROVE  /\ Inv'
         /\ p \in live /\ live' = live \ {p}
         /\ \E c : View(frame, disk)' = Put(View(frame, disk), p, c)
<1>. DEFINE c == [type |-> "free", word |-> header.free_page_head]
<1>1. /\ p \in live /\ live' = live \ {p}
      /\ header' = [header EXCEPT !.free_page_head = p]
      /\ hold' = hold /\ at' = at
  BY DEF pager_free_page
<1>2. PICK i \in FrameFor(p) : Rewrite(i, p, c)
  BY DEF pager_free_page
<1>3. c \in Content
  BY DEF Inv, FreeList, Content
<1>4. /\ Pool(frame', disk', Wrote(hold)) /\ Pins(frame', hold, at)
      /\ View(frame', disk') = Put(View(frame, disk), p, c)
  BY <1>2, <1>3, Rewriting
<1>5. View(frame, disk) \in [Page -> Content]
  BY ViewType DEF View, Inv
<1>6. FreeList(header', live', View(frame', disk'))
  <2>1. FreeList(header, live, View(frame, disk))
    BY DEF Inv
  <2>2. FreeList([header EXCEPT !.free_page_head = p], live \ {p},
                 Put(View(frame, disk), p, c))
    BY <2>1, <1>1, <1>5, ListGrows
  <2>. QED
    BY <2>2, <1>1, <1>4
<1>. QED
  BY <1>1, <1>4, <1>6 DEF Inv, Exclusive

\* Nobody has a page: before pager_flush_all and pager_close.
LEMMA QuietFacts ==
  ASSUME Inv, Quiet
  PROVE  /\ \A t \in Use, p \in Page : hold[t][p] = "none"
         /\ Wrote(hold) = {}
BY DEF Quiet, Wrote, Unmarked

LEMMA FlushAllInv ==
  ASSUME Inv, pager_flush_all
  PROVE  Inv' /\ Same
<1>1. /\ frame' = Cleaned(frame, DirtyFrames(frame))
      /\ disk' = Stored(disk, frame, DirtyFrames(frame))
      /\ UNCHANGED <<header, live, hold, at>>
  BY DEF pager_flush_all
<1>2. Pool(frame, disk, Wrote(hold)) /\ Pins(frame, hold, at)
  BY DEF Inv
<1>3. /\ Pool(frame', disk', Wrote(hold)) /\ View(frame', disk') = View(frame, disk)
      /\ SamePages(frame, frame')
  BY <1>1, <1>2, Flushing
<1>4. Pins(frame', hold, at)
  <2>1. SameUsers(hold, hold) /\ frame \in [Frames -> Frame]
    BY <1>2 DEF SameUsers, Pins, Pool
  <2>. QED
    BY <2>1, <1>2, <1>3, SamePins
<1>. QED
  BY <1>1, <1>3, <1>4 DEF Inv, Same, Exclusive

LEMMA ReopenInv ==
  ASSUME Inv, Reopen
  PROVE  Inv' /\ Same
<1>. DEFINE D == DirtyFrames(frame)
            fs == Cleaned(frame, D)
<1>1. /\ Quiet /\ disk' = Stored(disk, frame, D)
      /\ frame' = [i \in Frames |-> EmptyFrame]
      /\ header' = header /\ UNCHANGED <<live, hold, at>>
  BY DEF Reopen
<1>2. (\A t \in Use, p \in Page : hold[t][p] = "none") /\ Wrote(hold) = {}
  BY <1>1, QuietFacts
<1>3. Pool(frame, disk, Wrote(hold)) /\ frame \in [Frames -> Frame]
  BY DEF Inv, Pool
<1>4. Pool(fs, disk', Wrote(hold)) /\ View(fs, disk') = View(frame, disk)
  BY <1>1, <1>3, Flushing
<1>5. ASSUME NEW i \in Frames, fs[i].page # 0
      PROVE  ~fs[i].dirty
  <2>1. fs[i] = IF i \in D THEN [frame[i] EXCEPT !.dirty = FALSE] ELSE frame[i]
    BY DEF Cleaned
  <2>2. frame[i] \in Frame
    BY <1>3
  <2>. QED
    BY <2>1, <2>2, <1>5 DEF DirtyFrames, Frame
<1>. HIDE DEF fs, D
<1>6. ASSUME NEW p \in Page PROVE LatestIn(fs, disk', p) = disk'[p]
  <2>1. CASE \E i \in Frames : fs[i].page = p
    <3>1. PICK i \in Frames : fs[i].page = p
      BY <2>1
    <3>2. fs[i].data = disk'[p]
      BY <3>1, <1>2, <1>4, <1>5 DEF Pool, Page
    <3>3. LatestIn(fs, disk', p) = fs[i].data
      BY <3>1, <1>4, ViewInFrame DEF Pool
    <3>. QED
      BY <3>2, <3>3
  <2>2. CASE \A i \in Frames : fs[i].page # p
    BY <2>2, ViewInFile
  <2>. QED
    BY <2>1, <2>2
<1>7. /\ frame' \in [Frames -> Frame]
      /\ \A i \in Frames : frame'[i].page = 0 /\ frame'[i].pin = 0
  <2>1. EmptyFrame \in Frame /\ EmptyFrame.page = 0 /\ EmptyFrame.pin = 0
    BY PagerAssumption DEF EmptyFrame, Frame, Zeroed, Content
  <2>. QED
    BY <2>1, <1>1
<1>8. ASSUME NEW p \in Page PROVE LatestIn(frame', disk', p) = disk'[p]
  <2>1. \A i \in Frames : frame'[i].page # p
    BY <1>7 DEF Page
  <2>. QED
    BY <2>1, ViewInFile
<1>9. View(frame', disk') = View(frame, disk)
  BY <1>4, <1>6, <1>8 DEF View
<1>10. Pool(frame', disk', Wrote(hold))
  BY <1>4, <1>7 DEF Pool, Apart
<1>11. Pins(frame', hold, at)
  BY <1>2, <1>7 DEF Inv, Pins, PinsOf
<1>. QED
  BY <1>1, <1>9, <1>10, <1>11 DEF Inv, Same, Exclusive

\* pager_open(create) starts within the invariant, and every step keeps it.
LEMMA InitInv == Init => Inv
<1>. SUFFICES ASSUME Init PROVE Inv
  OBVIOUS
<1>1. /\ frame = [i \in Frames |-> EmptyFrame] /\ disk = [p \in Page |-> Zeroed]
      /\ header = [free_page_head |-> 0, next_page_id |-> 3] /\ live = {1, 2}
      /\ hold = [t \in Use |-> [p \in Page |-> "none"]]
      /\ at = [t \in Use |-> [p \in Page |-> NoFrame]]
  BY DEF Init
<1>2. /\ EmptyFrame \in Frame /\ EmptyFrame.page = 0 /\ EmptyFrame.pin = 0
      /\ Zeroed \in Content
  BY PagerAssumption DEF EmptyFrame, Frame, Zeroed, Content
<1>3. Pool(frame, disk, Wrote(hold))
  BY <1>1, <1>2 DEF Pool, Apart
<1>4. Pins(frame, hold, at)
  BY <1>1, <1>2 DEF Pins, PinsOf, HoldState
<1>5. FreeList(header, live, View(frame, disk))
  <2>1. Chain(0, << >>, header, live, View(frame, disk))
    BY <1>1 DEF Chain
  <2>2. header.next_page_id = 3 /\ 3 \in 1..(MaxPage + 1)
    BY <1>1, PagerAssumption
  <2>3. live \subseteq 1..(header.next_page_id - 1)
    BY <1>1, <2>2
  <2>. QED
    BY <2>1, <2>2, <2>3, <1>1 DEF FreeList
<1>6. Exclusive
  BY <1>1 DEF Exclusive, Writing
<1>. QED
  BY <1>3, <1>4, <1>5, <1>6 DEF Inv

LEMMA NextInv ==
  ASSUME Inv, Step, status' = "right"
  PROVE  Inv'
<1>1. ASSUME NEW u \in Use, NEW p \in Page,
             GetPage(u, p) \/ Latch(u, p) \/ pager_mark_dirty(u, p) \/ Unpin(u, p)
      PROVE  Inv'
  BY <1>1, GetPageInv, LatchInv, MarkDirtyInv, UnpinInv
<1>2. ASSUME NEW u \in Use, NEW p \in Page, NEW w \in Words, Write(u, p, w)
      PROVE  Inv'
  BY <1>2, WriteInv
<1>3. ASSUME NEW p \in Page, pager_free_page(p)
      PROVE  Inv'
  BY <1>3, FreeInv
<1>4. CASE pager_alloc_page \/ pager_flush_all \/ Reopen
  BY <1>4, AllocInv, FlushAllInv, ReopenInv
<1>5. ~NoFrameLeft /\ \A t \in Threads, p \in Page : ~ExtraUnpin(t, p)
  BY DEF NoFrameLeft, ExtraUnpin
<1>. QED
  BY <1>1, <1>2, <1>3, <1>4, <1>5 DEF Step

\* The invariant that the theorems rest on, in every state of the pager
\* (pager.c as a whole) that is reached before a pin is given back once too often
\* (bptree.c:839, 856, 893, 935, 972, 1001) or a frame is missing.
THEOREM Invariance == Spec => []InvWhileRight
<1>1. Init => InvWhileRight
  BY InitInv DEF InvWhileRight
<1>2. InvWhileRight /\ [Next]_vars => InvWhileRight'
  <2>1. CASE UNCHANGED vars
    BY <2>1 DEF vars, InvWhileRight, Inv, Exclusive
  <2>2. CASE Next
    BY <2>2, NextInv DEF Next, InvWhileRight
  <2>. QED
    BY <2>1, <2>2
<1>. QED
  BY <1>1, <1>2, PTL DEF Spec

-----------------------------------------------------------------------------
\* Until a pin is given back once too often (bptree.c:839, 856, 893, 935, 972,
\* 1001), a page is in one frame at most, a pointer to it points into that frame,
\* and the frame has a pin for every use: evict_frame takes no page away from a
\* thread that is at it, for any number of threads, of pins and of frames, and
\* whatever is pinned a second time, written, flushed, freed and allocated.
THEOREM PinsAreExact == Spec => []PinsExact
<1>1. ASSUME InvWhileRight, status = "right" PROVE PinsExact
  <2>0. Inv
    BY <1>1 DEF InvWhileRight
  <2>1. \A i \in Frames : PinsOf(hold, frame[i].page) =
          IF frame[i].page = 0 THEN 0 ELSE Cardinality(Holders(frame[i].page))
    BY DEF PinsOf, Users, Holders
  <2>. QED
    BY <2>0, <2>1 DEF Inv, Pool, Apart, Pins, PinsExact, Resident
<1>2. ASSUME status # "right" PROVE PinsExact
  BY <1>2 DEF PinsExact
<1>3. InvWhileRight => PinsExact
  BY <1>1, <1>2
<1>. QED
  BY <1>3, Invariance, PTL

\* Until then a page has one latched writer or any number of latched readers,
\* although the latches of pager_get_page_rlatch and pager_get_page_wlatch belong
\* to frames and frames change their pages.
THEOREM LatchesExclude == Spec => []LatchExcludes
<1>1. InvWhileRight => LatchExcludes
  BY DEF InvWhileRight, Inv, Exclusive, LatchExcludes
<1>. QED
  BY <1>1, Invariance, PTL

-----------------------------------------------------------------------------
\* What Pager calls Latest is the view.
LEMMA LatestIsView ==
  ASSUME Inv, NEW p \in Page
  PROVE  Latest(p) = View(frame, disk)[p]
<1>1. CASE \E i \in Frames : frame[i].page = p
  <2>1. PICK i \in Frames : frame[i].page = p
    BY <1>1
  <2>2. Resident(p) = {i}
    BY <2>1 DEF Resident, Inv, Pool, Apart, Page
  <2>3. Latest(p) = frame[i].data
    BY <2>2 DEF Latest
  <2>4. LatestIn(frame, disk, p) = frame[i].data
    BY <2>1, ViewInFrame DEF Inv, Pool
  <2>. QED
    BY <2>3, <2>4 DEF View
<1>2. CASE \A i \in Frames : frame[i].page # p
  <2>1. LatestIn(frame, disk, p) = disk[p] /\ Latest(p) = disk[p]
    BY <1>2, ViewInFile DEF Latest, Resident
  <2>. QED
    BY <2>1 DEF View
<1>. QED
  BY <1>1, <1>2

\* The variable content of PageStore, from the view.
Contents == [p \in Page |-> IF p \in live THEN View(frame, disk)[p].word ELSE 0]

Mapped == Contents = [p \in Page |-> IF p \in live THEN Latest(p).word ELSE 0]

LEMMA ContentsMapped == Inv => Mapped
BY LatestIsView DEF Contents, Mapped

LEMMA StepRefines ==
  ASSUME Inv, Step, status' = "right"
  PROVE  \/ live' = live /\ Contents' = Contents
         \/ \E p \in Page \ live : live' = live \cup {p} /\ Contents' = Contents
         \/ \E p \in live : live' = live \ {p} /\ Contents' = [Contents EXCEPT ![p] = 0]
         \/ \E p \in live, w \in Words : live' = live /\ Contents' = [Contents EXCEPT ![p] = w]
<1>0. live \subseteq Page
  BY PagerAssumption DEF Inv, FreeList, Page
<1>1. ASSUME Same, live' = live PROVE Contents' = Contents
  BY <1>1 DEF Same, Contents
<1>3. ASSUME NEW t \in Use, NEW p \in Page,
             GetPage(t, p) \/ Latch(t, p) \/ pager_mark_dirty(t, p) \/ Unpin(t, p)
      PROVE  live' = live /\ Contents' = Contents
  <2>1. live' = live
    BY <1>3 DEF GetPage, Latch, pager_mark_dirty, Unpin
  <2>. QED
    BY <2>1, <1>1, <1>3, GetPageInv, LatchInv, MarkDirtyInv, UnpinInv
<1>4. ASSUME NEW t \in Use, NEW p \in Page, NEW w \in Words, Write(t, p, w)
      PROVE  p \in live /\ live' = live /\ Contents' = [Contents EXCEPT ![p] = w]
  <2>1. p \in live /\ View(frame, disk)' = Put(View(frame, disk), p, [type |-> "used", word |-> w])
    BY <1>4, WriteInv
  <2>2. live' = live
    BY <1>4 DEF Write
  <2>3. \A q \in Page : View(frame, disk)'[q] =
          IF q = p THEN [type |-> "used", word |-> w] ELSE View(frame, disk)[q]
    BY <2>1 DEF Put, View
  <2>4. \A q \in Page : Contents'[q] = IF q = p THEN w ELSE Contents[q]
    BY <2>1, <2>2, <2>3 DEF Contents
  <2>. QED
    BY <2>1, <2>2, <2>4 DEF Contents
<1>5. ASSUME pager_alloc_page
      PROVE  \E p \in Page \ live : live' = live \cup {p} /\ Contents' = Contents
  <2>1. PICK p \in Page \ live :
          /\ live' = live \cup {p}
          /\ View(frame, disk)' = Put(View(frame, disk), p, Zeroed)
    BY <1>5, AllocInv
  <2>2. \A q \in Page : View(frame, disk)'[q] = IF q = p THEN Zeroed ELSE View(frame, disk)[q]
    BY <2>1 DEF Put, View
  <2>3. \A q \in Page : Contents'[q] = Contents[q]
    BY <2>1, <2>2 DEF Contents, Zeroed
  <2>. QED
    BY <2>1, <2>3 DEF Contents
<1>6. ASSUME NEW p \in Page, pager_free_page(p)
      PROVE  p \in live /\ live' = live \ {p} /\ Contents' = [Contents EXCEPT ![p] = 0]
  <2>1. p \in live /\ live' = live \ {p}
    BY <1>6, FreeInv
  <2>2. PICK c : View(frame, disk)' = Put(View(frame, disk), p, c)
    BY <1>6, FreeInv
  <2>3. \A q \in Page \ {p} : View(frame, disk)'[q] = View(frame, disk)[q]
    BY <2>2 DEF Put, View
  <2>. QED
    BY <2>1, <2>3 DEF Contents
<1>7. CASE pager_flush_all \/ Reopen
  <2>1. live' = live
    BY <1>7 DEF pager_flush_all, Reopen
  <2>. QED
    BY <2>1, <1>1, <1>7, FlushAllInv, ReopenInv
<1>8. ~NoFrameLeft /\ \A t \in Threads, p \in Page : ~ExtraUnpin(t, p)
  BY DEF NoFrameLeft, ExtraUnpin
<1>9. CASE \E t \in Use, p \in Page :
             GetPage(t, p) \/ Latch(t, p) \/ pager_mark_dirty(t, p) \/ Unpin(t, p)
  BY <1>9, <1>3
<1>10. CASE \E t \in Use, p \in Page, w \in Words : Write(t, p, w)
  BY <1>10, <1>4
<1>11. CASE \E p \in Page : pager_free_page(p)
  BY <1>11, <1>6
<1>. QED
  BY <1>5, <1>7, <1>8, <1>9, <1>10, <1>11 DEF Step

\* Where the model ends, the pages are what they were.
LEMMA EndRefines ==
  ASSUME Step, status' # "right", status = "right"
  PROVE  live' = live /\ \A p \in Page : Latest(p)' = Latest(p)
<1>1. ASSUME NEW t \in Threads, NEW p \in Page, ExtraUnpin(t, p)
      PROVE  live' = live /\ \A q \in Page : Latest(q)' = Latest(q)
  <2>1. live' = live /\ disk' = disk /\ frame' = Unpinning(p)
    BY <1>1 DEF ExtraUnpin
  <2>2. \A i \in Frames : frame'[i].page = frame[i].page /\ frame'[i].data = frame[i].data
    BY <2>1 DEF Unpinning
  <2>3. \A q \in Page : Resident(q)' = Resident(q)
    BY <2>2 DEF Resident
  <2>4. \A q \in Page : Resident(q) # {} => (CHOOSE i \in Resident(q) : TRUE) \in Frames
    BY DEF Resident
  <2>. QED
    BY <2>1, <2>2, <2>3, <2>4 DEF Latest
<1>2. CASE NoFrameLeft
  BY <1>2 DEF NoFrameLeft, Latest, Resident
<1>3. \A u \in Use, p \in Page :
        ~GetPage(u, p) /\ ~Latch(u, p) /\ ~pager_mark_dirty(u, p) /\ ~Unpin(u, p)
  BY DEF GetPage, Latch, pager_mark_dirty, Unpin
<1>4. \A u \in Use, p \in Page, w \in Words : ~Write(u, p, w)
  BY DEF Write
<1>5. \A p \in Page : ~pager_free_page(p)
  BY DEF pager_free_page
<1>6. ~pager_alloc_page /\ ~pager_flush_all /\ ~Reopen
  BY DEF pager_alloc_page, pager_flush_all, Reopen
<1>. QED
  BY <1>1, <1>2, <1>3, <1>4, <1>5, <1>6 DEF Step

\* Eviction, write-back, flushing, closing and opening (evict_frame,
\* pager_flush_dirty, pager_flush_all, pager_close, pager_open) change nothing
\* that the callers can see, a freed page comes back zeroed, and no page is
\* allocated twice: the pager implements the store of pages.
THEOREM Refinement == Spec => ImplementsPageStore
<1>1. ASSUME Init PROVE Store!Init
  <2>1. Inv /\ live = {1, 2} /\ disk = [p \in Page |-> Zeroed]
        /\ \A i \in Frames : frame[i].page = 0
    BY <1>1, InitInv DEF Init, EmptyFrame
  <2>2. live \subseteq Page
    BY <2>1, PagerAssumption DEF Page
  <2>3. ASSUME NEW p \in Page PROVE Latest(p).word = 0
    <3>1. Resident(p) = {}
      BY <2>1 DEF Resident, Page
    <3>. QED
      BY <2>1, <3>1 DEF Latest, Zeroed
  <2>. QED
    BY <2>2, <2>3 DEF Store!Init
<1>2. ASSUME Inv, Mapped, Mapped', Step, status' = "right"
      PROVE  [Store!Next]_(Store!vars)
  <2>1. /\ Contents = [p \in Page |-> IF p \in live THEN Latest(p).word ELSE 0]
        /\ Contents' = [p \in Page |-> IF p \in live' THEN Latest(p)'.word ELSE 0]
    BY <1>2 DEF Mapped
  <2>2. live \subseteq Page
    BY <1>2, PagerAssumption DEF Inv, FreeList, Page
  <2>3. CASE live' = live /\ Contents' = Contents
    BY <2>1, <2>3 DEF Store!vars
  <2>4. CASE \E p \in Page \ live : live' = live \cup {p} /\ Contents' = Contents
    BY <2>1, <2>4 DEF Store!Next, Store!Alloc
  <2>5. CASE \E p \in live : live' = live \ {p} /\ Contents' = [Contents EXCEPT ![p] = 0]
    BY <2>1, <2>2, <2>5 DEF Store!Next, Store!Free
  <2>6. CASE \E p \in live, w \in Words :
               live' = live /\ Contents' = [Contents EXCEPT ![p] = w]
    BY <2>1, <2>2, <2>6 DEF Store!Next, Store!Write
  <2>. QED
    BY <1>2, <2>3, <2>4, <2>5, <2>6, StepRefines
<1>3. ASSUME Step, status' # "right", status = "right"
      PROVE  [Store!Next]_(Store!vars)
  BY <1>3, EndRefines DEF Store!vars
<1>4. ASSUME UNCHANGED vars PROVE [Store!Next]_(Store!vars)
  BY <1>4 DEF vars, Store!vars, Latest, Resident
<1>5. InvWhileRight /\ InvWhileRight' /\ [Next]_vars => [Store!Next]_(Store!vars)
  <2>1. Inv => Mapped
    BY ContentsMapped
  <2>2. Inv' => Mapped'
    BY <2>1, PTL
  <2>3. CASE InvWhileRight /\ InvWhileRight' /\ Next /\ status' = "right"
    BY <2>1, <2>2, <2>3, <1>2 DEF InvWhileRight, Next
  <2>4. CASE Next /\ status' # "right"
    BY <2>4, <1>3 DEF Next
  <2>. QED
    BY <2>3, <2>4, <1>4
<1>. QED
  BY <1>1, <1>5, Invariance, PTL DEF Spec, ImplementsPageStore, Store!Spec

-----------------------------------------------------------------------------
\* The free list as FreeListExact follows it, through the pages themselves.
LEMMA FollowedChain ==
  ASSUME NEW g, g = [n \in 0..MaxPage |->
           IF n = 0 THEN header.free_page_head
           ELSE IF g[n - 1] \in Page THEN Latest(g[n - 1]).word ELSE 0]
  PROVE  FreeChain = [n \in 0..MaxPage |->
           IF n = 0 THEN header.free_page_head
           ELSE IF FreeChain[n - 1] \in Page THEN Latest(FreeChain[n - 1]).word ELSE 0]
BY DEF FreeChain

\* Followed through the pages, the list gives the pages of c and then 0.
LEMMA ChainMeets ==
  ASSUME Inv, NEW n, NEW c, Chain(n, c, header, live, View(frame, disk))
  PROVE  /\ n <= MaxPage
         /\ \A k \in 0..MaxPage : FreeChain[k] = IF k < n THEN c[k + 1] ELSE 0
<1>. DEFINE G == [k \in 0..MaxPage |-> IF k < n THEN c[k + 1] ELSE 0]
            Link(f, k) == IF k = 0 THEN header.free_page_head
                          ELSE IF f[k - 1] \in Page THEN Latest(f[k - 1]).word ELSE 0
<1>1. /\ MaxPage \in Nat /\ n \in Nat /\ c \in [1..n -> Page]
      /\ \A i, j \in 1..n : c[i] = c[j] => i = j
      /\ header.free_page_head = IF n = 0 THEN 0 ELSE c[1]
  BY PagerAssumption DEF Chain
<1>2. \A i \in 1..n : Latest(c[i]).word = IF i = n THEN 0 ELSE c[i + 1]
  <2>. SUFFICES ASSUME NEW i \in 1..n
                PROVE  Latest(c[i]).word = IF i = n THEN 0 ELSE c[i + 1]
    OBVIOUS
  <2>1. c[i] \in Page
    BY <1>1
  <2>2. Latest(c[i]) = View(frame, disk)[c[i]]
    BY <2>1, LatestIsView
  <2>3. View(frame, disk)[c[i]] = [type |-> "free", word |-> IF i = n THEN 0 ELSE c[i + 1]]
    BY DEF Chain
  <2>. QED
    BY <2>2, <2>3
<1>3. n <= MaxPage
  <2>1. /\ IsFiniteSet(1..n) /\ Cardinality(1..n) = n
        /\ IsFiniteSet(1..MaxPage) /\ Cardinality(1..MaxPage) = MaxPage
    <3>1. \A m \in Nat : IsFiniteSet(1..m) /\ Cardinality(1..m) = m
      BY FS_Interval
    <3>. QED
      BY <3>1, <1>1
  <2>2. ASSUME MaxPage < n PROVE FALSE
    <3>1. c \in [1..n -> 1..MaxPage] /\ Cardinality(1..MaxPage) < Cardinality(1..n)
      BY <1>1, <2>1, <2>2 DEF Page
    <3>2. \E i, j \in 1..n : i # j /\ c[i] = c[j]
      BY <2>1, <3>1, FS_PigeonHole
    <3>. QED
      BY <3>2, <1>1
  <2>. QED
    BY <2>2, <1>1
<1>4. ASSUME NEW k \in 0..MaxPage PROVE G[k] = Link(G, k)
  <2>1. CASE k = 0
    BY <2>1, <1>1
  <2>2. CASE k # 0 /\ k - 1 < n
    <3>1. k \in 1..n /\ G[k - 1] = c[k] /\ c[k] \in Page
      BY <2>2, <1>1
    <3>2. Link(G, k) = IF k = n THEN 0 ELSE c[k + 1]
      BY <2>2, <3>1, <1>2
    <3>. QED
      BY <3>1, <3>2, <1>1
  <2>3. CASE k # 0 /\ ~(k - 1 < n)
    <3>1. G[k - 1] = 0 /\ 0 \notin Page /\ ~(k < n)
      BY <2>3, <1>1 DEF Page
    <3>. QED
      BY <2>3, <3>1
  <2>. QED
    BY <2>1, <2>2, <2>3
<1>5. G = [k \in 0..MaxPage |-> Link(G, k)]
  BY <1>4
<1>6. FreeChain = [k \in 0..MaxPage |-> Link(FreeChain, k)]
  <2>. HIDE DEF G
  <2>. QED
    BY <1>5, FollowedChain
<1>7. \A k \in 0..MaxPage : FreeChain[k] = Link(FreeChain, k)
  <2>. DEFINE F == FreeChain
  <2>1. F = [k \in 0..MaxPage |-> Link(F, k)]
    BY <1>6
  <2>. HIDE DEF F
  <2>2. \A k \in 0..MaxPage : F[k] = Link(F, k)
    BY <2>1
  <2>. QED
    BY <2>2 DEF F
<1>. DEFINE Differ == {k \in 0..MaxPage : FreeChain[k] # G[k]}
<1>8. Differ = {}
  <2>. SUFFICES ASSUME Differ # {} PROVE FALSE
    OBVIOUS
  <2>. DEFINE less == OpToRel(<, Nat)
  <2>1. \A x, y \in Nat : <<y, x>> \in less <=> y < x
    BY DEF OpToRel
  <2>2. IsWellFoundedOn(less, Nat)
    BY NatLessThanWellFounded
  <2>. HIDE DEF less
  <2>3. Differ \subseteq Nat
    OBVIOUS
  <2>4. PICK k \in Differ : \A j \in Differ : ~(<<j, k>> \in less)
    BY <2>2, <2>3, WFMin
  <2>5. k \in 0..MaxPage /\ FreeChain[k] # G[k]
    BY <2>4
  <2>6. k # 0 => FreeChain[k - 1] = G[k - 1]
    <3>1. k # 0 => k - 1 \in 0..MaxPage /\ k - 1 \in Nat /\ k \in Nat /\ k - 1 < k
      BY <2>5, <1>1
    <3>2. k # 0 => k - 1 \notin Differ
      BY <2>1, <2>4, <3>1
    <3>. QED
      BY <3>1, <3>2
  <2>. HIDE DEF G
  <2>7. Link(FreeChain, k) = Link(G, k)
    BY <2>6
  <2>. QED
    BY <2>5, <2>7, <1>4, <1>7
<1>9. ASSUME NEW k \in 0..MaxPage
      PROVE  FreeChain[k] = IF k < n THEN c[k + 1] ELSE 0
  <2>1. FreeChain[k] = G[k]
    BY <1>8
  <2>. QED
    BY <2>1
<1>. QED
  BY <1>3, <1>9

\* The list of free pages, as pager_alloc_page and pager_free_page thread it
\* through the pages, is free of cycles and of pages in use, and together with
\* the pages in use it has every page of the file: none is lost or given out twice,
\* until a pin is given back once too often.
THEOREM FreePagesExact == Spec => []FreeListExact
<1>1. ASSUME Inv, status = "right" PROVE FreeListExact
  <2>. DEFINE met == {FreeChain[k] : k \in 0..MaxPage} \ {0}
  <2>1. PICK n, c : Chain(n, c, header, live, View(frame, disk))
    BY <1>1 DEF Inv, FreeList
  <2>2. /\ n \in Nat /\ n <= MaxPage /\ MaxPage \in Nat
        /\ \A k \in 0..MaxPage : FreeChain[k] = IF k < n THEN c[k + 1] ELSE 0
    BY <1>1, <2>1, ChainMeets, PagerAssumption DEF Chain
  <2>3. /\ \A i \in 1..n : c[i] \in Page /\ c[i] # 0
        /\ \A i, j \in 1..n : c[i] = c[j] => i = j
    BY <2>1 DEF Chain, Page
  <2>4. FreeChain[MaxPage] = 0
    BY <2>2
  <2>5. ASSUME NEW m \in 0..MaxPage, NEW k \in 0..MaxPage,
               FreeChain[m] = FreeChain[k], m # k
        PROVE  FreeChain[m] = 0
    <3>1. CASE m < n /\ k < n
      <4>1. m + 1 \in 1..n /\ k + 1 \in 1..n /\ c[m + 1] = c[k + 1]
        BY <3>1, <2>2, <2>5
      <4>. QED
        BY <4>1, <2>3, <2>5
    <3>2. CASE ~(m < n /\ k < n)
      BY <3>2, <2>2, <2>5
    <3>. QED
      BY <3>1, <3>2
  <2>6. met = {c[i] : i \in 1..n}
    <3>1. \A k \in 0..MaxPage : FreeChain[k] # 0 => k + 1 \in 1..n /\ FreeChain[k] = c[k + 1]
      BY <2>2
    <3>2. \A i \in 1..n : i - 1 \in 0..MaxPage /\ FreeChain[i - 1] = c[i]
      BY <2>2
    <3>. QED
      BY <3>1, <3>2, <2>3
  <2>7. met = (1..(header.next_page_id - 1)) \ live
    BY <2>1, <2>6 DEF Chain
  <2>8. live \subseteq 1..(header.next_page_id - 1)
    BY <1>1 DEF Inv, FreeList
  <2>9. ASSUME NEW p \in met PROVE Latest(p).type = "free"
    <3>1. PICK i \in 1..n : p = c[i]
      BY <2>6
    <3>2. Latest(p) = View(frame, disk)[c[i]]
      BY <1>1, <2>3, <3>1, LatestIsView
    <3>3. View(frame, disk)[c[i]] = [type |-> "free", word |-> IF i = n THEN 0 ELSE c[i + 1]]
      BY <2>1 DEF Chain
    <3>. QED
      BY <3>2, <3>3
  <2>. HIDE DEF met
  <2>10. met \cap live = {} /\ met \cup live = 1..(header.next_page_id - 1)
    BY <2>7, <2>8
  <2>. QED
    BY <2>4, <2>5, <2>9, <2>10 DEF FreeListExact, met
<1>2. InvWhileRight => FreeListExact
  <2>1. status # "right" => FreeListExact
    BY DEF FreeListExact
  <2>. QED
    BY <1>1, <2>1 DEF InvWhileRight
<1>. QED
  BY <1>2, Invariance, PTL
=============================================================================
