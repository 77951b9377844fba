# MiniDB in TLA+

TLA+ modules for MiniDB, the small SQL database in `src/` (a pager over one
file, heap tables, a B+ tree on the `id` column, row and range locks, an HTTP
server with one thread per connection). The modules are translated from the C
source; the tests and documents were read for what they claim. TLC checks them
on small instances, and TLAPS proves what is marked as proved for every value of
the constants.

    tlc -workers 2 -config MCLockTable.cfg MCLockTable.tla
    tlapm LockTableProofs.tla

## 1. The system

| Part | State | Operations | Talks to |
| --- | --- | --- | --- |
| Lock table, `server/lock_table.c` | point entries in buckets, range entries in a list, entries per thread, `waiting_writers`, one mutex and condition | `lock_acquire`, `lock_acquire_range`, `lock_release_all` | called by `db.c` and the executor |
| Pager, `storage/pager.c` | frames (page, dirty, pin, tick, latch), hash index, header, free page list, file | get / latch / unlatch / mark dirty / alloc / free / flush / open / close | used by the tree, the heap and DROP TABLE |
| B+ tree, `storage/bptree.c` | leaf and inner pages, `root_index_page_id` in the header | search, range scan, insert, delete | pages and latches of the pager |
| Heap, `storage/table.c` | chain of heap pages, slots, free slots per page, `last_heap_page_id`, hint `heap_may_have_free_slots` | insert, fetch, delete, scan | pages and latches, `header_lock` |
| Schema, `storage/schema.c` | none | layout, row encoding | executor |
| Parser, planner, `sql/` | none | SQL text to statement, statement to access path | `db.c`, executor |
| Executor, `sql/executor.c` | `next_id`, `row_count`, schema in the header | one function per statement kind | heap, tree, lock table |
| Statement locking, `db.c` | engine rwlock, the global lock table | `db_execute`: row lock, engine lock, execute, release | everything above |
| Server, `server/server.c`, `http.c` | `g_running`, table of connections and its count, condition | accept loop, connection threads, shutdown | `db_execute`, pager |
| REPL, `main.c` | none of its own | read, parse, execute, release | executor, pager |

How they interact: connection threads call `db_execute`. A statement by `id`
takes its row lock first and the engine lock (shared; exclusive for CREATE and
DROP) afterwards; an INSERT and a statement that scans take their row locks
inside the executor, under the engine lock. Below that, the tree takes page
latches hand over hand, the heap one at a time, and the pager serialises every
operation with `pager_mutex`, taking a page's latch outside of it.

What is hard about it: threads interleave at every lock wait and every latch;
a latch belongs to a frame although frames change their pages; pages are freed
and handed out again while others wait for them; scans go along the leaves
beside splits and merges; waits end by a broadcast, a deadline or for no reason;
SIGINT arrives on any thread. What makes the parts correct:

* lock table: exclusion over points and ranges, no lost wake-up, writer
  preference that neither starves a writer nor holds readers back for nothing;
* pager: no page lost, given out twice or taken from under its user; every
  frame written back before it is reused; a sound free list;
* tree: a set of keys with linearizable operations, scans that miss nothing,
  balance, no leaked page, no deadlock;
* heap: a row's slot is its own until it is deleted; free slots are found again;
* engine: a statement sees and changes rows only under its locks, heap and index
  agree, `row_count` is the number of rows, a statement that fails changes nothing;
* server: no socket or slot lost, a shutdown that ends and waits for everybody.

The hazards behind these, line by line, are in `PROJECT.json`, each with the
properties that watch it or the reason why none does.

## 2. Plan

The modules were written from the bottom up, each part first alone and then as
what it promises to the part above:

| Part | Promise (abstract) | Detailed | Proofs |
| --- | --- | --- | --- |
| lock table | `LockManager` | `LockTable` | `LockTableProofs` |
| pager | `PageStore` | `Pager` | `PagerProofs` |
| heap | `RowStore` | `Heap` | `HeapProofs` |
| tree | `KeySet` | `BPTree` | `BPTreeShape`, `BPTreeInvariant`, `BPTreeProofs` |
| statements | `Table` | `Engine`, `Statement` | `EngineProofs` |
| server | | `Server` | `ServerProofs` |

`Engine` composes the promises: it runs over the locks of `LockManager`, the set
of `KeySet` and the store of `RowStore`, each an atomic step, and
`LockTable`, `BPTree` and `Heap` are shown to keep those promises. (`BPTree` does
so as long as no two insertions or deletions are in the tree at once, `Heap` until its
latch slip happens; section 5 says where the code does not, and the results on
`Engine` are relative to what it builds on.)

What is left: theorems of `ScanSound` and the refinement of `KeySet` from the
invariant of `BPTreeInvariant` (it says where a key belongs; what is missing is
which keys there are), and `BPTree` over the pins of `Pager`, for which both state
spaces at once are too large here: `Pager` has what the tree does with its pins,
the unpin too many of `fix_internal_underflow_latched` (`bptree.c:893`) included.

Modules that are proved about keep recursion in recursive functions, take their
parameters as CONSTANTS with a named assumption, and have one action per
operation.

## 3. The modules

### LockTable, LockManager, LockTableProofs

`LockTable` is `lock_table.c`. `entries` is the union of buckets and range list
(an entry knows its owner, so the per-thread lists are `Own(t)`); `status`,
`request` and `registered` are the locals of a call: asleep or woken, what it
asks for, `waiting_writer`. Each stretch under the mutex is one action: `Call`
up to the first wait, `Retry` from a wake-up to the next wait, `Timeout`,
`lock_release_all`; both functions go through `Attempt` = `Sleep`, `Grant` or
`AllocFailure`. `LockManager` is the abstract specification: who holds which
key in which mode, without waiting. Hash chains, statistics and `clock_gettime`
are left out.

| Run | Question | Instance |
| --- | --- | --- |
| `lock_table` | exclusion, wake-ups, preference, refinement, every call returns | 3 threads, 3 rows, points, part-overlapping ranges, upgrades, failing `calloc` |

Three threads are what conflicts need: two owners and one that waits. Three rows
give ranges that overlap in part and that contain each other. `AllocBound` caps
the counter that failed allocations make grow: after a failed `calloc` a writer
that had waited leaves `waiting_writers` one too high (`lock_table.c:288`), so that
what is promised is `WaitersNotUndercounted`, never too low. Fairness: a woken
thread runs, a deadline passes if it can (`pthread_cond_timedwait`), and a
statement that does not wait ends and releases its locks. Nothing is assumed about
new calls.

### Pager, PageStore

`frame`, `lru`, `disk`, `header` are the pool, the order of `used_tick`, the file
and the header in memory. A thread can use a page in two ways at once (`Use`):
under its latch (`pager_get_page_rlatch`, `_wlatch`) and by a pin of its own
(`pager_get_page`), as the tree does when it pins a page it has latched before
(`bptree.c:472`, `1034`). `hold` and `at` are what each use is at (pinned, waiting
for the latch, reading, writing, written but not marked dirty) and the frame its
pointer goes to. An operation is one action because of `pager_mutex`; the latch is
a step of its own (`Latch`) because it is taken outside of it. `Write` needs a
write latch or a pin, whoever else has the latch: the tree changes parents,
children and neighbours under a pin alone (`bptree.c:490`, `680`, `773`, `1205`).
`PageStore` is what the callers may rely on: numbered pages that keep what was
written.

The model ends in two places that the code does not exclude. `NoFrameLeft`: every
frame is pinned, `pager_get_page` returns NULL and the caller uses it; nothing in the
code bounds the pins of its 128 connections by its 256 frames. `ExtraUnpin`:
`propagate_delete` pins and unpins the node it looks at (`bptree.c:821`, `824`), and
`fix_internal_underflow_latched` unpins it once more (lines 839, 856, 893, 935, 972 and
1001), so that a latched page has no pin, against `pager.c:575`. From there on an
eviction may give the frame to another page under the latch; `PinsExact`,
`LatchExcludes` and `FreeListExact` are stated up to there (`status = "right"`), and
`Unpin` gives back each pin once. `ImplementsPageStore` holds for all of a behaviour.

Run `pager`: 2 threads, 2 frames, 3 pages, one word to write, two pins at a time,
watermarks 2 and 1. Two frames for three pages make every access a possible
eviction; two pins are a latch and a second pin of its page, two users of one page,
or two pinned frames and nothing left for a third page (`NoFrameLeft`). Page 3 is
beyond what `pager_open` allocates, so the free list and the end of the file are both
used. `MaxPins` and `MaxPage` are the bounds; the theorems hold whatever they are.
Threads are interchangeable, and frames are, which the run uses as symmetry. Deadlock is not checked, since a behaviour
stops where the model ends.

### BPTree, KeySet

`node` holds the pages, `root` and `free` the header and the free list, `th` the
locals of each thread with its latches in `held` (the `latch_stack_t` of a
writer, one page of a reader). A latch is taken in one step with the work up to
the next latch. Two places are split further because the code reads and writes
back a neighbour's header without its latch: `InsertLeaf` / `SplitLeaf` and
`Merge` / `Unlink`. The repair of an inner node and of a leaf are the same
steps, `BorrowRight`, `BorrowLeft`, `Merge`, `Unlink`, `propagate_delete`, one
level further up. Abstracted: entries are their keys; `parent_page_id` and
`prev_leaf_page_id` are never followed and left out; slots past `key_count` are
0 where the code leaves old entries; pins and frames are the pager's. `KeySet`
is the abstract specification: each search, insertion and deletion takes effect
at one instant between its call and its return. `seen` is a history variable:
what was in the tree all the time, or at some time, while a scan runs.

| Run | Question | Instance |
| --- | --- | --- |
| `bptree` | balance, order, separators, page accounting, does every call return | an updater and a searcher; keys 1-6 in every order, at most 2 keys a page, up to 3 levels |
| `bptree_latch` | freed pages, scans, linearizability | an updater and a reader, keys 1-4, any free page may be allocated |
| `bptree_scan` (violated) | does every call return beside a scan | a deletion and a scan on two leaves |
| `bptree_header` (violated) | linearizability with two writers | a deletion and an insertion on three leaves |

Two keys a page is the least with a minimum of one, so every insertion into a
full page splits and every second deletion repairs; six keys reach the split,
borrowing and merging of inner nodes. `AnyPage` chooses whether allocation may
return any free page (so that a freed page comes back at once, in every role) or
the least one. `bptree_latch` has one writer because two are refuted by
`bptree_header`, and does not check for deadlock because `bptree_scan` refutes
that: `bptree` checks deadlock and return where there is no scan. Fairness:
strong for the steps of a thread, since a latch that becomes free again and
again is granted at some time; `CallsReturn` makes an exception for a root that
changes for ever, because `goto retry` has no bound.

### Heap, RowStore

`Heap` is `table.c`. `page` holds the pages as `heap_page_header_t` and `slot_t`
lay them out (offsets are kept, rows are not), `last` and `hint` are
`last_heap_page_id` and `heap_may_have_free_slots`, `header_lock` its owner,
`readers` the read latches, `th` the locals of each call. A stretch under one
latch is one action. The test of the tail is two, `TailLatch` and `TailUnlatch`,
because `find_heap_page` evaluates `last_heap_page_id` once to latch and once
more to unlatch; when the tail has moved in between, a latch is released by a
thread that does not have it, `undefined` becomes TRUE and nothing is specified
from there on. `WriteRow` is `retry_insert`: it tests for room again under the
latch it writes with, and goes back to `AllocPage` when there is none. A scan
takes a page at a time (`ScanPage`) or a slot at a time (`ScanSlots`, `ScanSlot`):
when `malloc` fails, and always where the page has slots and no row left, since the
code asks for no snapshot then (`table.c:479`); rows put into its slots meanwhile are
met or missed. Room and offsets are `uint16_t` (`U16`); that a page is smaller than
64 KiB is part of `HeapAssumption`, for in a larger one no row would ever fit. `RowStore` is the abstract specification: places that have a row or
have none. `seen` is a history variable for the scans, as in `BPTree`.

| Run | Question | Instance |
| --- | --- | --- |
| `heap` | layout, free slots, scans, refinement, does every call return | 2 threads that both insert, one deletes and one scans; 3 pages of 2 rows |
| `heap_tail` (violated) | is every latch given back by its owner | the same |

A page of 64 bytes with rows of 10 has room for two rows and 12 bytes to spare,
so that a row without its slot would still fit: an error in `available_space`
shows. With three pages the chain is extended twice, also by both threads at
once. `MaxPage` is the only bound; `CallInsert` starts no insertion when the file has
no page left. An insertion may find the page it has allocated filled by others, and
allocate again, as often as there are pages: `goto retry_insert` has no bound, and
`CallsReturn` promises the return of every call but of an insertion that waits for a
page in a file that is full. It makes no promise either after the latch slip of
`heap_tail`. Fairness: strong for the steps inside a call, since latches and
`header_lock` are held for a bounded time; nothing of new calls. Deadlock is not
checked, since a behaviour stops where it becomes undefined or the file is full.

### Engine, Statement, Table

`Statement` is what the parser leaves and the planner, `db.c` and the executor
read: `predicate_kind` (`parse_where`), `planner_create_plan`, `determine_lock`,
`match_predicate`. The table has the column `id` and one more. Values of a WHERE are
signed and ids are not: `Unsigned` is the conversion to `uint64_t`, `CompareSigned`
what `match_predicate` compares, `CompareKey` what the range scan of the index
compares. They differ for a negative bound on `id`: `SELECT ... WHERE id <= -1` goes
through the index and prints every row, where a DELETE with the same WHERE removes
none. `LongMax` is INT64_MAX; `EngineAssumption` says that ids stay below it.

`Engine` is `db_execute` and the executor. `heap`, `index`, `next_id` and
`row_count` are the stores, `held` the row locks, `th` the locals of the
statement a thread executes. Each call of the heap, the tree, the lock table and
each change of the header is a step: `exec_insert` is `TakeId`, `LockOwn`,
`heap_insert`, `bptree_insert`, `CountUp`; a scan that changes rows is `ScanRow`
to the end of the heap, `lock_collected_ids` one id at a time, and then search,
fetch, test and change for each id; `exec_index_range_scan` collects places with
`range_collect_cb` and reads them later with `ReadRow`. Any lock may fail
(`RowLockFails`, `LockFails`), as may the allocations of a scan (`CollectFails`).
CREATE and DROP hold the engine lock alone and are one step each. `readers_pass`
is what POSIX leaves open: whether readers pass a writer that waits for the
engine lock. `Table` is the promise: rows change one at a time, by a statement of
the right kind, and a DELETE or UPDATE changes only what satisfies its WHERE at
that moment.

| Run | Question | Instance |
| --- | --- | --- |
| `engine` | heap against index, `row_count`, lost updates, failed statements, refinement, do statements end | 3 threads: scans and a range; INSERT and statements by `id`; DROP and CREATE; 2 ids, ages 0-2 |
| `engine_range` (violated) | does a SELECT on a range of ids print rows of the range only | 3 threads, 3 ids: the SELECT, a DELETE, an INSERT |

Two ids are enough for a scan that locks more than one row and for a place that
is used again by another row; DROP TABLE starts the ids again. `MaxId` bounds
them: `Begin` starts no INSERT that would go beyond. `Refs` equals the ids, since
a row that is inserted finds a place as long as there is an id for it. `LongMax` is 7 in the
runs: ids and their bounds stay within it and no statement of the workloads has a
negative bound.

Fairness: strong for entering the engine, weak for a thread that can go on, but for
one thing the code does not guarantee: while a deletion and a range scan are in the
tree at once (`StandOff`) each may wait for the other's latch for ever
(`bptree_scan`), and so may everyone else in the tree (`AtTree`); nothing is assumed of
their steps then. `StatementsEnd` therefore promises the end of every statement
except in behaviours with a `StandOff` for ever or again and again, or in which two
insertions have been in the heap at once, where one may leave a latch behind
(`heap_tail`). Without the first exception TLC finds the deletion and the scan
standing still. That a DDL statement ends is promised only where readers do not pass.

### Server, ServerProofs

`Server` is `server.c`: `loop` is where `server_run` is, `conn[s]` the thread
that was given slot `s`, `open` and `shut` the sockets in the kernel, numbered
as the kernel numbers them, lowest first, so that a closed number comes back at
once; `client` what has arrived on a socket. `sigint_handler` interrupts `accept`
only when the loop is in it and the signal goes to its thread. `setsockopt`, the
registration, `pthread_create` and `accept` may fail. A statement is one step.
Runs: `server` with two slots, three sockets and a backlog of two, where the
table gets full, numbers are reused and connections end before, during and after
the shutdown; `server_sigint` (violated). Fairness: the threads are scheduled and
`recv` ends after its 30 seconds at the latest; nothing of clients or signals.

## 4. What is proved

Assumed are the named assumptions on the constants, which TLC evaluates in the
runs: `LockTableAssumption` (threads finite, keys integers, ranges in order),
`ServerAssumption` (at least one slot), `PagerAssumption` (finite threads and
frames, two pages at least, watermarks in order), `HeapAssumption` (a row fits into an
empty page, which is smaller than 64 KiB), `BPTreeAssumption` (some thread, and the
sizes of pages) and `EngineAssumption` (the initial rows have the ids 1 to n, and ids
are below INT64_MAX).

`LockTableProofs`: every safety property of the run `lock_table` and the
refinement of `LockManager`, for any threads, keys and workload. `TypeOK` and
`NoConflict` go by one case per action. `WaitsForMore` is not inductive alone:
that a grant replaces the own shared entry by one that covers it needs the
entries and requests to come from the workload, hence `Inv`. `NoLostWakeup`
rests on two facts: a step that removes an entry or lowers the counter
broadcasts, and every other step keeps a blocked thread blocked.
`WaitersNotUndercounted` compares the counter with the cardinality of the
registered threads, one step of `register` and `unregister` at a time. The
refinement shows that a grant is `Acquire`, a release is `Release`, and the rest
stutters.

`PagerProofs`: `PinsExact`, `LatchExcludes`, `FreeListExact` and the refinement of
`PageStore`, for any number of frames and of pins. The invariant `Inv` has four parts. `Pool`: no page
is in two frames, and a frame that is not dirty agrees with the file, except where
a writer is about to call `pager_mark_dirty`. `Pins`: a frame has one pin for each
use of its page, latch or pin, which is what keeps `evict_frame` off it, until the
extra unpin. `FreeList`: a sequence
of distinct pages that leads from the header through the pages and has every page
that is not in use. `LatchExcludes` needs `Pins`, since latches belong to frames.
An operation is put together from three lemmas, `Loading`, `Flushing` and
`Changing`, that say what it does to the pool and that the callers see nothing of
the first two; the refinement comes from the same lemmas. `FreeListExact` follows
the list with a recursive function; that it meets the pages of that sequence goes
by the least place where the two would part. That the frames suffice is no theorem:
the code does not see to it.

`HeapProofs` has three parts. `RowsApart` and `FreeSlotsExact` are about single pages, and
rest on what `Reuse`, `Extend` and `Freed` do to a page that is sound; what other
threads do does not matter, because every change is made, and the room for it
tested, under the write latch of the page.

Second, `Heap` implements `RowStore`. `Rows` are the rows a scan can
reach, those on the pages met from the first page on, and a step of the code
changes one page. What connects the two is the invariant `Linking`: all pages with
slots are on one path, every page that `find_heap_page` or `heap_insert` has chosen
for a row is on it, and `header_lock` is held from the choice of a new page until
the tail names it (`Joined`), so that no two threads link a page behind the same
tail. With that the rows that can be reached are the rows of all pages
(`RowsReached`, along the path as in `PagerProofs`), `WriteRow` is `Insert` or no
change, `heap_delete` is `Delete`, and no other step changes a row. The theorem
covers the behaviours up to the latch slip of `heap_tail`: after it `Heap` specifies
nothing.

Third, `HeapScanSound` and the type invariant of `Heap`. A scan that has come to
a page has shown rows of the pages before it and of no other, and the path of
`Linking` only grows at its end (`Grows`, which `LinkLinks` gives for each step), so
the place of the scan on it stays. `ScanAt` says where it is and that every row it
must show is shown or lies before it. Slot by slot, without memory for a snapshot,
the slot count and the successor were read earlier: a row added meanwhile may have a
slot past the count, and a page may have been linked behind the last one, but such
rows were not there at the call and need not be shown; the same goes for a page that
had no row when the scan came to it. `RowsAt` numbers the slots of a
page by their rank, and `RowsAtIs` shows that this lists each of them once. In
`TypeOK` the counters of a scan are numbers and the tail is a heap page because it is
on the path.

`BPTreeShape`, `BPTreeInvariant` and `BPTreeProofs`: `TypeOK`, `NoFreedPageRead`,
`PagesAccounted` and `Balanced` of `BPTree`, for any pages, page sizes, threads and
requests. Two hypotheses are in the theorems. `FirstTree`: the tree at the start is
whole, as the empty leaf of a new database is (`NewTreeFits`, for keys with a bound,
which in the code is 2^64). `[]Apart`: no two insertions or deletions are at work in
the tree at once, where a writer is at work from the moment it has the root's latch
and has seen that it is the root until it returns; any number of them may wait
for the root, and any number of searches and scans go on beside it. The code does not
ensure this: the engine lock is shared by all DML, latch coupling lets a second writer
in as soon as the first has a safe node, and two writers undo each other's changes
(`bptree.c:1205`, the run `bptree_header`). The theorems therefore say what the tree is
worth where statements that change it come one at a time; they do not say that it is
whole under two writers, and it is not.

None of the four is inductive, since they do not say why a repair finds what it
looks for. `Inv` says that the pages are a tree: there are a set `T` of pages, the
range `lo` to `hi` of keys, the level `lev` of each and its contents `v`, such that
the children of a page divide its range at its keys one level down, the leaves
cover all keys up to `top`, and `next` leads from the end of a range to where the
next one begins (`Tree` in `BPTreeShape`). `View` is what makes it hold in the
middle of a change: the contents `v` of a page are those it has, except where the
writer at work has split a page or merged two and has not been at their parent yet; there
the parent counts as if it had the new child, or not the old one, already. The
other parts: `Filled`, the minimum of keys everywhere but where the writer repairs
it; `Threading`, every thread on its way down is at a page of the tree whose range
holds its key, and the page it waits for is named by the one it holds; `Latched`,
no reader is at a page of the writer; `Writing`, the stack of latches is a path in
the tree, its first page is the root or has room to spare (so that nothing above it
changes), and the header the writer has read without a latch is still the one in
the page (`Fresh`, what a second writer breaks).

`BPTreeShape` is about trees without threads: splitting, borrowing, merging, a
root that comes or goes, each stated once for what it does to `Tree`; and about keys
in ranges, the kids of an inner node and leaves in a row.
`BPTreeInvariant` states the invariant and shows that the steps of readers and of an
insertion keep it; `BPTreeProofs` does so for a deletion, whose repairs may go up
to the root, and has the theorems. `PagesAccounted` speaks of the recursive function
`Levels`; that it lists the pages of `T` level by level goes by the least level where
it would not (`Least`), as for the paths of the other proofs. For `Balanced` the way
down by the first children reaches the leaf whose range begins at 0
(`LeftmostIs`), from there each `next` leads to the range that follows, so the chain
covers all keys up to `top` and has every leaf (`ChainAll`), and it ends because ranges
that follow one another belong to different pages (`LineShort`, by the pigeonhole
principle). Keys within ranges that follow one another ascend (`FlatRange`), and the
minimum of each page is what `Filled` leaves when no repair is under way.

`EngineProofs`: every safety property of the run `engine`
and the refinement of `Table`. The properties are not inductive because they do
not say why a statement may rely on what it has read. The invariant does:
`Program` says which statements are at which step, `Locked` which row locks they
have there, `AtRow` what they know of heap and index under those locks,
`Exclusive` that no two have the same row exclusively, `Agree` that heap and index
agree on every row that no statement is in the middle of changing. That
`bptree_insert` never meets its key rests on `Fresh` and `OwnIds`: an id from
`next_id` is above every id in the table, and two insertions never have the same
one; `Reserved` that the bound on the ids leaves one for every INSERT that has
begun. `Changes` says that nothing can fail
after the first change. `CountExact` compares cardinalities step by step.

`ServerProofs`: every safety property of the run `server`, for any number of
slots and of waiting clients. None of them is inductive alone, so one invariant
`Inv` carries them together. `Owned` says without counting that open sockets and
owners correspond one to one; the count in `SocketsOwned` follows from it, and so
does, by the pigeonhole principle, that `accept` always finds a free descriptor,
which `TypeOK` needs. `TableNames` (a slot names the socket of its owner) is why
the shutdown loop over the table reaches every thread; `AllShut` covers the
threads that are not in `recv` yet but may return to it. `DownAtTheEnd` says the
lock table goes down only when no connection is counted, and `SlotsOwned` turns
the count into "no thread is left". That `g_active_connections` never goes below
0 or above `MAX_CONNECTIONS` follows from the cardinality of the slots in use.

Only model-checked: `ScanSound` and `ImplementsKeySet` of the tree;
the tree with two writers at work at once (which `bptree_header` refutes); the type
invariant of the pager (the order of the frames is
built with operators of the community modules that take an operator, which the
provers cannot instantiate); and every liveness property, since the proof system does
not reason about fairness and `ENABLED`. Induction over data with the library's
theorems is out of its reach for the same reason as the operators: where a proof
needs one, it argues by a least counterexample in the natural numbers.

## 5. Findings

* `bptree_scan`: a scan holds a leaf and waits for the next; a deletion holds the
  next and waits for its left sibling. Neither has a deadline
  (`bptree.c:1092` and `411`, against `bptree.c:1051` and `331`).
* `bptree_header`: the header of the leaf after a merge or a split is written back
  without its latch, so that an insertion or a deletion in it is undone
  (`bptree.c:1209`, against `bptree.c:303`).
* `heap_tail`: an insertion that tests the tail while another one moves it
  unlatches a page it has not latched, and keeps latch and pin of the old tail
  (`table.c:103`, against `pager.c:575`).
* `engine_range`: a SELECT on a range of ids reads places it has collected before;
  a place that was freed and used again in between brings a row from outside the
  range (`executor.c:634`, against `executor.c:640` and `db.c:12`). The range lock
  that `db.c` announces is never taken: the parser classifies comparisons of `id`
  as `PREDICATE_ID_RANGE`, and `determine_lock` tests for `PREDICATE_FIELD_CMP`.
* `server_sigint`: a SIGINT just before `accept` blocks, or taken by another
  thread, is noticed with the next connection (`server.c:317`, against `server.h:12`).

Met while modelling, and part of the models, without a run of their own: the unpin too
many of `bptree.c:893` and the NULL of `pager.c:467` (`ExtraUnpin` and `NoFrameLeft`
of `Pager`), and negative bounds on `id` (`CompareKey` of `Statement`, `parser.c:145`).

## 6. Not modelled

* Schema and row format, the text of HTTP requests and answers, the text of
  statements (tokens, error messages): conversions of data in one thread.
* Of the executor: sorting for ORDER BY and its top-k selection, the output of
  EXPLAIN, the formatting of results.
* The REPL is one thread around the executor and adds no state.
* Crashes: the repository's README says that there is no log and no recovery, so
  only the orderly close and reopening are modelled.
* The pins of tree nodes together with its latches, and what happens after a pin
  was given back once too often or a frame was missing: `Pager` ends there.
* A deleted slot that `find_heap_page` forgets (`table.c:147`) is a behaviour of
  `Heap`; it costs space and breaks no property, so none is stated.
* Tools, benchmarks and tests are clients of the program.
