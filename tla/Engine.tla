------------------------------- MODULE Engine -------------------------------
(***************************************************************************)
(* The execution of statements in MiniDB (db.c, sql/executor.c): the row   *)
(* lock a statement takes before it enters the engine, the engine lock     *)
(* that DML shares and DDL has alone, the row locks taken inside, and the  *)
(* steps of each access path on the heap, the index and the header.        *)
(*                                                                         *)
(* It composes what the parts promise: the heap is the store of rows that  *)
(* Heap implements, each of its operations one step, a scan one place at a *)
(* time; the index is the set that BPTree implements (KeySet); the locks   *)
(* are those that LockTable implements (LockManager).  A lock call may     *)
(* return -1 at any time: its three seconds pass while other threads run,  *)
(* and its allocations may fail.                                           *)
(***************************************************************************)
EXTENDS Statement, FiniteSets, Sequences, FiniteSetsExt

CONSTANTS
  Threads,   \* the threads that execute statements
  MaxId,     \* bound on the ids given to rows
  Ages,      \* the values of the other column
  Workload,  \* Workload[t]: the statements t may execute
  InitRows   \* the rows of the table at the beginning, by id

ASSUME EngineAssumption ==
  /\ IsFiniteSet(Threads)
  /\ MaxId \in Nat \ {0} /\ LongMax \in Nat /\ MaxId <= LongMax
  /\ Ages \in SUBSET Long
  /\ Workload \in [Threads -> SUBSET StatementType]
  /\ \A t \in Threads : \A s \in Workload[t] : s.type # "none" /\ s.age \in Ages
  /\ \E n \in 0..MaxId : InitRows \in [1..n -> Ages]

VARIABLES
  created,      \* header.column_count > 0
  heap,         \* heap[r]: the row in place r of the heap
  index,        \* index[k]: the place of row k, 0 if k is not in the tree
  next_id,      \* header.next_id
  row_count,    \* header.row_count
  held,         \* the row locks, as LockManager has them
  readers_pass, \* whether the rwlock lets readers pass a waiting writer
  th            \* th[t]: the locals of the statement t executes

stores == <<created, heap, index, next_id, row_count>>
vars == <<stores, held, readers_pass, th>>

Ids == 1..MaxId
Refs == 1..MaxId  \* a row has its id to itself, so there is always a place
Row == [id : Ids, age : Ages]
NoRow == [id |-> 0, age |-> 0]

LM == INSTANCE LockManager WITH Keys <- Ids

\* id: the id the statement is at.  todo: the ids behind it.  ids: the ids a
\* scan has collected.  cur: the place a heap scan, or the id an index scan,
\* is at.  refs: the places an index scan has collected.  got: the rows a
\* SELECT has printed.  changed: whether the statement has changed a store.
Idle ==
  [pc |-> "idle", stmt |-> NoStatement, id |-> 0, todo |-> {}, ids |-> {},
   cur |-> 0, ref |-> 0, row |-> NoRow, refs |-> << >>, got |-> {},
   result |-> "ok", changed |-> FALSE]

Path(t) == planner_create_plan(th[t].stmt)
Scans(t) == Path(t) = "table_scan"
At(t, where) == th[t].pc = where
Set(t, locals) == th' = [th EXCEPT ![t] = locals]
Goto(t, where) == Set(t, [th[t] EXCEPT !.pc = where])

\* t is between the acquisition and the release of the engine lock.
Inside(t) == th[t].pc \notin {"idle", "lock", "enter", "release"}
WaitsForDdl(t) == At(t, "enter") /\ is_ddl(th[t].stmt)

\* The statement returns from the executor: with status 0, or with status -1.
\* Its locals are gone.
Done(t) == [Idle EXCEPT !.pc = "leave", !.stmt = th[t].stmt, !.got = th[t].got,
                        !.changed = th[t].changed]
Failed(t) == [Done(t) EXCEPT !.result = "failed"]

\* Mutant: the loop locks each row when it comes to it.
Onward_Locks(t) ==
  IF Scans(t) /\ th[t].todo # {}
  THEN [th[t] EXCEPT !.pc = "lock_ids", !.ids = th[t].todo, !.ref = 0, !.row = NoRow]
  ELSE Done(t)

\* The loop of a scan goes on with the least id of todo, or ends.  A statement
\* that is about one id ends.
Onward(t) ==
  IF Scans(t) /\ th[t].todo # {}
  THEN [th[t] EXCEPT !.pc = "search", !.id = Min(th[t].todo),
                     !.todo = @ \ {Min(@)}, !.ref = 0, !.row = NoRow]
  ELSE Done(t)

-----------------------------------------------------------------------------
\* The steps of db_execute around execute.

Begin(t, s) ==
  LET lock == determine_lock(s) IN
  /\ At(t, "idle")
  /\ s.type = "insert" =>
       next_id + Cardinality({u \in Threads :
         th[u].stmt.type = "insert" /\ th[u].pc \in {"enter", "take_id"}}) <= MaxId
  /\ Set(t, [Idle EXCEPT !.pc = IF lock.low <= lock.high THEN "lock" ELSE "enter",
                         !.stmt = s])
  /\ UNCHANGED <<stores, held, readers_pass>>

RowLock(t) ==
  LET lock == determine_lock(th[t].stmt) IN
  /\ At(t, "lock")
  /\ LM!Acquire(t, lock.low, lock.high, lock.mode)
  /\ Goto(t, "enter")
  /\ UNCHANGED <<stores, readers_pass>>

\* lock_acquire returned -1: the statement ends here, with nothing to release.
RowLockFails(t) ==
  /\ At(t, "lock")
  /\ Set(t, Idle)
  /\ UNCHANGED <<stores, held, readers_pass>>

\* What the executor refuses before it does anything.
Refused(s) ==
  \/ s.type = "insert" /\ ~created
  \/ s.type = "update" /\ (~created \/ s.set = "id")
  \/ s.type = "select" /\ s.order /\ ~s.count /\ s.limit # 0 /\ ~created

\* Nothing to do: EXPLAIN, COUNT(*) without a WHERE, which reads row_count, and
\* a SELECT with LIMIT 0.
Trivial(s) ==
  \/ s.type = "explain"
  \/ s.type = "select" /\ (IF s.count THEN s.where = "none" ELSE s.limit = 0)

First(s) ==
  LET path == planner_create_plan(s) IN
  CASE path = "insert" -> "take_id"
    [] path = "index_range" -> "collect"
    [] path = "table_scan" -> "scan"
    [] OTHER -> "search"

\* DML takes the engine lock for reading, and execute begins.
Enter(t) ==
  LET s == th[t].stmt IN
  /\ At(t, "enter") /\ ~is_ddl(s)
  /\ readers_pass \/ \A u \in Threads : ~WaitsForDdl(u)
  /\ Set(t, IF Refused(s) THEN Failed(t)
            ELSE IF Trivial(s) THEN Done(t)
            ELSE [th[t] EXCEPT !.pc = First(s),
                    !.id = IF First(s) = "search" THEN Unsigned(s.val) ELSE 0])
  /\ UNCHANGED <<stores, held, readers_pass>>

\* Nobody runs beside DDL, so that it is one step.
EnterDdl(t) == WaitsForDdl(t) /\ \A u \in Threads : ~Inside(u)

exec_create_table(t) ==
  /\ EnterDdl(t) /\ th[t].stmt.type = "create"
  /\ created' = TRUE
  /\ Set(t, [(IF created THEN Failed(t) ELSE Done(t)) EXCEPT !.pc = "release"])
  /\ UNCHANGED <<heap, index, next_id, row_count, held, readers_pass>>

exec_drop_table(t) ==
  /\ EnterDdl(t) /\ th[t].stmt.type = "drop"
  /\ IF created
     THEN /\ created' = FALSE
          /\ heap' = [r \in Refs |-> NoRow] /\ index' = [k \in Ids |-> 0]
          /\ next_id' = 1 /\ row_count' = 0
     ELSE UNCHANGED stores
  /\ Set(t, [(IF created THEN Done(t) ELSE Failed(t)) EXCEPT !.pc = "release"])
  /\ UNCHANGED <<held, readers_pass>>

\* execute has returned and the engine lock is released; then lock_release_all.
Leave(t) ==
  /\ At(t, "leave") /\ Goto(t, "release")
  /\ UNCHANGED <<stores, held, readers_pass>>

\* Mutant: lock_release_all is not reached.
Release_Forgets(t) ==
  /\ At(t, "release") /\ Set(t, Idle)
  /\ UNCHANGED <<stores, held, readers_pass>>

Release(t) ==
  /\ At(t, "release") /\ LM!Release(t) /\ Set(t, Idle)
  /\ UNCHANGED <<stores, readers_pass>>

-----------------------------------------------------------------------------
\* exec_insert.

TakeId(t) ==
  /\ At(t, "take_id")
  /\ next_id' = next_id + 1
  /\ Set(t, [th[t] EXCEPT !.pc = "lock_own", !.id = next_id])
  /\ UNCHANGED <<created, heap, index, row_count, held, readers_pass>>

\* Mutant: the inserted id is not locked.
LockOwn_Skips(t) ==
  /\ At(t, "lock_own") /\ Goto(t, "heap_insert")
  /\ UNCHANGED <<stores, held, readers_pass>>

\* The id that was taken is lost when its lock cannot be had.
LockOwn(t) ==
  /\ At(t, "lock_own")
  /\ LM!Acquire(t, th[t].id, th[t].id, "X")
  /\ Goto(t, "heap_insert")
  /\ UNCHANGED <<stores, readers_pass>>

heap_insert(t) ==
  /\ At(t, "heap_insert")
  /\ \E r \in Refs :
       /\ heap[r] = NoRow
       /\ heap' = [heap EXCEPT ![r] = [id |-> th[t].id, age |-> th[t].stmt.age]]
       /\ Set(t, [th[t] EXCEPT !.pc = "bptree_insert", !.ref = r, !.changed = TRUE])
  /\ UNCHANGED <<created, index, next_id, row_count, held, readers_pass>>

\* A key that is there already leaves the row in the heap and fails.
bptree_insert(t) ==
  /\ At(t, "bptree_insert")
  /\ IF index[th[t].id] = 0
     THEN /\ index' = [index EXCEPT ![th[t].id] = th[t].ref]
          /\ Goto(t, "count_up")
     ELSE UNCHANGED index /\ Set(t, Failed(t))
  /\ UNCHANGED <<created, heap, next_id, row_count, held, readers_pass>>

\* Mutant: the counter is read and written without the header lock.
CountUp_Lost(t) ==
  /\ At(t, "count_up")
  /\ row_count' \in {row_count, row_count + 1}
  /\ Set(t, Done(t))
  /\ UNCHANGED <<created, heap, index, next_id, held, readers_pass>>

CountUp(t) ==
  /\ At(t, "count_up")
  /\ row_count' = row_count + 1
  /\ Set(t, Done(t))
  /\ UNCHANGED <<created, heap, index, next_id, held, readers_pass>>

-----------------------------------------------------------------------------
\* heap_scan and its callbacks: a SELECT prints the rows that satisfy its WHERE
\* (up to LIMIT, when no ORDER BY is to sort them), a DELETE or UPDATE collects
\* their ids.

Full(s, rows) == s.limit # NoLimit /\ ~s.order /\ ~s.count /\ Cardinality(rows) >= s.limit

\* The scan is over.  What was collected is locked next.
Scanned(t, got, ids) ==
  IF th[t].stmt.type = "select" THEN [Done(t) EXCEPT !.got = got]
  ELSE IF ids = {} THEN Done(t)
  ELSE [th[t] EXCEPT !.pc = "lock_ids", !.cur = 0, !.ids = ids, !.todo = ids]

ScanRow(t) ==
  LET s == th[t].stmt
      cur == th[t].cur + 1
      row == heap[cur]
      match == row # NoRow /\ match_predicate(row, s)
      got == IF match /\ s.type = "select" THEN th[t].got \cup {row} ELSE th[t].got
      ids == IF match /\ s.type # "select" THEN th[t].ids \cup {row.id} ELSE th[t].ids
  IN
  /\ At(t, "scan")
  /\ Set(t, IF cur = MaxId \/ Full(s, got) THEN Scanned(t, got, ids)
            ELSE [th[t] EXCEPT !.cur = cur, !.got = got, !.ids = ids])
  /\ UNCHANGED <<stores, held, readers_pass>>

\* realloc fails for what the scan collects, or the allocation for ORDER BY.
CollectFails(t) ==
  /\ \/ At(t, "collect")
     \/ At(t, "scan") /\ (th[t].stmt.type = "select" => th[t].stmt.order /\ ~th[t].stmt.count)
  /\ Set(t, [Failed(t) EXCEPT !.got = {}])
  /\ UNCHANGED <<stores, held, readers_pass>>

\* Mutant: what the scan collected is changed without locks.
lock_collected_ids_Skips(t) ==
  LET ids == th[t].ids IN
  /\ At(t, "lock_ids")
  /\ Set(t, [th[t] EXCEPT !.pc = "search", !.id = Min(ids), !.todo = ids \ {Min(ids)},
                          !.ids = {}])
  /\ UNCHANGED <<stores, held, readers_pass>>

\* The ids are locked in ascending order; then the loop over them begins.
lock_collected_ids(t) ==
  LET k == Min(th[t].todo)
      rest == th[t].todo \ {k}
      ids == th[t].ids
  IN
  /\ At(t, "lock_ids")
  /\ LM!Acquire(t, k, k, "X")
  /\ Set(t, IF rest # {} THEN [th[t] EXCEPT !.todo = rest]
            ELSE [th[t] EXCEPT !.pc = "search", !.id = Min(ids),
                               !.todo = ids \ {Min(ids)}, !.ids = {}])
  /\ UNCHANGED <<stores, readers_pass>>

\* Mutant: a lock that cannot be had is waited for without a deadline.
LockFails_Never(t) == FALSE /\ UNCHANGED vars

\* A row lock cannot be had inside the engine: of an INSERT for its new id, of
\* a scan for an id it found.
LockFails(t) ==
  /\ th[t].pc \in {"lock_own", "lock_ids"}
  /\ Set(t, Failed(t))
  /\ UNCHANGED <<stores, held, readers_pass>>

-----------------------------------------------------------------------------
\* The paths that look an id up, and the loops of the scans that change rows.

bptree_search(t) ==
  LET k == th[t].id
      ref == IF k \in Ids THEN index[k] ELSE 0
  IN
  /\ At(t, "search")
  /\ Set(t, IF ref = 0 THEN Onward(t)
            ELSE [th[t] EXCEPT !.ref = ref,
                    !.pc = IF Path(t) = "index_delete" THEN "heap_delete" ELSE "fetch"])
  /\ UNCHANGED <<stores, held, readers_pass>>

\* Mutant: a scan does not test a row again once it is locked.
Fetched_Trusts(t, row) ==
  IF row = NoRow THEN IF Scans(t) THEN Onward(t) ELSE Failed(t)
  ELSE IF th[t].stmt.type = "select" THEN [Done(t) EXCEPT !.got = {row}]
  ELSE IF th[t].stmt.type = "delete" THEN [th[t] EXCEPT !.pc = "heap_delete"]
  ELSE [th[t] EXCEPT !.pc = "write_back", !.row = row]

\* heap_fetch returned this row; a row that is not alive is an error where one
\* id is asked for, and a scan passes over it as over one that does not match.
Fetched(t, row) ==
  IF row = NoRow THEN IF Scans(t) THEN Onward(t) ELSE Failed(t)
  ELSE IF th[t].stmt.type = "select" THEN [Done(t) EXCEPT !.got = {row}]
  ELSE IF Scans(t) /\ ~match_predicate(row, th[t].stmt) THEN Onward(t)
  ELSE IF th[t].stmt.type = "delete" THEN [th[t] EXCEPT !.pc = "heap_delete"]
  ELSE [th[t] EXCEPT !.pc = "write_back", !.row = row]

heap_fetch(t) ==
  /\ At(t, "fetch")
  /\ Set(t, Fetched(t, heap[th[t].ref]))
  /\ UNCHANGED <<stores, held, readers_pass>>

\* A scan leaves the index alone when the place has no row; the statement about
\* one id goes on.
heap_delete(t) ==
  LET ref == th[t].ref IN
  /\ At(t, "heap_delete")
  /\ heap' = [heap EXCEPT ![ref] = NoRow]
  /\ Set(t, IF heap[ref] = NoRow /\ Scans(t) THEN Onward(t)
            ELSE [th[t] EXCEPT !.pc = "bptree_delete", !.changed = TRUE])
  /\ UNCHANGED <<created, index, next_id, row_count, held, readers_pass>>

bptree_delete(t) ==
  LET k == th[t].id IN
  /\ At(t, "bptree_delete")
  /\ index' = [index EXCEPT ![k] = 0]
  /\ Set(t, IF index[k] = 0 /\ Scans(t) THEN Onward(t)
            ELSE [th[t] EXCEPT !.pc = "count_down"])
  /\ UNCHANGED <<created, heap, next_id, row_count, held, readers_pass>>

CountDown(t) ==
  /\ At(t, "count_down")
  /\ row_count' = row_count - 1
  /\ Set(t, Onward(t))
  /\ UNCHANGED <<created, heap, index, next_id, held, readers_pass>>

\* The whole row, changed, is written over the place; whether the place still
\* has a row is not tested.
WriteBack(t) ==
  LET ref == th[t].ref IN
  /\ At(t, "write_back")
  /\ heap' = [heap EXCEPT ![ref] = IF heap[ref] = NoRow THEN NoRow
                                   ELSE [th[t].row EXCEPT !.age = th[t].stmt.age]]
  /\ Set(t, [Onward(t) EXCEPT !.changed = TRUE])
  /\ UNCHANGED <<created, index, next_id, row_count, held, readers_pass>>

-----------------------------------------------------------------------------
\* exec_index_range_scan: the places are collected from the leaves in the order
\* of the ids, then the rows are read, with no row lock for either.

\* The ids the scan of the leaves has yet to find.
Ahead(t) ==
  {k \in Ids : k > th[t].cur /\ index[k] # 0 /\ CompareKey(th[t].stmt, k)}

range_collect_cb(t) ==
  LET s == th[t].stmt
      k == Min(Ahead(t))
      refs == Append(th[t].refs, index[k])
  IN
  /\ At(t, "collect")
  /\ Set(t, IF Ahead(t) = {}
            THEN IF th[t].refs = << >> THEN Done(t)
                 ELSE [th[t] EXCEPT !.pc = "read", !.cur = 0]
            ELSE IF Len(refs) = s.limit
            THEN [th[t] EXCEPT !.pc = "read", !.cur = 0, !.refs = refs]
            ELSE [th[t] EXCEPT !.cur = k, !.refs = refs])
  /\ UNCHANGED <<stores, held, readers_pass>>

\* What the place has now is printed; a place without a row is passed over.
ReadRow(t) ==
  LET row == heap[Head(th[t].refs)]
      got == IF row = NoRow THEN th[t].got ELSE th[t].got \cup {row}
      rest == Tail(th[t].refs)
  IN
  /\ At(t, "read")
  /\ Set(t, IF rest = << >> THEN [Done(t) EXCEPT !.got = got]
            ELSE [th[t] EXCEPT !.refs = rest, !.got = got])
  /\ UNCHANGED <<stores, held, readers_pass>>

-----------------------------------------------------------------------------
Init ==
  /\ created = TRUE
  /\ heap = [r \in Refs |-> IF r \in DOMAIN InitRows THEN [id |-> r, age |-> InitRows[r]]
                            ELSE NoRow]
  /\ index = [k \in Ids |-> IF k \in DOMAIN InitRows THEN k ELSE 0]
  /\ next_id = Len(InitRows) + 1
  /\ row_count = Len(InitRows)
  /\ LM!Init
  /\ readers_pass \in BOOLEAN
  /\ th = [t \in Threads |-> Idle]

\* The steps that take a lock that others may hold.
Waiting(t) ==
  \/ RowLock(t) \/ Enter(t) \/ LockOwn(t) \/ lock_collected_ids(t)
  \/ exec_create_table(t) \/ exec_drop_table(t)

\* The steps that nothing stands in the way of.
Running(t) ==
  \/ RowLockFails(t) \/ LockFails(t) \/ Leave(t) \/ Release(t)
  \/ TakeId(t) \/ heap_insert(t) \/ bptree_insert(t) \/ CountUp(t)
  \/ ScanRow(t) \/ CollectFails(t)
  \/ bptree_search(t) \/ heap_fetch(t) \/ heap_delete(t) \/ bptree_delete(t)
  \/ CountDown(t) \/ WriteBack(t)
  \/ range_collect_cb(t) \/ ReadRow(t)

Next ==
  \E t \in Threads :
    \/ \E s \in Workload[t] : Begin(t, s)
    \/ Waiting(t)
    \/ Running(t)

Spec == Init /\ [][Next]_vars

\* A deletion and a scan of the leaves may have latches that the other waits for
\* (BPTree), and whoever else is in the tree may wait for either.
AtTree(t) == th[t].pc \in {"search", "bptree_insert", "bptree_delete", "collect"}
StandOff == \E t, u \in Threads : At(t, "bptree_delete") /\ At(u, "collect")

\* A thread that can run does, in the tree for as long as there is no deletion
\* beside a scan.  The engine lock is not withheld for ever from a thread that
\* waits for it while it is free again and again.
Fairness ==
  \A t \in Threads :
    /\ WF_vars((Waiting(t) \/ Running(t)) /\ (AtTree(t) => ~StandOff))
    /\ SF_vars(Enter(t))

FairSpec == Spec /\ Fairness

-----------------------------------------------------------------------------
\* The variables have their types, and a statement that holds a row lock is one
\* that db_execute is in the middle of.
TypeOK ==
  /\ created \in BOOLEAN /\ readers_pass \in BOOLEAN
  /\ heap \in [Refs -> Row \cup {NoRow}]
  /\ index \in [Ids -> 0..MaxId]
  /\ next_id \in 1..(MaxId + 1)
  /\ row_count \in Int
  /\ held \in [Threads -> [Ids -> LM!Hold]]
  /\ DOMAIN th = Threads
  /\ \A t \in Threads :
       /\ th[t].stmt \in StatementType
       /\ th[t].row \in Row \cup {NoRow}
       /\ th[t].ids \subseteq Ids /\ th[t].todo \subseteq Ids
       /\ th[t].ref \in 0..MaxId /\ th[t].cur \in 0..MaxId
       /\ (\E k \in Ids : held[t][k] # "none") => th[t].pc \notin {"idle", "lock"}

Places(k) == {r \in Refs : heap[r].id = k}

\* Outside the statement that has the exclusive lock of a row, the heap and the
\* index agree on it: a row in the index is in the place the index names and in
\* no other, and a row that is not in the index is nowhere in the heap.
Consistent ==
  \A k \in Ids :
    (\A t \in Threads : held[t][k] # "X") =>
      Places(k) = IF index[k] = 0 THEN {} ELSE {index[k]}

\* row_count, which COUNT(*) answers with, is the number of rows in the index,
\* but for the statements that are just about to count what they changed.
CountExact ==
  row_count = Cardinality({k \in Ids : index[k] # 0})
                - Cardinality({t \in Threads : At(t, "count_up")})
                + Cardinality({t \in Threads : At(t, "count_down")})

\* What a statement found out about a row under its row lock is still so when
\* it acts on it: the place has this row, and the row that is about to be
\* written back has in the meantime not been changed by another (no update is
\* lost, and no place is overwritten that has another row by now).
LockedRowStable ==
  \A t \in Threads :
    LET ref == th[t].ref IN
    /\ th[t].pc \in {"fetch", "heap_delete", "write_back"} =>
         heap[ref].id = th[t].id /\ index[th[t].id] = ref
    /\ At(t, "write_back") => heap[ref] = th[t].row

\* A statement that answers with an error has changed no row: a lock that
\* cannot be had stops a DELETE or UPDATE before its first row, and an INSERT
\* before it has put a row into the heap.
FailedChangesNothing ==
  \A t \in Threads : th[t].result = "failed" => ~th[t].changed

\* The rows found through the index change as Table says: one at a time, by a
\* statement of the right kind, and a DELETE or an UPDATE only changes a row
\* that satisfies its WHERE at this moment.
There(k) == index[k] # 0 /\ heap[index[k]].id = k
T == INSTANCE Table WITH
  there <- {k \in Ids : There(k)},
  age <- [k \in Ids |-> IF There(k) THEN heap[index[k]].age ELSE 0],
  request <- [t \in Threads |-> th[t].stmt]
ImplementsTable == T!Spec

\* Every statement comes to its end, though row locks are waited for inside the
\* engine lock and the engine lock with row locks held; unless a DELETE and a
\* SELECT of a range are in the index together for ever, or again and again, where
\* each may wait for the other, or two insertions have been in the heap at once,
\* where one may leave a latch behind (Heap).  DDL is promised that only where
\* readers do not pass a waiting writer.
StatementsEnd ==
  \/ \A t \in Threads :
       (~At(t, "idle") /\ (is_ddl(th[t].stmt) => ~readers_pass)) ~> At(t, "idle")
  \/ []<>StandOff
  \/ <>(\E t, u \in Threads : t # u /\ At(t, "heap_insert") /\ At(u, "heap_insert"))

\* A SELECT on a range of ids prints rows of that range only.
RangeResultInRange ==
  \A t \in Threads :
    At(t, "leave") /\ Path(t) = "index_range" =>
      \A row \in th[t].got : match_predicate(row, th[t].stmt)
=============================================================================
