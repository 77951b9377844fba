---------------------------- MODULE EngineProofs ----------------------------
(***************************************************************************)
(* Proofs about Engine for any threads, ids, values and workload: heap and *)
(* index agree outside the statement that has a row locked, what a         *)
(* statement read under its lock stays so until it acts on it, row_count   *)
(* is exact, an error changes nothing, and the rows change as Table says.  *)
(***************************************************************************)
EXTENDS Engine, FiniteSetTheorems, WellFoundedInduction, TLAPS

(***************************************************************************)
(* The invariant from which the theorems below are proved, and the proof   *)
(* that it is one.                                                         *)
(*                                                                         *)
(* The argument is that a row is changed under its exclusive lock only     *)
(* (Locked, Exclusive), that the locks name rows the statement knows       *)
(* (AtRow), and that an id taken from next_id has never been seen by       *)
(* another statement (Fresh, OwnIds).                                      *)
(***************************************************************************)
InsertSteps == {"take_id", "lock_own", "heap_insert", "bptree_insert", "count_up"}
RowSteps ==
  {"search", "fetch", "heap_delete", "bptree_delete", "count_down", "write_back"}
Pcs == {"idle", "lock", "enter", "leave", "release", "collect", "read", "scan",
        "lock_ids"} \cup InsertSteps \cup RowSteps

Locals ==
  [pc : Pcs, stmt : StatementType, id : Nat, todo : SUBSET Ids, ids : SUBSET Ids,
   cur : 0..MaxId, ref : 0..MaxId, row : Row \cup {NoRow}, refs : Seq(Refs),
   got : SUBSET Row, result : {"ok", "failed"}, changed : BOOLEAN]

Types ==
  /\ created \in BOOLEAN /\ readers_pass \in BOOLEAN
  /\ heap \in [Refs -> Row \cup {NoRow}]
  /\ index \in [Ids -> 0..MaxId]
  /\ next_id \in Nat \ {0} /\ row_count \in Int
  /\ held \in [Threads -> [Ids -> LM!Hold]]
  /\ th \in [Threads -> Locals]

\* The statement is about the one id in its WHERE.
Point(s) == planner_create_plan(s) \in {"index_lookup", "index_delete", "index_update"}
Scan(s) == planner_create_plan(s) = "table_scan"

\* Which statements are at which step, with which locals.
Program(t) ==
  LET l == th[t]  s == th[t].stmt  pc == th[t].pc IN
  /\ IF pc = "idle" THEN s = NoStatement ELSE s \in Workload[t]
  /\ pc \in InsertSteps => s.type = "insert"
  /\ pc \in {"lock", "enter"} => l.cur = 0
  /\ pc = "lock" => s.type # "insert"
  /\ pc = "scan" => Scan(s) /\ l.cur < MaxId
  /\ pc = "lock_ids" =>
       Scan(s) /\ s.type \in {"delete", "update"} /\ l.todo # {} /\ l.todo \subseteq l.ids
  /\ pc \in {"collect", "read"} => s.type = "select"
  /\ pc = "read" => l.refs # << >>
  /\ pc \in RowSteps =>
       \/ Point(s) /\ l.id = Unsigned(s.val)
       \/ Scan(s) /\ s.type \in {"delete", "update"}
  /\ pc \in {"heap_delete", "bptree_delete", "count_down"} => s.type = "delete"
  /\ pc = "write_back" => s.type = "update"

\* Where a statement may have changed a store, and where it may have failed.
Changes(t) ==
  LET l == th[t] IN
  /\ l.result = "failed" => ~l.changed /\ l.pc \in {"leave", "release"}
  /\ l.changed =>
       \/ l.pc \in {"bptree_insert", "count_up", "bptree_delete", "count_down",
                    "leave", "release"}
       \/ l.pc \in RowSteps /\ Scan(l.stmt)

\* t has the lock that its statement needs for row k.
Has(t, k) ==
  /\ held[t][k] # "none"
  /\ th[t].stmt.type # "select" => held[t][k] = "X"

\* The row locks that a statement has at its steps.
Locked(t) ==
  LET l == th[t] IN
  /\ l.pc \in {"idle", "lock"} => \A k \in Ids : held[t][k] = "none"
  /\ l.pc = "enter" /\ Point(l.stmt) /\ Unsigned(l.stmt.val) \in Ids =>
       Has(t, Unsigned(l.stmt.val))
  /\ l.pc \in {"heap_insert", "bptree_insert", "count_up"} =>
       l.id \in Ids /\ held[t][l.id] = "X"
  /\ l.pc \in RowSteps /\ l.id \in Ids => Has(t, l.id)
  /\ l.pc \in RowSteps /\ Scan(l.stmt) => \A k \in l.todo : held[t][k] = "X"
  /\ l.pc = "lock_ids" => \A k \in l.ids \ l.todo : held[t][k] = "X"

\* What a statement knows of the heap and the index at its steps.
AtRow(t) ==
  LET l == th[t]  k == th[t].id  r == th[t].ref IN
  /\ l.pc \in {"lock_own", "heap_insert"} =>
       /\ k \in Ids /\ k < next_id /\ index[k] = 0
       /\ \A q \in Refs : heap[q].id # k
  /\ l.pc = "bptree_insert" =>
       /\ k \in Ids /\ k < next_id /\ index[k] = 0
       /\ r \in Refs /\ heap[r] = [id |-> k, age |-> l.stmt.age]
       /\ \A q \in Refs : heap[q].id = k => q = r
  /\ l.pc \in {"fetch", "heap_delete", "write_back"} =>
       k \in Ids /\ r \in Refs /\ index[k] = r /\ heap[r].id = k
  /\ l.pc \in {"heap_delete", "write_back"} => match_predicate(heap[r], l.stmt)
  /\ l.pc = "write_back" => heap[r] = l.row
  /\ l.pc = "bptree_delete" =>
       /\ k \in Ids /\ r \in Refs /\ index[k] = r
       /\ \A q \in Refs : heap[q].id # k

\* No two threads have one row in modes that exclude each other.
Exclusive ==
  \A t, u \in Threads, k \in Ids : t # u => LM!Compatible(held[t][k], held[u][k])

\* Two INSERTs have two ids.
OwnIds ==
  \A t, u \in Threads :
    /\ t # u
    /\ th[t].pc \in {"lock_own", "heap_insert", "bptree_insert"}
    /\ th[u].pc \in {"lock_own", "heap_insert", "bptree_insert"}
    => th[t].id # th[u].id

\* t is between the heap and the index with row k.
Between(t, k) == th[t].pc \in {"bptree_insert", "bptree_delete"} /\ th[t].id = k

\* Otherwise the heap and the index agree.
Agree ==
  \A k \in Ids :
    \/ \E t \in Threads : Between(t, k)
    \/ \A r \in Refs : heap[r].id = k <=> index[k] = r

\* An id that has not been given out is in no store.
Fresh ==
  \A k \in Ids : k >= next_id => index[k] = 0 /\ \A r \in Refs : heap[r].id # k

\* The statements that will take an id, which Begin has left one for each.
Inserters ==
  {t \in Threads : th[t].stmt.type = "insert" /\ th[t].pc \in {"enter", "take_id"}}
Reserved == next_id + Cardinality(Inserters) <= MaxId + 1

Inv ==
  /\ Types /\ Exclusive /\ OwnIds /\ Agree /\ Fresh
  /\ \A t \in Threads : Program(t) /\ Changes(t) /\ Locked(t) /\ AtRow(t)

-----------------------------------------------------------------------------
\* The access paths and the locks of the statements.
LEMMA Paths ==
  ASSUME NEW s \in StatementType
  PROVE  /\ Point(s) => /\ s.type \in {"select", "delete", "update"}
                        /\ s.where = "id" /\ s.op = "eq" /\ ~Scan(s)
         /\ Scan(s) => s.type \in {"select", "delete", "update"}
         /\ planner_create_plan(s) = "index_delete" => s.type = "delete" /\ Point(s)
         /\ planner_create_plan(s) = "index_update" => s.type = "update" /\ Point(s)
         /\ planner_create_plan(s) = "index_lookup" => s.type = "select" /\ Point(s)
         /\ s.type = "delete" /\ Point(s) => planner_create_plan(s) = "index_delete"
         /\ planner_create_plan(s) = "index_range" => s.type = "select"
         /\ planner_create_plan(s) = "insert" <=> s.type = "insert"
         /\ s.type \in {"select", "delete", "update"} =>
              planner_create_plan(s) = "index_range" \/ Point(s) \/ Scan(s)
BY DEF StatementType, planner_create_plan, predicate_kind, Point, Scan

\* The statements of the workload.
LEMMA Statements ==
  /\ IsFiniteSet(Threads) /\ MaxId \in Nat \ {0} /\ Ages \subseteq Long
  /\ LongMax \in Nat /\ MaxId <= LongMax
  /\ \A t \in Threads : \A s \in Workload[t] :
       s \in StatementType /\ s.type # "none" /\ s.age \in Ages
BY EngineAssumption

\* An id of a row is the same number with a sign and without; no other value of
\* a WHERE is converted to it.
LEMMA Conversion ==
  ASSUME NEW n \in Long
  PROVE  Unsigned(n) \in Nat /\ (Unsigned(n) \in Ids => Unsigned(n) = n)
BY Statements DEF Long, Unsigned, UINT64_MAX, Ids

LEMMA PointLock ==
  ASSUME NEW s \in StatementType, Point(s)
  PROVE  /\ determine_lock(s).low = Unsigned(s.val)
         /\ determine_lock(s).high = Unsigned(s.val)
         /\ determine_lock(s).mode = IF s.type = "select" THEN "S" ELSE "X"
<1>1. s.where = "id" /\ s.op = "eq" /\ s.type \in {"select", "delete", "update"}
  BY Paths
<1>2. predicate_kind(s) = "id_eq"
  BY <1>1 DEF predicate_kind
<1>3. determine_lock(s) =
        [low |-> Unsigned(s.val), high |-> Unsigned(s.val),
         mode |-> IF s.type = "select" THEN "S" ELSE "X"]
  BY <1>1, <1>2 DEF determine_lock
<1>. QED
  BY <1>3

LEMMA LockTypes ==
  ASSUME NEW s \in StatementType
  PROVE  /\ determine_lock(s).low \in Int
         /\ determine_lock(s).high \in Int
         /\ determine_lock(s).mode \in {"S", "X"}
<1>. DEFINE val == Unsigned(s.val)
<1>1. val \in Int
  <2>1. s.val \in Long
    BY DEF StatementType
  <2>. QED
    BY <2>1, Conversion
<1>2. CASE s.type \notin {"select", "delete", "update"}
  BY <1>2 DEF determine_lock, NoLock
<1>3. CASE s.type \in {"select", "delete", "update"} /\ predicate_kind(s) = "id_eq"
  <2>1. determine_lock(s) =
          [low |-> val, high |-> val, mode |-> IF s.type = "select" THEN "S" ELSE "X"]
    BY <1>3 DEF determine_lock
  <2>. HIDE DEF val
  <2>. QED
    BY <1>1, <2>1
<1>4. CASE s.type \in {"select", "delete", "update"} /\ predicate_kind(s) # "id_eq"
  <2>1. ~(predicate_kind(s) = "field_cmp" /\ s.where = "id") \/ s.op = "ne"
    BY DEF predicate_kind, StatementType
  <2>2. determine_lock(s) = NoLock
    BY <1>4, <2>1 DEF determine_lock, NoLock
  <2>. QED
    BY <2>2 DEF NoLock
<1>. QED
  BY <1>2, <1>3, <1>4

\* An INSERT takes no lock before it enters the engine.
LEMMA InsertLock ==
  ASSUME NEW s \in StatementType, s.type = "insert"
  PROVE  ~(determine_lock(s).low <= determine_lock(s).high)
<1>1. determine_lock(s) = NoLock
  BY DEF determine_lock
<1>. QED
  BY <1>1 DEF NoLock

\* What the executor begins with.
LEMMA Firsts ==
  ASSUME NEW s \in StatementType, s.type # "none", ~is_ddl(s), ~Trivial(s)
  PROVE  /\ First(s) \in {"take_id", "collect", "scan", "search"}
         /\ First(s) = "take_id" <=> s.type = "insert"
         /\ First(s) = "collect" => s.type = "select"
         /\ First(s) = "scan" => Scan(s)
         /\ First(s) = "search" => Point(s)
BY Paths DEF First, Trivial, is_ddl, StatementType, Scan

\* A set of ids that is not empty has a least one, which Min chooses.
LEMMA LeastId ==
  ASSUME NEW S \in SUBSET Ids, S # {}
  PROVE  Min(S) \in S /\ \A k \in S : Min(S) <= k
<1>. DEFINE less == OpToRel(<, Nat)
<1>1. \A x, y \in Nat : <<y, x>> \in less <=> y < x
  BY DEF OpToRel
<1>2. IsWellFoundedOn(less, Nat)
  BY NatLessThanWellFounded
<1>. HIDE DEF less
<1>3. S \subseteq Nat
  BY Statements DEF Ids
<1>4. PICK x \in S : \A y \in S : ~ (<<y, x>> \in less)
  BY <1>2, <1>3, WFMin
<1>5. \A y \in S : x \in Nat /\ y \in Nat /\ ~ (y < x)
  BY <1>1, <1>3, <1>4
<1>6. \A y \in S : x <= y
  BY <1>5
<1>. QED
  BY <1>6 DEF Min

-----------------------------------------------------------------------------
\* The locals of a statement that has come to its end.
LEMMA Ends ==
  ASSUME Types, NEW t \in Threads
  PROVE  /\ Idle \in Locals
         /\ Done(t) \in Locals /\ Failed(t) \in Locals
         /\ \A l \in {Done(t), Failed(t)} :
              l.pc = "leave" /\ l.stmt = th[t].stmt /\ l.changed = th[t].changed
         /\ Done(t).result = "ok" /\ Failed(t).result = "failed"
<1>1. Idle \in Locals
  <2>1. NoRow \in Row \cup {NoRow} /\ << >> \in Seq(Refs) /\ 0 \in 0..MaxId
    BY Statements
  <2>2. NoStatement \in StatementType
    BY Statements DEF NoStatement, StatementType, NoLimit, Long
  <2>. QED
    BY <2>1, <2>2 DEF Idle, Locals, Pcs
<1>2. th[t] \in Locals
  BY DEF Types
<1>3. Done(t) \in Locals
  BY <1>1, <1>2 DEF Done, Locals, Idle, Pcs
<1>4. Done(t).pc = "leave" /\ Done(t).stmt = th[t].stmt
      /\ Done(t).changed = th[t].changed /\ Done(t).result = "ok"
  BY DEF Done, Idle
<1>5. Failed(t) \in Locals
  BY <1>3 DEF Failed, Locals
<1>6. Failed(t).pc = "leave" /\ Failed(t).stmt = th[t].stmt
      /\ Failed(t).changed = th[t].changed /\ Failed(t).result = "failed"
  BY <1>3, <1>4 DEF Failed, Locals
<1>. QED
  BY <1>1, <1>3, <1>4, <1>5, <1>6

\* The same, with rows in the answer.
LEMMA EndsWith ==
  ASSUME Inv, NEW t \in Threads, NEW g \in SUBSET Row
  PROVE  LET l == [Done(t) EXCEPT !.got = g]
         IN l \in Locals /\ l.pc = "leave" /\ l.stmt = th[t].stmt
            /\ l.changed = th[t].changed /\ l.result = "ok"
<1>. DEFINE d == Done(t)
            l == [d EXCEPT !.got = g]
<1>1. /\ d \in Locals /\ d.pc = "leave" /\ d.stmt = th[t].stmt
      /\ d.changed = th[t].changed /\ d.result = "ok"
  BY Ends DEF Inv
<1>. HIDE DEF d
<1>2. l \in Locals /\ l.pc = d.pc /\ l.stmt = d.stmt /\ l.changed = d.changed
      /\ l.result = d.result
  BY <1>1 DEF Locals
<1>3. l.pc = "leave" /\ l.stmt = th[t].stmt /\ l.changed = th[t].changed /\ l.result = "ok"
  BY <1>1, <1>2
<1>. QED
  BY <1>2, <1>3 DEF d

\* The locals of a statement that goes on to its next row, if it has one.
LEMMA Onwards ==
  ASSUME Inv, NEW t \in Threads
  PROVE  /\ Onward(t) \in Locals
         /\ Onward(t).stmt = th[t].stmt /\ Onward(t).changed = th[t].changed
         /\ \/ Onward(t).pc = "leave" /\ Onward(t).result = "ok"
            \/ /\ Onward(t).pc = "search" /\ Onward(t).result = th[t].result
               /\ Scan(th[t].stmt)
               /\ Onward(t).id \in th[t].todo /\ Onward(t).todo \subseteq th[t].todo
<1>. DEFINE k == Min(th[t].todo)
<1>1. th[t] \in Locals
  BY DEF Inv, Types
<1>2. CASE ~(Scans(t) /\ th[t].todo # {})
  <2>1. Onward(t) = Done(t)
    BY <1>2 DEF Onward
  <2>. QED
    BY <2>1, Ends DEF Inv
<1>3. CASE Scans(t) /\ th[t].todo # {}
  <2>1. k \in th[t].todo /\ k \in Nat /\ th[t].todo \ {k} \in SUBSET Ids
    BY <1>1, <1>3, LeastId, Statements DEF Locals, Ids
  <2>2. Onward(t) = [th[t] EXCEPT !.pc = "search", !.id = k,
                     !.todo = th[t].todo \ {k}, !.ref = 0, !.row = NoRow]
    BY <1>3 DEF Onward
  <2>3. 0 \in 0..MaxId
    BY Statements
  <2>. HIDE DEF k
  <2>4. Onward(t) \in Locals
    BY <1>1, <2>1, <2>2, <2>3 DEF Locals, Pcs, RowSteps
  <2>5. /\ Onward(t).pc = "search" /\ Onward(t).id = k
        /\ Onward(t).todo = th[t].todo \ {k} /\ Onward(t).stmt = th[t].stmt
        /\ Onward(t).result = th[t].result /\ Onward(t).changed = th[t].changed
    BY <1>1, <2>2 DEF Locals
  <2>. QED
    BY <1>3, <2>1, <2>4, <2>5 DEF Scans, Path, Scan
<1>. QED
  BY <1>2, <1>3

\* A step of t that changes no row, no entry of the index and no lock of
\* another thread disturbs nobody else.
LEMMA LocalStep ==
  ASSUME Inv, NEW t \in Threads, NEW l \in Locals,
         th' = [th EXCEPT ![t] = l],
         heap' = heap, index' = index, next_id' = next_id,
         readers_pass' = readers_pass, created' \in BOOLEAN, row_count' \in Int,
         held' \in [Threads -> [Ids -> LM!Hold]], Exclusive',
         \A u \in Threads \ {t} : held'[u] = held[u],
         th[t].pc \notin {"bptree_insert", "bptree_delete"},
         l.pc \in {"lock_own", "heap_insert", "bptree_insert"} =>
           th[t].pc \in {"lock_own", "heap_insert"} /\ l.id = th[t].id,
         Program(t)', Changes(t)', Locked(t)', AtRow(t)'
  PROVE  Inv'
<1>1. th' \in [Threads -> Locals] /\ th'[t] = l
  BY DEF Inv, Types
<1>2. \A u \in Threads \ {t} : th'[u] = th[u]
  BY DEF Inv, Types
<1>3. Types'
  BY <1>1 DEF Inv, Types
<1>4. OwnIds'
  BY <1>1, <1>2 DEF Inv, OwnIds
<1>5. Agree'
  BY <1>1, <1>2 DEF Inv, Agree, Between
<1>6. Fresh'
  BY DEF Inv, Fresh
<1>7. ASSUME NEW u \in Threads \ {t}
      PROVE  Program(u)' /\ Changes(u)' /\ Locked(u)' /\ AtRow(u)'
  <2>1. th'[u] = th[u] /\ held'[u] = held[u]
    BY <1>2
  <2>2. Program(u) /\ Changes(u) /\ Locked(u) /\ AtRow(u)
    BY DEF Inv
  <2>3. Program(u)'
    BY <2>1, <2>2 DEF Program
  <2>4. Changes(u)'
    BY <2>1, <2>2 DEF Changes
  <2>5. Locked(u)'
    BY <2>1, <2>2 DEF Locked, Has
  <2>6. AtRow(u)'
    BY <2>1, <2>2 DEF AtRow
  <2>. QED
    BY <2>3, <2>4, <2>5, <2>6
<1>. QED
  BY <1>3, <1>4, <1>5, <1>6, <1>7 DEF Inv

-----------------------------------------------------------------------------
\* A lock that is granted excludes whom it must, and takes nothing back.
LEMMA Granted ==
  ASSUME Inv, NEW t \in Threads, NEW low \in Int, NEW high \in Int,
         NEW m \in {"S", "X"}, LM!Acquire(t, low, high, m)
  PROVE  /\ held' \in [Threads -> [Ids -> LM!Hold]] /\ Exclusive'
         /\ \A u \in Threads \ {t} : held'[u] = held[u]
         /\ \A k \in Ids :
              /\ held[t][k] = "X" => held'[t][k] = "X"
              /\ held[t][k] # "none" => held'[t][k] # "none"
              /\ low <= k /\ k <= high =>
                   held'[t][k] # "none" /\ (m = "X" => held'[t][k] = "X")
<1>. DEFINE mine == [k \in Ids |-> IF k \in LM!Span(low, high)
                                   THEN LM!Strongest(held[t][k], m) ELSE held[t][k]]
<1>1. held \in [Threads -> [Ids -> LM!Hold]]
  BY DEF Inv, Types
<1>2. \A k \in Ids : LM!Strongest(held[t][k], m) = IF "X" \in {held[t][k], m} THEN "X" ELSE "S"
  BY <1>1 DEF LM!Strongest, LM!Hold
<1>3. mine \in [Ids -> LM!Hold]
  BY <1>1, <1>2 DEF LM!Hold
<1>4. held' = [held EXCEPT ![t] = mine]
  BY DEF LM!Acquire
<1>5. /\ \A k \in LM!Span(low, high) : mine[k] = IF "X" \in {held[t][k], m} THEN "X" ELSE "S"
      /\ \A k \in Ids \ LM!Span(low, high) : mine[k] = held[t][k]
  BY <1>2 DEF LM!Span
<1>. HIDE DEF mine
<1>6. /\ held' \in [Threads -> [Ids -> LM!Hold]] /\ held'[t] = mine
      /\ \A u \in Threads \ {t} : held'[u] = held[u]
  BY <1>1, <1>3, <1>4
<1>7. \A u \in Threads \ {t}, k \in Ids : LM!Compatible(held[u][k], mine[k])
  <2>. SUFFICES ASSUME NEW u \in Threads \ {t}, NEW k \in Ids
                PROVE  LM!Compatible(held[u][k], mine[k])
    OBVIOUS
  <2>1. LM!Compatible(held[u][k], held[t][k])
    BY DEF Inv, Exclusive
  <2>2. CASE k \in LM!Span(low, high)
    <3>1. LM!Compatible(held[u][k], m)
      BY <2>2 DEF LM!Acquire
    <3>. QED
      BY <1>1, <1>5, <2>1, <2>2, <3>1 DEF LM!Compatible, LM!Hold
  <2>3. CASE k \notin LM!Span(low, high)
    BY <1>5, <2>1, <2>3
  <2>. QED
    BY <2>2, <2>3
<1>8. Exclusive'
  <2>. SUFFICES ASSUME NEW v \in Threads, NEW u \in Threads, NEW k \in Ids, v # u
                PROVE  LM!Compatible(held'[v][k], held'[u][k])
    BY DEF Exclusive, LM!Compatible
  <2>1. LM!Compatible(held[v][k], held[u][k])
    BY DEF Inv, Exclusive
  <2>. QED
    BY <1>6, <1>7, <2>1 DEF LM!Compatible
<1>9. ASSUME NEW k \in Ids
      PROVE  /\ held[t][k] = "X" => held'[t][k] = "X"
             /\ held[t][k] # "none" => held'[t][k] # "none"
             /\ low <= k /\ k <= high =>
                  held'[t][k] # "none" /\ (m = "X" => held'[t][k] = "X")
  <2>1. k \in LM!Span(low, high) <=> (low <= k /\ k <= high)
    BY DEF LM!Span
  <2>. QED
    BY <1>5, <1>6, <2>1
<1>. QED
  BY <1>6, <1>8, <1>9

\* With its locks given back, a statement is in nobody's way.
LEMMA Released ==
  ASSUME Inv, NEW t \in Threads, LM!Release(t)
  PROVE  /\ held' \in [Threads -> [Ids -> LM!Hold]] /\ Exclusive'
         /\ \A u \in Threads \ {t} : held'[u] = held[u]
         /\ \A k \in Ids : held'[t][k] = "none"
<1>1. /\ held' = [held EXCEPT ![t] = [k \in Ids |-> "none"]]
      /\ held \in [Threads -> [Ids -> LM!Hold]]
  BY DEF LM!Release, Inv, Types
<1>2. /\ held' \in [Threads -> [Ids -> LM!Hold]]
      /\ \A u \in Threads \ {t} : held'[u] = held[u]
      /\ \A k \in Ids : held'[t][k] = "none"
  BY <1>1 DEF LM!Hold
<1>3. Exclusive'
  BY <1>2 DEF Inv, Exclusive, LM!Compatible
<1>. QED
  BY <1>2, <1>3

\* A row that t has exclusively, no other thread has in any way.
LEMMA Alone ==
  ASSUME Inv, NEW t \in Threads, NEW u \in Threads, t # u, NEW k \in Ids,
         held[t][k] = "X"
  PROVE  held[u][k] = "none"
<1>1. LM!Compatible(held[t][k], held[u][k])
  BY DEF Inv, Exclusive
<1>. QED
  BY <1>1 DEF LM!Compatible

-----------------------------------------------------------------------------
\* LocalStep for the steps that take and give back no lock.
LEMMA QuietStep ==
  ASSUME Inv, NEW t \in Threads, NEW l \in Locals,
         th' = [th EXCEPT ![t] = l],
         UNCHANGED <<heap, index, next_id, held, readers_pass>>,
         created' \in BOOLEAN, row_count' \in Int,
         th[t].pc \notin {"bptree_insert", "bptree_delete"},
         l.pc \in {"lock_own", "heap_insert", "bptree_insert"} =>
           th[t].pc \in {"lock_own", "heap_insert"} /\ l.id = th[t].id,
         Program(t)', Changes(t)', Locked(t)', AtRow(t)'
  PROVE  Inv'
<1>1. held' \in [Threads -> [Ids -> LM!Hold]] /\ Exclusive'
  BY DEF Inv, Types, Exclusive
<1>. QED
  BY <1>1, LocalStep

\* A statement ends, with or without an error.
LEMMA EndStep ==
  ASSUME Inv, NEW t \in Threads, NEW l \in Locals,
         th' = [th EXCEPT ![t] = l],
         UNCHANGED <<heap, index, next_id, held, readers_pass>>,
         created' \in BOOLEAN, row_count' \in Int,
         th[t].pc \notin {"idle", "bptree_insert", "bptree_delete"},
         l.pc \in {"leave", "release"}, l.stmt = th[t].stmt,
         l.result = "failed" => ~l.changed
  PROVE  Inv'
<1>1. th'[t] = l
  BY DEF Inv, Types
<1>2. Program(t)'
  BY <1>1 DEF Inv, Program, InsertSteps, RowSteps
<1>3. Changes(t)'
  BY <1>1 DEF Changes
<1>4. Locked(t)'
  BY <1>1 DEF Locked, RowSteps
<1>5. AtRow(t)'
  BY <1>1 DEF AtRow
<1>. QED
  BY <1>2, <1>3, <1>4, <1>5, QuietStep

\* A statement goes on to its next row.
LEMMA OnwardStep ==
  ASSUME Inv, NEW t \in Threads, th' = [th EXCEPT ![t] = Onward(t)],
         UNCHANGED <<heap, index, next_id, held, readers_pass>>,
         created' \in BOOLEAN, row_count' \in Int,
         th[t].pc \in RowSteps \ {"bptree_delete"}
  PROVE  Inv'
<1>. DEFINE l == Onward(t)
<1>0. th[t] \in Locals
  BY DEF Inv, Types
<1>1. /\ l \in Locals /\ l.stmt = th[t].stmt /\ l.changed = th[t].changed
      /\ \/ l.pc = "leave" /\ l.result = "ok"
         \/ /\ l.pc = "search" /\ l.result = th[t].result /\ Scan(th[t].stmt)
            /\ l.id \in th[t].todo /\ l.todo \subseteq th[t].todo
  BY Onwards
<1>. HIDE DEF l
<1>2. th'[t] = l
  BY DEF Inv, Types, l
<1>3. Program(t) /\ Changes(t) /\ Locked(t)
  BY DEF Inv
<1>4. CASE l.pc = "leave"
  BY <1>1, <1>2, <1>4, EndStep DEF RowSteps, l
<1>5. CASE l.pc = "search"
  <2>1. Program(t)'
    BY <1>0, <1>1, <1>2, <1>3, <1>5, Paths DEF Program, InsertSteps, RowSteps, Locals
  <2>2. Changes(t)'
    BY <1>1, <1>2, <1>3, <1>5 DEF Changes, RowSteps
  <2>3. Locked(t)'
    BY <1>0, <1>1, <1>2, <1>3, <1>5 DEF Locked, RowSteps, Has
  <2>4. AtRow(t)'
    BY <1>2, <1>5 DEF AtRow
  <2>. QED
    BY <1>1, <1>5, <2>1, <2>2, <2>3, <2>4, QuietStep DEF l, RowSteps
<1>. QED
  BY <1>1, <1>4, <1>5

-----------------------------------------------------------------------------
\* Inv is kept by the steps of db_execute around the executor.
LEMMA BeginInv ==
  ASSUME Inv, NEW t \in Threads, NEW s \in Workload[t], Begin(t, s)
  PROVE  Inv'
<1>. DEFINE where == IF determine_lock(s).low <= determine_lock(s).high
                     THEN "lock" ELSE "enter"
            l == [Idle EXCEPT !.pc = where, !.stmt = s]
<1>1. s \in StatementType
  BY Statements
<1>2. where = "lock" \/ (where = "enter" /\ ~Point(s))
  <2>1. ASSUME Point(s) PROVE where = "lock"
    <3>1. Unsigned(s.val) \in Nat
      BY <1>1, Conversion DEF StatementType
    <3>2. /\ determine_lock(s).low = Unsigned(s.val)
          /\ determine_lock(s).high = Unsigned(s.val)
      BY <1>1, <2>1, PointLock
    <3>. QED
      BY <3>1, <3>2
  <2>. QED
    BY <2>1
<1>10. s.type = "insert" => where # "lock"
  BY <1>1, InsertLock
<1>3. th' = [th EXCEPT ![t] = l] /\ th[t].pc = "idle"
      /\ UNCHANGED <<stores, held, readers_pass>>
  BY DEF Begin, Set, At
<1>. HIDE DEF where
<1>4. l \in Locals /\ l.pc = where /\ l.stmt = s /\ l.result = "ok" /\ l.changed = FALSE
      /\ l.cur = 0
  BY <1>1, <1>2, Ends DEF Inv, Locals, Pcs, Idle
<1>. HIDE DEF l
<1>5. th'[t] = l
  BY <1>3 DEF Inv, Types
<1>6. Program(t)'
  BY <1>2, <1>4, <1>5, <1>10 DEF Program, InsertSteps, RowSteps
<1>7. Changes(t)'
  BY <1>4, <1>5 DEF Changes
<1>8. Locked(t)'
  <2>1. \A k \in Ids : held'[t][k] = "none"
    BY <1>3 DEF Inv, Locked
  <2>. QED
    BY <1>2, <1>4, <1>5, <2>1 DEF Locked, RowSteps
<1>9. AtRow(t)'
  BY <1>2, <1>4, <1>5 DEF AtRow
<1>. QED
  BY <1>2, <1>3, <1>4, <1>6, <1>7, <1>8, <1>9, QuietStep DEF stores, Inv, Types

LEMMA RowLockInv ==
  ASSUME Inv, NEW t \in Threads, RowLock(t)
  PROVE  Inv'
<1>. DEFINE s == th[t].stmt
            lock == determine_lock(s)
            l == [th[t] EXCEPT !.pc = "enter"]
<1>1. th[t] \in Locals /\ th[t].pc = "lock"
  BY DEF Inv, Types, RowLock, At
<1>2. Program(t) /\ Changes(t)
  BY DEF Inv
<1>3. s \in StatementType
  BY <1>1 DEF Locals
<1>4. l \in Locals /\ l.pc = "enter" /\ l.stmt = s /\ l.cur = th[t].cur
      /\ l.result = th[t].result /\ l.changed = th[t].changed
  BY <1>1 DEF Locals, Pcs
<1>5. th' = [th EXCEPT ![t] = l] /\ UNCHANGED <<stores, readers_pass>>
      /\ LM!Acquire(t, lock.low, lock.high, lock.mode)
  BY DEF RowLock, Goto, Set
<1>6. lock.low \in Int /\ lock.high \in Int /\ lock.mode \in {"S", "X"}
  BY <1>3, LockTypes
<1>. HIDE DEF l
<1>7. th'[t] = l
  BY <1>5 DEF Inv, Types
<1>8. /\ held' \in [Threads -> [Ids -> LM!Hold]] /\ Exclusive'
      /\ \A u \in Threads \ {t} : held'[u] = held[u]
      /\ \A k \in Ids : lock.low <= k /\ k <= lock.high =>
           held'[t][k] # "none" /\ (lock.mode = "X" => held'[t][k] = "X")
  BY <1>5, <1>6, Granted
<1>9. Program(t)'
  BY <1>1, <1>2, <1>4, <1>7 DEF Program, InsertSteps, RowSteps
<1>10. Changes(t)'
  BY <1>1, <1>2, <1>4, <1>7 DEF Changes, RowSteps
<1>11. Locked(t)'
  <2>. SUFFICES ASSUME Point(s), Unsigned(s.val) \in Ids
                 PROVE  Has(t, Unsigned(s.val))'
    BY <1>4, <1>7 DEF Locked, RowSteps
  <2>1. lock.low = Unsigned(s.val) /\ lock.high = Unsigned(s.val)
        /\ lock.mode = IF s.type = "select" THEN "S" ELSE "X"
    BY <1>3, PointLock
  <2>2. Unsigned(s.val) <= Unsigned(s.val)
    BY Statements DEF Ids
  <2>. QED
    BY <1>4, <1>7, <1>8, <2>1, <2>2 DEF Has
<1>12. AtRow(t)'
  BY <1>4, <1>7 DEF AtRow
<1>. QED
  BY <1>1, <1>4, <1>5, <1>8, <1>9, <1>10, <1>11, <1>12, LocalStep DEF stores, Inv, Types

LEMMA RowLockFailsInv ==
  ASSUME Inv, NEW t \in Threads, RowLockFails(t)
  PROVE  Inv'
<1>1. th' = [th EXCEPT ![t] = Idle] /\ th[t].pc = "lock"
      /\ UNCHANGED <<stores, held, readers_pass>>
  BY DEF RowLockFails, Set, At
<1>2. Idle \in Locals /\ Idle.pc = "idle" /\ Idle.stmt = NoStatement
      /\ Idle.result = "ok" /\ Idle.changed = FALSE
  BY Ends DEF Inv, Idle
<1>3. th'[t] = Idle
  BY <1>1 DEF Inv, Types
<1>4. Program(t)'
  BY <1>2, <1>3 DEF Program, InsertSteps, RowSteps
<1>5. Changes(t)'
  BY <1>2, <1>3 DEF Changes
<1>6. Locked(t)'
  BY <1>1, <1>2, <1>3 DEF Inv, Locked, RowSteps
<1>7. AtRow(t)'
  BY <1>2, <1>3 DEF AtRow
<1>. QED
  BY <1>1, <1>2, <1>4, <1>5, <1>6, <1>7, QuietStep DEF stores, Inv, Types

LEMMA EnterInv ==
  ASSUME Inv, NEW t \in Threads, Enter(t)
  PROVE  Inv'
<1>. DEFINE s == th[t].stmt
            first == IF First(s) = "search" THEN Unsigned(s.val) ELSE 0
            l == [th[t] EXCEPT !.pc = First(s), !.id = first]
<1>1. th[t] \in Locals /\ th[t].pc = "enter" /\ ~is_ddl(s)
      /\ UNCHANGED <<stores, held, readers_pass>>
  BY DEF Inv, Types, Enter, At
<1>2. Program(t) /\ Changes(t) /\ Locked(t) /\ s \in Workload[t] /\ s.type # "none"
      /\ s \in StatementType
  BY <1>1, Statements DEF Inv, Program, Locals
<1>3. CASE Refused(s)
  <2>1. th' = [th EXCEPT ![t] = Failed(t)]
    BY <1>3 DEF Enter, Set
  <2>2. ~th[t].changed
    BY <1>1, <1>2 DEF Changes, RowSteps
  <2>. QED
    BY <1>1, <2>1, <2>2, Ends, EndStep DEF stores, Inv, Types
<1>4. CASE ~Refused(s) /\ Trivial(s)
  <2>1. th' = [th EXCEPT ![t] = Done(t)]
    BY <1>4 DEF Enter, Set
  <2>. QED
    BY <1>1, <2>1, Ends, EndStep DEF stores, Inv, Types
<1>5. CASE ~Refused(s) /\ ~Trivial(s)
  <2>1. th' = [th EXCEPT ![t] = l]
    BY <1>5 DEF Enter, Set
  <2>2. /\ First(s) \in {"take_id", "collect", "scan", "search"}
        /\ First(s) = "take_id" <=> s.type = "insert"
        /\ First(s) = "collect" => s.type = "select"
        /\ First(s) = "scan" => Scan(s)
        /\ First(s) = "search" => Point(s)
    BY <1>1, <1>2, <1>5, Firsts
  <2>3. first \in Nat
    BY <1>2, Conversion DEF StatementType
  <2>4. First(s) \in Pcs
    BY <2>2 DEF Pcs, InsertSteps, RowSteps
  <2>5. l \in Locals /\ l.pc = First(s) /\ l.id = first /\ l.stmt = s
        /\ l.result = th[t].result /\ l.changed = th[t].changed /\ l.cur = th[t].cur
    BY <1>1, <2>3, <2>4 DEF Locals
  <2>. HIDE DEF l
  <2>6. th'[t] = l
    BY <2>1 DEF Inv, Types
  <2>7. Program(t)'
    BY <1>1, <1>2, <2>2, <2>5, <2>6, Paths, Statements DEF Program, InsertSteps, RowSteps
  <2>8. Changes(t)'
    BY <1>1, <1>2, <2>5, <2>6 DEF Changes, RowSteps
  <2>9. Locked(t)'
    BY <1>1, <1>2, <2>2, <2>5, <2>6, Paths DEF Locked, RowSteps, Has
  <2>10. AtRow(t)'
    BY <2>2, <2>5, <2>6 DEF AtRow
  <2>. QED
    BY <1>1, <2>1, <2>2, <2>5, <2>7, <2>8, <2>9, <2>10, QuietStep DEF stores, Inv, Types
<1>. QED
  BY <1>3, <1>4, <1>5

LEMMA LeaveInv ==
  ASSUME Inv, NEW t \in Threads, Leave(t)
  PROVE  Inv'
<1>. DEFINE l == [th[t] EXCEPT !.pc = "release"]
<1>1. th[t] \in Locals /\ th[t].pc = "leave" /\ th' = [th EXCEPT ![t] = l]
      /\ UNCHANGED <<stores, held, readers_pass>>
  BY DEF Inv, Types, Leave, At, Goto, Set
<1>2. l \in Locals /\ l.pc = "release" /\ l.stmt = th[t].stmt
      /\ l.result = th[t].result /\ l.changed = th[t].changed
  BY <1>1 DEF Locals, Pcs
<1>3. l.result = "failed" => ~l.changed
  BY <1>2 DEF Inv, Changes
<1>. HIDE DEF l
<1>. QED
  BY <1>1, <1>2, <1>3, EndStep DEF stores, Inv, Types

LEMMA ReleaseInv ==
  ASSUME Inv, NEW t \in Threads, Release(t)
  PROVE  Inv'
<1>1. th' = [th EXCEPT ![t] = Idle] /\ th[t].pc = "release" /\ LM!Release(t)
      /\ UNCHANGED <<stores, readers_pass>>
  BY DEF Release, Set, At
<1>2. Idle \in Locals /\ Idle.pc = "idle" /\ Idle.stmt = NoStatement
      /\ Idle.result = "ok" /\ Idle.changed = FALSE
  BY Ends DEF Inv, Idle
<1>3. th'[t] = Idle
  BY <1>1 DEF Inv, Types
<1>4. /\ held' \in [Threads -> [Ids -> LM!Hold]] /\ Exclusive'
      /\ \A u \in Threads \ {t} : held'[u] = held[u]
      /\ \A k \in Ids : held'[t][k] = "none"
  BY <1>1, Released
<1>5. Program(t)'
  BY <1>2, <1>3 DEF Program, InsertSteps, RowSteps
<1>6. Changes(t)'
  BY <1>2, <1>3 DEF Changes
<1>7. Locked(t)'
  BY <1>2, <1>3, <1>4 DEF Locked, RowSteps
<1>8. AtRow(t)'
  BY <1>2, <1>3 DEF AtRow
<1>. QED
  BY <1>1, <1>2, <1>4, <1>5, <1>6, <1>7, <1>8, LocalStep DEF stores, Inv, Types

\* Inv is kept by DDL: nobody else is inside the engine.
LEMMA CreateInv ==
  ASSUME Inv, NEW t \in Threads, exec_create_table(t)
  PROVE  Inv'
<1>. DEFINE e == IF created THEN Failed(t) ELSE Done(t)
            l == [e EXCEPT !.pc = "release"]
<1>1. th' = [th EXCEPT ![t] = l] /\ th[t].pc = "enter" /\ created' = TRUE
      /\ UNCHANGED <<heap, index, next_id, row_count, held, readers_pass>>
  BY DEF exec_create_table, EnterDdl, WaitsForDdl, At, Set
<1>2. e \in Locals /\ e.stmt = th[t].stmt /\ e.changed = th[t].changed
  BY Ends DEF Inv
<1>3. th[t].changed = FALSE
  BY <1>1 DEF Inv, Types, Locals, Changes, RowSteps
<1>. HIDE DEF e
<1>4. l \in Locals /\ l.pc = "release" /\ l.stmt = th[t].stmt /\ l.changed = FALSE
  BY <1>2, <1>3 DEF Locals, Pcs
<1>. HIDE DEF l
<1>. QED
  BY <1>1, <1>4, EndStep DEF Inv, Types

\* Inv is kept by the steps that read.
LEMMA ScanRowInv ==
  ASSUME Inv, NEW t \in Threads, ScanRow(t)
  PROVE  Inv'
<1>. DEFINE s == th[t].stmt
            cur == th[t].cur + 1
            row == heap[cur]
            match == row # NoRow /\ match_predicate(row, s)
            got == IF match /\ s.type = "select" THEN th[t].got \cup {row} ELSE th[t].got
            ids == IF match /\ s.type # "select" THEN th[t].ids \cup {row.id} ELSE th[t].ids
            over == cur = MaxId \/ Full(s, got)
            l == IF over THEN Scanned(t, got, ids)
                 ELSE [th[t] EXCEPT !.cur = cur, !.got = got, !.ids = ids]
<1>1. th[t] \in Locals /\ th[t].pc = "scan" /\ th' = [th EXCEPT ![t] = l]
      /\ UNCHANGED <<stores, held, readers_pass>>
  BY DEF Inv, Types, ScanRow, At, Set
<1>2. Program(t) /\ Changes(t) /\ Scan(s) /\ s \in StatementType
      /\ s.type \in {"select", "delete", "update"}
  BY <1>1, Paths DEF Inv, Program, Locals
<1>3. cur \in 1..MaxId
  BY <1>1, <1>2, Statements DEF Program, Locals
<1>4. row \in Row \cup {NoRow}
  BY <1>3 DEF Inv, Types, Refs
<1>5. got \in SUBSET Row /\ ids \in SUBSET Ids
  BY <1>1, <1>4 DEF Locals, Row
<1>6. ~th[t].changed
  BY <1>1, <1>2 DEF Changes, RowSteps
<1>. HIDE DEF cur, got, ids, over
<1>7. CASE over /\ s.type = "select"
  <2>. DEFINE e == [Done(t) EXCEPT !.got = got]
  <2>1. l = e
    BY <1>7 DEF Scanned
  <2>2. e \in Locals /\ e.pc = "leave" /\ e.stmt = s /\ e.changed = th[t].changed
    BY <1>5, EndsWith
  <2>. HIDE DEF e, l
  <2>. QED
    BY <1>1, <1>6, <2>1, <2>2, EndStep DEF stores, Inv, Types
<1>8. CASE over /\ s.type # "select" /\ ids = {}
  <2>1. l = Done(t)
    BY <1>8 DEF Scanned
  <2>. HIDE DEF l
  <2>. QED
    BY <1>1, <2>1, Ends, EndStep DEF stores, Inv, Types
<1>9. CASE over /\ s.type # "select" /\ ids # {}
  <2>. DEFINE e == [th[t] EXCEPT !.pc = "lock_ids", !.cur = 0, !.ids = ids, !.todo = ids]
  <2>1. l = e
    BY <1>9 DEF Scanned
  <2>0. 0 \in 0..MaxId
    BY Statements
  <2>2. /\ e \in Locals /\ e.pc = "lock_ids" /\ e.stmt = s /\ e.ids = ids /\ e.todo = ids
        /\ e.result = th[t].result /\ e.changed = th[t].changed
    <3>1. e \in Locals
      BY <1>1, <1>5, <2>0 DEF Locals, Pcs
    <3>. QED
      BY <1>1, <3>1 DEF Locals
  <2>. HIDE DEF e, l
  <2>3. th'[t] = e
    BY <1>1, <2>1 DEF Inv, Types
  <2>4. Program(t)'
    BY <1>1, <1>2, <1>9, <2>2, <2>3 DEF Program, InsertSteps, RowSteps
  <2>5. Changes(t)'
    BY <1>1, <1>2, <1>6, <2>2, <2>3 DEF Changes
  <2>6. Locked(t)'
    BY <2>2, <2>3 DEF Locked, RowSteps
  <2>7. AtRow(t)'
    BY <2>2, <2>3 DEF AtRow
  <2>. QED
    BY <1>1, <2>1, <2>2, <2>4, <2>5, <2>6, <2>7, QuietStep DEF stores, Inv, Types
<1>10. CASE ~over
  <2>. DEFINE e == [th[t] EXCEPT !.cur = cur, !.got = got, !.ids = ids]
  <2>1. l = e /\ cur # MaxId
    BY <1>10 DEF over
  <2>0. cur \in 0..MaxId
    BY <1>3
  <2>2. /\ e \in Locals /\ e.pc = "scan" /\ e.stmt = s /\ e.cur = cur
        /\ e.result = th[t].result /\ e.changed = th[t].changed
    <3>1. e \in Locals
      BY <1>1, <1>5, <2>0 DEF Locals
    <3>. QED
      BY <1>1, <3>1 DEF Locals
  <2>. HIDE DEF e, l
  <2>3. th'[t] = e
    BY <1>1, <2>1 DEF Inv, Types
  <2>4. Program(t)'
    BY <1>1, <1>2, <1>3, <2>1, <2>2, <2>3, Statements DEF Program, InsertSteps, RowSteps
  <2>5. Changes(t)'
    BY <1>1, <1>2, <1>6, <2>2, <2>3 DEF Changes
  <2>6. Locked(t)'
    BY <2>2, <2>3 DEF Locked, RowSteps
  <2>7. AtRow(t)'
    BY <2>2, <2>3 DEF AtRow
  <2>. QED
    BY <1>1, <2>1, <2>2, <2>4, <2>5, <2>6, <2>7, QuietStep DEF stores, Inv, Types
<1>. QED
  BY <1>7, <1>8, <1>9, <1>10

LEMMA CollectFailsInv ==
  ASSUME Inv, NEW t \in Threads, CollectFails(t)
  PROVE  Inv'
<1>. DEFINE l == [Failed(t) EXCEPT !.got = {}]
<1>1. th[t].pc \in {"collect", "scan"} /\ th' = [th EXCEPT ![t] = l]
      /\ UNCHANGED <<stores, held, readers_pass>>
  BY DEF CollectFails, At, Set
<1>2. l \in Locals /\ l.pc = "leave" /\ l.stmt = th[t].stmt /\ l.changed = th[t].changed
  BY Ends DEF Inv, Locals
<1>3. ~th[t].changed
  BY <1>1 DEF Inv, Changes, RowSteps
<1>. HIDE DEF l
<1>. QED
  BY <1>1, <1>2, <1>3, EndStep DEF stores, Inv, Types

LEMMA LockFailsInv ==
  ASSUME Inv, NEW t \in Threads, LockFails(t)
  PROVE  Inv'
<1>1. th[t].pc \in {"lock_own", "lock_ids"} /\ th' = [th EXCEPT ![t] = Failed(t)]
      /\ UNCHANGED <<stores, held, readers_pass>>
  BY DEF LockFails, Set
<1>2. ~th[t].changed
  BY <1>1 DEF Inv, Changes, RowSteps
<1>. QED
  BY <1>1, <1>2, Ends, EndStep DEF stores, Inv, Types

LEMMA RangeCollectInv ==
  ASSUME Inv, NEW t \in Threads, range_collect_cb(t)
  PROVE  Inv'
<1>. DEFINE k == Min(Ahead(t))
            refs == Append(th[t].refs, index[k])
            end == [th[t] EXCEPT !.pc = "read", !.cur = 0]
            full == [th[t] EXCEPT !.pc = "read", !.cur = 0, !.refs = refs]
            more == [th[t] EXCEPT !.cur = k, !.refs = refs]
            l == IF Ahead(t) = {} THEN IF th[t].refs = << >> THEN Done(t) ELSE end
                 ELSE IF Len(refs) = th[t].stmt.limit THEN full ELSE more
<1>1. th[t] \in Locals /\ th[t].pc = "collect" /\ th' = [th EXCEPT ![t] = l]
      /\ UNCHANGED <<stores, held, readers_pass>>
  BY DEF Inv, Types, range_collect_cb, At, Set
<1>2. Program(t) /\ Changes(t) /\ ~th[t].changed
  BY <1>1 DEF Inv, Changes, RowSteps
<1>3. ASSUME Ahead(t) # {}
      PROVE  k \in Ids /\ refs \in Seq(Refs) /\ refs # << >>
  <2>1. Ahead(t) \in SUBSET Ids
    BY DEF Ahead
  <2>2. k \in Ahead(t)
    BY <1>3, <2>1, LeastId
  <2>. HIDE DEF k
  <2>3. k \in Ids /\ index[k] # 0
    BY <2>2 DEF Ahead
  <2>4. index[k] \in Refs
    BY <2>3, Statements DEF Inv, Types, Refs
  <2>. QED
    BY <1>1, <2>3, <2>4 DEF Locals
<1>. HIDE DEF k, refs
<1>4. CASE Ahead(t) = {} /\ th[t].refs = << >>
  <2>1. l = Done(t)
    BY <1>4
  <2>. HIDE DEF l
  <2>. QED
    BY <1>1, <2>1, Ends, EndStep DEF stores, Inv, Types
<1>5. CASE ~(Ahead(t) = {} /\ th[t].refs = << >>)
  <2>1. /\ l \in Locals /\ l.pc \in {"collect", "read"} /\ l.stmt = th[t].stmt
        /\ l.result = th[t].result /\ l.changed = th[t].changed
        /\ l.pc = "read" => l.refs # << >>
    <3>1. 0 \in 0..MaxId /\ Ids \subseteq 0..MaxId
      BY Statements DEF Ids
    <3>2. CASE Ahead(t) = {}
      <4>1. l = end
        BY <1>5, <3>2
      <4>2. end \in Locals
        BY <1>1, <3>1 DEF Locals, Pcs
      <4>. QED
        BY <1>1, <1>5, <3>2, <4>1, <4>2 DEF Locals
    <3>3. CASE Ahead(t) # {} /\ l = full
      <4>1. full \in Locals
        BY <1>1, <1>3, <3>1, <3>3 DEF Locals, Pcs
      <4>. QED
        BY <1>1, <1>3, <3>3, <4>1 DEF Locals
    <3>4. CASE Ahead(t) # {} /\ l = more
      <4>1. more \in Locals
        BY <1>1, <1>3, <3>1, <3>4 DEF Locals, Pcs
      <4>. QED
        BY <1>1, <1>3, <3>4, <4>1 DEF Locals
    <3>. QED
      BY <3>2, <3>3, <3>4
  <2>. HIDE DEF l
  <2>2. th'[t] = l
    BY <1>1 DEF Inv, Types
  <2>3. Program(t)'
    BY <1>1, <1>2, <2>1, <2>2 DEF Program, InsertSteps, RowSteps
  <2>4. Changes(t)'
    BY <1>1, <1>2, <2>1, <2>2 DEF Changes
  <2>5. Locked(t)'
    BY <2>1, <2>2 DEF Locked, RowSteps
  <2>6. AtRow(t)'
    BY <2>1, <2>2 DEF AtRow
  <2>. QED
    BY <1>1, <2>1, <2>3, <2>4, <2>5, <2>6, QuietStep DEF stores, Inv, Types
<1>. QED
  BY <1>4, <1>5

LEMMA ReadRowInv ==
  ASSUME Inv, NEW t \in Threads, ReadRow(t)
  PROVE  Inv'
<1>. DEFINE row == heap[Head(th[t].refs)]
            got == IF row = NoRow THEN th[t].got ELSE th[t].got \cup {row}
            rest == Tail(th[t].refs)
            end == [Done(t) EXCEPT !.got = got]
            more == [th[t] EXCEPT !.refs = rest, !.got = got]
            l == IF rest = << >> THEN end ELSE more
<1>1. th[t] \in Locals /\ th[t].pc = "read" /\ th' = [th EXCEPT ![t] = l]
      /\ UNCHANGED <<stores, held, readers_pass>>
  BY DEF Inv, Types, ReadRow, At, Set
<1>2. Program(t) /\ Changes(t) /\ ~th[t].changed
  BY <1>1 DEF Inv, Changes, RowSteps
<1>3. th[t].refs \in Seq(Refs) /\ th[t].refs # << >>
  BY <1>1, <1>2 DEF Program, Locals
<1>4. Head(th[t].refs) \in Refs /\ rest \in Seq(Refs)
  BY <1>3
<1>5. got \in SUBSET Row
  BY <1>1, <1>4 DEF Inv, Types, Locals
<1>. HIDE DEF got, rest
<1>6. CASE rest = << >>
  <2>1. l = end
    BY <1>6
  <2>2. end \in Locals /\ end.pc = "leave" /\ end.stmt = th[t].stmt
        /\ end.changed = th[t].changed
    BY <1>5, EndsWith
  <2>. HIDE DEF l, end
  <2>. QED
    BY <1>1, <1>2, <2>1, <2>2, EndStep DEF stores, Inv, Types
<1>7. CASE rest # << >>
  <2>1. l = more
    BY <1>7
  <2>2. /\ more \in Locals /\ more.pc = "read" /\ more.refs = rest
        /\ more.stmt = th[t].stmt
        /\ more.result = th[t].result /\ more.changed = th[t].changed
    BY <1>1, <1>4, <1>5 DEF Locals
  <2>. HIDE DEF l, more
  <2>3. th'[t] = more
    BY <1>1, <2>1 DEF Inv, Types
  <2>4. Program(t)'
    BY <1>1, <1>2, <1>7, <2>2, <2>3 DEF Program, InsertSteps, RowSteps
  <2>5. Changes(t)'
    BY <1>1, <1>2, <2>2, <2>3 DEF Changes
  <2>6. Locked(t)'
    BY <2>2, <2>3 DEF Locked, RowSteps
  <2>7. AtRow(t)'
    BY <2>2, <2>3 DEF AtRow
  <2>. QED
    BY <1>1, <2>1, <2>2, <2>4, <2>5, <2>6, <2>7, QuietStep DEF stores, Inv, Types
<1>. QED
  BY <1>6, <1>7

-----------------------------------------------------------------------------
\* Outside of another statement that changes row k, heap and index agree on it.
LEMMA Agreed ==
  ASSUME Inv, NEW t \in Threads, NEW k \in Ids, held[t][k] # "none",
         ~Between(t, k)
  PROVE  \A r \in Refs : heap[r].id = k <=> index[k] = r
<1>1. ASSUME NEW u \in Threads, Between(u, k) PROVE FALSE
  <2>1. u # t /\ Program(u) /\ Locked(u)
    BY <1>1 DEF Inv
  <2>2. held[u][k] = "X"
    BY <1>1, <2>1 DEF Between, Locked, Program, Has, RowSteps
  <2>. QED
    BY <2>1, <2>2, Alone
<1>. QED
  BY <1>1 DEF Inv, Agree

\* The row that a statement asks for by its id satisfies its WHERE.
LEMMA PointMatches ==
  ASSUME NEW s \in StatementType, Point(s), NEW row, row.id \in Ids, row.id = Unsigned(s.val)
  PROVE  match_predicate(row, s)
<1>1. s.where = "id" /\ s.op = "eq"
  BY Paths
<1>2. row.id = s.val
  BY Conversion DEF StatementType
<1>3. CompareSigned(s, row.id)
  BY <1>1, <1>2 DEF CompareSigned, Compare
<1>. QED
  BY <1>1, <1>3 DEF match_predicate

\* Inv is kept by the steps that lock what a statement has come upon.
LEMMA LockOwnInv ==
  ASSUME Inv, NEW t \in Threads, LockOwn(t)
  PROVE  Inv'
<1>. DEFINE k == th[t].id
            l == [th[t] EXCEPT !.pc = "heap_insert"]
<1>1. th[t] \in Locals /\ th[t].pc = "lock_own" /\ th' = [th EXCEPT ![t] = l]
      /\ UNCHANGED <<stores, readers_pass>> /\ LM!Acquire(t, k, k, "X")
  BY DEF Inv, Types, LockOwn, At, Goto, Set
<1>2. Program(t) /\ Changes(t) /\ AtRow(t)
  BY DEF Inv
<1>3. l \in Locals /\ l.pc = "heap_insert" /\ l.stmt = th[t].stmt /\ l.id = k
      /\ l.result = th[t].result /\ l.changed = th[t].changed
  BY <1>1 DEF Locals, Pcs, InsertSteps
<1>. HIDE DEF l
<1>4. th'[t] = l
  BY <1>1 DEF Inv, Types
<1>5. k \in Ids /\ k \in Int /\ k <= k
  BY <1>1, <1>2, Statements DEF AtRow, Ids
<1>6. /\ held' \in [Threads -> [Ids -> LM!Hold]] /\ Exclusive'
      /\ \A u \in Threads \ {t} : held'[u] = held[u]
      /\ held'[t][k] = "X"
  BY <1>1, <1>5, Granted
<1>7. Program(t)'
  BY <1>1, <1>2, <1>3, <1>4 DEF Program, InsertSteps, RowSteps
<1>8. Changes(t)'
  BY <1>1, <1>2, <1>3, <1>4 DEF Changes, RowSteps
<1>9. Locked(t)'
  BY <1>3, <1>4, <1>5, <1>6 DEF Locked, RowSteps
<1>10. AtRow(t)'
  BY <1>1, <1>2, <1>3, <1>4 DEF AtRow, stores
<1>. QED
  BY <1>1, <1>3, <1>6, <1>7, <1>8, <1>9, <1>10, LocalStep DEF stores, Inv, Types

LEMMA LockCollectedInv ==
  ASSUME Inv, NEW t \in Threads, lock_collected_ids(t)
  PROVE  Inv'
<1>. DEFINE k == Min(th[t].todo)
            rest == th[t].todo \ {k}
            ids == th[t].ids
            first == Min(ids)
            more == [th[t] EXCEPT !.todo = rest]
            loop == [th[t] EXCEPT !.pc = "search", !.id = first,
                                  !.todo = ids \ {first}, !.ids = {}]
            l == IF rest # {} THEN more ELSE loop
<1>1. th[t] \in Locals /\ th[t].pc = "lock_ids" /\ th' = [th EXCEPT ![t] = l]
      /\ UNCHANGED <<stores, readers_pass>> /\ LM!Acquire(t, k, k, "X")
  BY DEF Inv, Types, lock_collected_ids, At, Set
<1>2. Program(t) /\ Changes(t) /\ Locked(t)
  BY DEF Inv
<1>3. /\ th[t].todo \subseteq ids /\ ids \subseteq Ids /\ th[t].todo # {} /\ ids # {}
      /\ Scan(th[t].stmt) /\ th[t].stmt.type \in {"delete", "update"}
  BY <1>1, <1>2 DEF Program, Locals
<1>4. k \in th[t].todo /\ first \in ids
  BY <1>3, LeastId
<1>. HIDE DEF k, first
<1>5. k \in Int /\ k <= k /\ first \in Nat
  BY <1>3, <1>4, Statements DEF Ids
<1>6. /\ held' \in [Threads -> [Ids -> LM!Hold]] /\ Exclusive'
      /\ \A u \in Threads \ {t} : held'[u] = held[u]
      /\ \A i \in Ids : held[t][i] = "X" => held'[t][i] = "X"
      /\ held'[t][k] = "X"
  BY <1>1, <1>3, <1>4, <1>5, Granted
<1>7. \A i \in ids \ rest : held'[t][i] = "X"
  BY <1>1, <1>2, <1>3, <1>6 DEF Locked
<1>8. ~th[t].changed
  BY <1>1, <1>2 DEF Changes, RowSteps
<1>9. CASE rest # {}
  <2>1. l = more
    BY <1>9
  <2>2. more \in Locals
    BY <1>1 DEF Locals
  <2>3. /\ more.pc = "lock_ids" /\ more.stmt = th[t].stmt /\ more.todo = rest
        /\ more.ids = ids /\ more.result = th[t].result /\ more.changed = th[t].changed
    BY <1>1 DEF Locals
  <2>. HIDE DEF l, more
  <2>4. th'[t] = more
    BY <1>1, <2>1 DEF Inv, Types
  <2>5. Program(t)'
    BY <1>1, <1>2, <1>3, <1>9, <2>3, <2>4 DEF Program, InsertSteps, RowSteps
  <2>6. Changes(t)'
    BY <1>1, <1>2, <1>8, <2>3, <2>4 DEF Changes
  <2>7. Locked(t)'
    BY <1>7, <2>3, <2>4 DEF Locked, RowSteps
  <2>8. AtRow(t)'
    BY <2>3, <2>4 DEF AtRow
  <2>. QED
    BY <1>1, <1>6, <2>1, <2>2, <2>3, <2>5, <2>6, <2>7, <2>8, LocalStep DEF stores, Inv, Types
<1>10. CASE rest = {}
  <2>1. l = loop
    BY <1>10
  <2>2. loop \in Locals
    BY <1>1, <1>3, <1>5 DEF Locals, Pcs, RowSteps
  <2>3. /\ loop.pc = "search" /\ loop.stmt = th[t].stmt /\ loop.id = first
        /\ loop.todo = ids \ {first}
        /\ loop.result = th[t].result /\ loop.changed = th[t].changed
    BY <1>1 DEF Locals
  <2>. HIDE DEF l, loop
  <2>4. th'[t] = loop
    BY <1>1, <2>1 DEF Inv, Types
  <2>5. Program(t)'
    BY <1>1, <1>2, <1>3, <2>3, <2>4 DEF Program, InsertSteps, RowSteps
  <2>6. Changes(t)'
    BY <1>1, <1>2, <1>8, <2>3, <2>4 DEF Changes
  <2>7. Locked(t)'
    BY <1>3, <1>4, <1>7, <1>10, <2>3, <2>4 DEF Locked, RowSteps, Has
  <2>8. AtRow(t)'
    BY <2>3, <2>4 DEF AtRow
  <2>. QED
    BY <1>1, <1>6, <2>1, <2>2, <2>3, <2>5, <2>6, <2>7, <2>8, LocalStep DEF stores, Inv, Types
<1>. QED
  BY <1>9, <1>10

\* Inv is kept by the steps that look up a row and read it.
LEMMA SearchInv ==
  ASSUME Inv, NEW t \in Threads, bptree_search(t)
  PROVE  Inv'
<1>. DEFINE k == th[t].id
            ref == IF k \in Ids THEN index[k] ELSE 0
            pc == IF Path(t) = "index_delete" THEN "heap_delete" ELSE "fetch"
            l == [th[t] EXCEPT !.ref = ref, !.pc = pc]
<1>1. th[t] \in Locals /\ th[t].pc = "search"
      /\ th' = [th EXCEPT ![t] = IF ref = 0 THEN Onward(t) ELSE l]
      /\ UNCHANGED <<stores, held, readers_pass>>
  BY DEF Inv, Types, bptree_search, At, Set
<1>2. Program(t) /\ Changes(t) /\ Locked(t)
  BY DEF Inv
<1>3. CASE ref = 0
  BY <1>1, <1>3, OnwardStep DEF stores, Inv, Types, RowSteps
<1>4. CASE ref # 0
  <2>1. k \in Ids /\ ref = index[k] /\ ref \in Refs
    BY <1>4, Statements DEF Inv, Types, Refs
  <2>2. held[t][k] # "none" /\ ~Between(t, k)
    BY <1>1, <1>2, <2>1 DEF Locked, Has, Between, RowSteps
  <2>3. heap[ref].id = k
    BY <2>1, <2>2, Agreed
  <2>4. pc = "heap_delete" => th[t].stmt.type = "delete" /\ Point(th[t].stmt) /\ ~Scan(th[t].stmt)
    BY <1>1, Paths DEF Path, Locals
  <2>5. pc = "heap_delete" => match_predicate(heap[ref], th[t].stmt)
    <3>. SUFFICES ASSUME pc = "heap_delete"
                  PROVE  match_predicate(heap[ref], th[t].stmt)
      OBVIOUS
    <3>1. th[t].pc = "search" /\ th[t].stmt \in StatementType
      BY <1>1 DEF Locals
    <3>2. Point(th[t].stmt) /\ ~Scan(th[t].stmt) /\ k = Unsigned(th[t].stmt.val)
      BY <1>2, <2>4, <3>1 DEF Program, RowSteps
    <3>3. heap[ref].id \in Ids /\ heap[ref].id = Unsigned(th[t].stmt.val)
      BY <2>1, <2>3, <3>2
    <3>. HIDE DEF k, ref, pc
    <3>. QED
      BY <3>1, <3>2, <3>3, PointMatches
  <2>6. pc \in {"heap_delete", "fetch"} /\ ref \in 0..MaxId
    BY <2>1 DEF Refs
  <2>. HIDE DEF ref, pc
  <2>7. l \in Locals
    BY <1>1, <2>6 DEF Locals, Pcs, RowSteps
  <2>8. /\ l.pc = pc /\ l.stmt = th[t].stmt /\ l.id = k /\ l.ref = ref
        /\ l.todo = th[t].todo
        /\ l.result = th[t].result /\ l.changed = th[t].changed
    BY <1>1 DEF Locals
  <2>. HIDE DEF l
  <2>9. th'[t] = l /\ th' = [th EXCEPT ![t] = l]
    BY <1>1, <1>4 DEF Inv, Types
  <2>10. Program(t)'
    BY <1>1, <1>2, <2>4, <2>6, <2>8, <2>9 DEF Program, InsertSteps, RowSteps
  <2>11. Changes(t)'
    BY <1>1, <1>2, <2>6, <2>8, <2>9 DEF Changes, RowSteps
  <2>12. Locked(t)'
    BY <1>1, <1>2, <2>6, <2>8, <2>9 DEF Locked, RowSteps, Has
  <2>13. AtRow(t)'
    BY <1>1, <2>1, <2>3, <2>5, <2>6, <2>8, <2>9 DEF AtRow, stores
  <2>. QED
    BY <1>1, <2>6, <2>7, <2>8, <2>9, <2>10, <2>11, <2>12, <2>13, QuietStep DEF stores, Inv, Types
<1>. QED
  BY <1>3, <1>4

LEMMA FetchInv ==
  ASSUME Inv, NEW t \in Threads, heap_fetch(t)
  PROVE  Inv'
<1>. DEFINE s == th[t].stmt
            row == heap[th[t].ref]
            end == [Done(t) EXCEPT !.got = {row}]
            delete == [th[t] EXCEPT !.pc = "heap_delete"]
            write == [th[t] EXCEPT !.pc = "write_back", !.row = row]
<1>1. th[t] \in Locals /\ th[t].pc = "fetch" /\ th' = [th EXCEPT ![t] = Fetched(t, row)]
      /\ UNCHANGED <<stores, held, readers_pass>>
  BY DEF Inv, Types, heap_fetch, At, Set
<1>2. Program(t) /\ Changes(t) /\ Locked(t) /\ AtRow(t)
  BY DEF Inv
<1>3. s \in StatementType /\ s.type \in {"select", "delete", "update"}
  BY <1>1, <1>2, Paths DEF Program, Locals, RowSteps
<1>4. th[t].ref \in Refs /\ row.id = th[t].id /\ th[t].id \in Ids
      /\ index[th[t].id] = th[t].ref
  BY <1>1, <1>2 DEF AtRow
<1>5. row \in Row /\ row # NoRow
  BY <1>4, Statements DEF Inv, Types, NoRow, Ids
<1>6. Scan(s) \/ match_predicate(row, s)
  BY <1>1, <1>2, <1>3, <1>4, PointMatches DEF Program, RowSteps
<1>7. CASE s.type = "select"
  <2>1. Fetched(t, row) = end
    BY <1>5, <1>7 DEF Fetched
  <2>2. end \in Locals /\ end.pc = "leave" /\ end.stmt = s /\ end.result = "ok"
    BY <1>5, EndsWith
  <2>. HIDE DEF end
  <2>. QED
    BY <1>1, <2>1, <2>2, EndStep DEF stores, Inv, Types
<1>8. CASE s.type # "select" /\ Scans(t) /\ ~match_predicate(row, s)
  <2>1. Fetched(t, row) = Onward(t)
    BY <1>5, <1>8 DEF Fetched
  <2>. QED
    BY <1>1, <2>1, OnwardStep DEF stores, Inv, Types, RowSteps
<1>9. CASE s.type = "delete" /\ match_predicate(row, s)
  <2>1. Fetched(t, row) = delete
    BY <1>5, <1>9 DEF Fetched
  <2>2. delete \in Locals
    BY <1>1 DEF Locals, Pcs, RowSteps
  <2>3. /\ delete.pc = "heap_delete" /\ delete.stmt = s /\ delete.id = th[t].id
        /\ delete.ref = th[t].ref /\ delete.todo = th[t].todo
        /\ delete.result = th[t].result /\ delete.changed = th[t].changed
    BY <1>1 DEF Locals
  <2>. HIDE DEF delete
  <2>4. th'[t] = delete
    BY <1>1, <2>1 DEF Inv, Types
  <2>5. Program(t)'
    BY <1>1, <1>2, <1>9, <2>3, <2>4 DEF Program, InsertSteps, RowSteps
  <2>6. Changes(t)'
    BY <1>1, <1>2, <2>3, <2>4 DEF Changes, RowSteps
  <2>7. Locked(t)'
    BY <1>1, <1>2, <2>3, <2>4 DEF Locked, RowSteps, Has
  <2>8. AtRow(t)'
    BY <1>1, <1>2, <1>9, <2>3, <2>4 DEF AtRow, stores
  <2>. QED
    BY <1>1, <2>1, <2>2, <2>3, <2>5, <2>6, <2>7, <2>8, QuietStep DEF stores, Inv, Types
<1>10. CASE s.type = "update" /\ match_predicate(row, s)
  <2>1. Fetched(t, row) = write
    BY <1>5, <1>10 DEF Fetched
  <2>2. write \in Locals
    BY <1>1, <1>5 DEF Locals, Pcs, RowSteps
  <2>3. /\ write.pc = "write_back" /\ write.stmt = s /\ write.id = th[t].id
        /\ write.ref = th[t].ref /\ write.todo = th[t].todo /\ write.row = row
        /\ write.result = th[t].result /\ write.changed = th[t].changed
    BY <1>1 DEF Locals
  <2>. HIDE DEF write
  <2>4. th'[t] = write
    BY <1>1, <2>1 DEF Inv, Types
  <2>5. Program(t)'
    BY <1>1, <1>2, <1>10, <2>3, <2>4 DEF Program, InsertSteps, RowSteps
  <2>6. Changes(t)'
    BY <1>1, <1>2, <2>3, <2>4 DEF Changes, RowSteps
  <2>7. Locked(t)'
    BY <1>1, <1>2, <2>3, <2>4 DEF Locked, RowSteps, Has
  <2>8. AtRow(t)'
    BY <1>1, <1>2, <1>10, <2>3, <2>4 DEF AtRow, stores
  <2>. QED
    BY <1>1, <2>1, <2>2, <2>3, <2>5, <2>6, <2>7, <2>8, QuietStep DEF stores, Inv, Types
<1>. QED
  BY <1>3, <1>6, <1>7, <1>8, <1>9, <1>10 DEF Scans, Path, Scan

LEMMA CountInv ==
  ASSUME Inv, NEW t \in Threads, CountUp(t) \/ CountDown(t)
  PROVE  Inv'
<1>1. row_count' \in Int /\ created' \in BOOLEAN
  BY DEF CountUp, CountDown, Inv, Types
<1>2. CASE CountUp(t)
  <2>1. th[t].pc = "count_up" /\ th' = [th EXCEPT ![t] = Done(t)]
        /\ UNCHANGED <<heap, index, next_id, held, readers_pass>>
    BY <1>2 DEF CountUp, At, Set
  <2>. QED
    BY <1>1, <2>1, Ends, EndStep DEF Inv
<1>3. CASE CountDown(t)
  <2>1. th[t].pc = "count_down" /\ th' = [th EXCEPT ![t] = Onward(t)]
        /\ UNCHANGED <<heap, index, next_id, held, readers_pass>>
    BY <1>3 DEF CountDown, At, Set
  <2>. QED
    BY <1>1, <2>1, OnwardStep DEF RowSteps
<1>. QED
  BY <1>2, <1>3

-----------------------------------------------------------------------------
\* What a statement knows of itself and its locks, others do not touch.
LEMMA Others ==
  ASSUME Inv, NEW t \in Threads, NEW l \in Locals,
         th' = [th EXCEPT ![t] = l], held' = held
  PROVE  /\ th' \in [Threads -> Locals] /\ th'[t] = l /\ Exclusive'
         /\ \A u \in Threads \ {t} :
              th'[u] = th[u] /\ Program(u)' /\ Changes(u)' /\ Locked(u)'
<1>1. th' \in [Threads -> Locals] /\ th'[t] = l /\ \A u \in Threads \ {t} : th'[u] = th[u]
  BY DEF Inv, Types
<1>2. Exclusive'
  BY DEF Inv, Exclusive
<1>3. ASSUME NEW u \in Threads \ {t}
      PROVE  Program(u)' /\ Changes(u)' /\ Locked(u)'
  <2>1. Program(u) /\ Changes(u) /\ Locked(u) /\ th'[u] = th[u]
    BY <1>1 DEF Inv
  <2>. QED
    BY <2>1 DEF Program, Changes, Locked, Has
<1>. QED
  BY <1>1, <1>2, <1>3

\* Inv is kept by the steps that change the stores.
LEMMA DropInv ==
  ASSUME Inv, NEW t \in Threads, exec_drop_table(t)
  PROVE  Inv'
<1>. DEFINE e == IF created THEN Done(t) ELSE Failed(t)
            l == [e EXCEPT !.pc = "release"]
<1>1. th' = [th EXCEPT ![t] = l] /\ th[t].pc = "enter" /\ UNCHANGED <<held, readers_pass>>
  BY DEF exec_drop_table, EnterDdl, WaitsForDdl, At, Set
<1>2. e \in Locals /\ e.stmt = th[t].stmt /\ e.changed = th[t].changed
  BY Ends DEF Inv
<1>3. th[t].changed = FALSE
  BY <1>1 DEF Inv, Types, Locals, Changes, RowSteps
<1>. HIDE DEF e
<1>4. l \in Locals /\ l.pc = "release" /\ l.stmt = th[t].stmt /\ l.changed = FALSE
  BY <1>2, <1>3 DEF Locals, Pcs
<1>. HIDE DEF l
<1>5. CASE ~created
  <2>1. UNCHANGED stores
    BY <1>5 DEF exec_drop_table
  <2>. QED
    BY <1>1, <1>4, <2>1, EndStep DEF stores, Inv, Types
<1>6. CASE created
  <2>1. /\ heap' = [r \in Refs |-> NoRow] /\ index' = [k \in Ids |-> 0]
        /\ created' = FALSE /\ next_id' = 1 /\ row_count' = 0
    BY <1>6 DEF exec_drop_table
  <2>2. /\ th' \in [Threads -> Locals] /\ th'[t] = l /\ Exclusive'
        /\ \A u \in Threads \ {t} :
             th'[u] = th[u] /\ Program(u)' /\ Changes(u)' /\ Locked(u)'
    BY <1>1, <1>4, Others
  <2>3. \A u \in Threads : th'[u].pc \in {"idle", "lock", "enter", "release"}
    BY <1>4, <2>2 DEF exec_drop_table, EnterDdl, Inside
  <2>4. Types'
    <3>1. heap' \in [Refs -> Row \cup {NoRow}]
      BY <2>1
    <3>2. 0 \in 0..MaxId
      BY Statements
    <3>3. index' \in [Ids -> 0..MaxId]
      BY <2>1, <3>2
    <3>4. next_id' \in Nat \ {0} /\ row_count' \in Int
      BY <2>1
    <3>5. created' \in BOOLEAN
      BY <2>1, Zenon
    <3>6. /\ readers_pass' \in BOOLEAN
          /\ held' \in [Threads -> [Ids -> LM!Hold]] /\ th' \in [Threads -> Locals]
      BY <1>1, <2>2 DEF Inv, Types
    <3>. QED
      BY <3>1, <3>3, <3>4, <3>5, <3>6 DEF Types
  <2>5. OwnIds'
    BY <2>3 DEF OwnIds
  <2>6. /\ \A k \in Ids : index'[k] = 0 /\ k # 0
        /\ \A r \in Refs : r # 0 /\ heap'[r].id = 0
    <3>1. 0 \notin Ids /\ 0 \notin Refs
      BY Statements DEF Ids, Refs
    <3>2. NoRow.id = 0
      BY DEF NoRow
    <3>3. \A r \in Refs : heap'[r] = NoRow
      BY <2>1
    <3>4. \A r \in Refs : heap'[r].id = 0
      BY <3>2, <3>3
    <3>5. \A k \in Ids : index'[k] = 0
      BY <2>1
    <3>. QED
      BY <3>1, <3>4, <3>5
  <2>7. Agree' /\ Fresh'
    BY <2>6 DEF Agree, Fresh
  <2>8. Program(t)' /\ Changes(t)' /\ Locked(t)'
    BY <1>1, <1>4, <2>2 DEF Inv, Program, Changes, Locked, InsertSteps, RowSteps
  <2>9. \A u \in Threads : AtRow(u)'
    BY <2>3 DEF AtRow
  <2>. QED
    BY <2>2, <2>4, <2>5, <2>7, <2>8, <2>9 DEF Inv
<1>. QED
  BY <1>5, <1>6

\* Begin has left an id for every INSERT that will take one.
LEMMA IdLeft ==
  ASSUME Inv, Reserved, NEW t \in Threads, TakeId(t)
  PROVE  next_id \in Ids
<1>1. t \in Inserters
  BY DEF Inv, Program, Inserters, TakeId, At, InsertSteps
<1>2. IsFiniteSet(Inserters)
  BY Statements, FS_Subset DEF Inserters
<1>3. Cardinality(Inserters) \in Nat /\ Cardinality(Inserters) # 0
  BY <1>1, <1>2, FS_CardinalityType, FS_EmptySet
<1>. QED
  BY <1>3, Statements DEF Reserved, Inv, Types, Ids

LEMMA TakeIdInv ==
  ASSUME Inv, Reserved, NEW t \in Threads, TakeId(t)
  PROVE  Inv'
<1>. DEFINE l == [th[t] EXCEPT !.pc = "lock_own", !.id = next_id]
<1>1. /\ th[t] \in Locals /\ th[t].pc = "take_id" /\ th' = [th EXCEPT ![t] = l]
      /\ next_id' = next_id + 1
      /\ UNCHANGED <<created, heap, index, row_count, held, readers_pass>>
  BY DEF Inv, Types, TakeId, At, Set
<1>2. next_id \in Ids /\ next_id \in Nat
  BY IdLeft DEF Inv, Types
<1>3. l \in Locals /\ l.pc = "lock_own" /\ l.id = next_id /\ l.stmt = th[t].stmt
      /\ l.result = th[t].result /\ l.changed = th[t].changed
  BY <1>1, <1>2 DEF Locals, Pcs, InsertSteps
<1>. HIDE DEF l
<1>4. /\ th' \in [Threads -> Locals] /\ th'[t] = l /\ Exclusive'
      /\ \A u \in Threads \ {t} :
           th'[u] = th[u] /\ Program(u)' /\ Changes(u)' /\ Locked(u)'
  BY <1>1, <1>3, Others
<1>5. Types'
  BY <1>1, <1>2, <1>4 DEF Inv, Types
<1>6. \A k \in Ids : k \in Nat
  BY Statements DEF Ids
<1>7. OwnIds'
  <2>1. \A u \in Threads \ {t} :
          th[u].pc \in {"lock_own", "heap_insert", "bptree_insert"} => th[u].id < next_id
    BY DEF Inv, AtRow
  <2>2. \A u \in Threads : th[u].id \in Nat
    BY DEF Inv, Types, Locals
  <2>3. \A u \in Threads \ {t} :
          th'[u].pc \in {"lock_own", "heap_insert", "bptree_insert"} => th'[u].id # next_id
    BY <1>2, <1>4, <2>1, <2>2
  <2>. QED
    BY <1>3, <1>4, <2>3 DEF Inv, OwnIds
<1>8. Agree'
  BY <1>1, <1>3, <1>4 DEF Inv, Agree, Between
<1>9. Fresh'
  BY <1>1, <1>2, <1>6 DEF Inv, Fresh
<1>10. Program(t)' /\ Changes(t)' /\ Locked(t)'
  <2>1. Program(t) /\ Changes(t)
    BY DEF Inv
  <2>2. Program(t)'
    BY <1>1, <1>3, <1>4, <2>1 DEF Program, InsertSteps, RowSteps
  <2>3. Changes(t)'
    BY <1>1, <1>3, <1>4, <2>1 DEF Changes, RowSteps
  <2>4. Locked(t)'
    BY <1>3, <1>4 DEF Locked, RowSteps
  <2>. QED
    BY <2>2, <2>3, <2>4
<1>11. AtRow(t)'
  <2>1. index[next_id] = 0 /\ \A q \in Refs : heap[q].id # next_id
    BY <1>2 DEF Inv, Fresh
  <2>. QED
    BY <1>1, <1>2, <1>3, <1>4, <2>1 DEF AtRow
<1>12. ASSUME NEW u \in Threads \ {t} PROVE AtRow(u)'
  <2>1. AtRow(u) /\ th'[u] = th[u]
    BY <1>4 DEF Inv
  <2>2. \A k \in Ids : k < next_id => k < next_id + 1
    BY <1>2, <1>6
  <2>. QED
    BY <1>1, <2>1, <2>2 DEF AtRow
<1>. QED
  BY <1>4, <1>5, <1>7, <1>8, <1>9, <1>10, <1>11, <1>12 DEF Inv

LEMMA HeapInsertInv ==
  ASSUME Inv, NEW t \in Threads, heap_insert(t)
  PROVE  Inv'
<1>. DEFINE k == th[t].id
            row == [id |-> k, age |-> th[t].stmt.age]
<1>1. /\ th[t] \in Locals /\ th[t].pc = "heap_insert"
      /\ UNCHANGED <<created, index, next_id, row_count, held, readers_pass>>
  BY DEF Inv, Types, heap_insert, At
<1>2. PICK r \in Refs :
        /\ heap[r] = NoRow /\ heap' = [heap EXCEPT ![r] = row]
        /\ th' = [th EXCEPT ![t] =
             [th[t] EXCEPT !.pc = "bptree_insert", !.ref = r, !.changed = TRUE]]
  BY DEF heap_insert, Set
<1>. DEFINE l == [th[t] EXCEPT !.pc = "bptree_insert", !.ref = r, !.changed = TRUE]
<1>3. Program(t) /\ Changes(t) /\ Locked(t) /\ AtRow(t)
  BY DEF Inv
<1>4. /\ k \in Ids /\ k < next_id /\ index[k] = 0 /\ held[t][k] = "X"
      /\ \A q \in Refs : heap[q].id # k
  BY <1>1, <1>3 DEF AtRow, Locked
<1>5. row \in Row /\ row.id = k
  <2>1. th[t].stmt.age \in Ages
    BY <1>1, <1>3, Statements DEF Program
  <2>. QED
    BY <1>4, <2>1 DEF Row
<1>6. l \in Locals /\ l.pc = "bptree_insert" /\ l.id = k /\ l.ref = r
      /\ l.stmt = th[t].stmt /\ l.result = th[t].result /\ l.changed = TRUE
  <2>1. r \in 0..MaxId
    BY DEF Refs
  <2>2. l \in Locals
    BY <1>1, <2>1 DEF Locals, Pcs, InsertSteps
  <2>. QED
    BY <1>1, <2>2 DEF Locals
<1>. HIDE DEF l
<1>7. /\ th' \in [Threads -> Locals] /\ th'[t] = l /\ Exclusive'
      /\ \A u \in Threads \ {t} :
           th'[u] = th[u] /\ Program(u)' /\ Changes(u)' /\ Locked(u)'
  BY <1>1, <1>2, <1>6, Others DEF l
<1>8. /\ heap' \in [Refs -> Row \cup {NoRow}] /\ heap'[r] = row
      /\ \A q \in Refs \ {r} : heap'[q] = heap[q]
  BY <1>2, <1>5 DEF Inv, Types
<1>9. Types'
  BY <1>1, <1>7, <1>8 DEF Inv, Types
<1>10. heap[r].id = 0 /\ 0 \notin Ids /\ Ids \subseteq Nat
  BY <1>2, Statements DEF NoRow, Ids
<1>11. OwnIds'
  BY <1>1, <1>6, <1>7 DEF Inv, OwnIds
<1>12. Agree'
  <2>. SUFFICES ASSUME NEW i \in Ids
                PROVE  \/ \E u \in Threads : Between(u, i)'
                       \/ \A q \in Refs : heap'[q].id = i <=> index'[i] = q
    BY DEF Agree
  <2>1. CASE i = k
    BY <1>6, <1>7, <2>1 DEF Between
  <2>2. CASE i # k
    <3>1. \A q \in Refs : heap'[q].id = i <=> heap[q].id = i
      BY <1>5, <1>8, <1>10, <2>2
    <3>2. \A u \in Threads : Between(u, i) => Between(u, i)'
      BY <1>1, <1>7 DEF Between
    <3>. QED
      BY <1>1, <3>1, <3>2 DEF Inv, Agree
  <2>. QED
    BY <2>1, <2>2
<1>13. Fresh'
  <2>1. next_id \in Nat
    BY DEF Inv, Types
  <2>. QED
    BY <1>1, <1>4, <1>5, <1>8, <1>10, <2>1 DEF Inv, Fresh
<1>14. Program(t)' /\ Changes(t)' /\ Locked(t)' /\ AtRow(t)'
  <2>1. Program(t)'
    BY <1>1, <1>3, <1>6, <1>7 DEF Program, InsertSteps, RowSteps
  <2>2. Changes(t)'
    BY <1>1, <1>3, <1>6, <1>7 DEF Changes
  <2>3. Locked(t)'
    BY <1>1, <1>4, <1>6, <1>7 DEF Locked, RowSteps
  <2>4. AtRow(t)'
    BY <1>1, <1>4, <1>6, <1>7, <1>8 DEF AtRow
  <2>. QED
    BY <2>1, <2>2, <2>3, <2>4
<1>15. ASSUME NEW u \in Threads \ {t} PROVE AtRow(u)'
  <2>1. AtRow(u) /\ th'[u] = th[u]
    BY <1>7 DEF Inv
  <2>2. th[u].pc \in {"lock_own", "heap_insert", "bptree_insert"} => th[u].id # k
    BY <1>1 DEF Inv, OwnIds
  <2>3. th[u].pc = "bptree_delete" => th[u].id # k
    BY <1>4, <2>1, Statements DEF AtRow, Refs
  <2>4. th[u].pc \in {"bptree_insert", "fetch", "heap_delete", "write_back"} => th[u].ref # r
    BY <1>10, <2>1 DEF AtRow
  <2>. QED
    BY <1>1, <1>5, <1>8, <2>1, <2>2, <2>3, <2>4 DEF AtRow
<1>. QED
  BY <1>7, <1>9, <1>11, <1>12, <1>13, <1>14, <1>15 DEF Inv

LEMMA TreeInsertInv ==
  ASSUME Inv, NEW t \in Threads, bptree_insert(t)
  PROVE  Inv'
<1>. DEFINE k == th[t].id
            ref == th[t].ref
            l == [th[t] EXCEPT !.pc = "count_up"]
<1>1. /\ th[t] \in Locals /\ th[t].pc = "bptree_insert"
      /\ UNCHANGED <<created, heap, next_id, row_count, held, readers_pass>>
  BY DEF Inv, Types, bptree_insert, At
<1>2. Program(t) /\ Changes(t) /\ Locked(t) /\ AtRow(t)
  BY DEF Inv
<1>3. /\ k \in Ids /\ k < next_id /\ index[k] = 0 /\ held[t][k] = "X"
      /\ ref \in Refs /\ heap[ref].id = k /\ \A q \in Refs : heap[q].id = k => q = ref
  BY <1>1, <1>2 DEF AtRow, Locked
<1>4. index' = [index EXCEPT ![k] = ref] /\ th' = [th EXCEPT ![t] = l]
  BY <1>3 DEF bptree_insert, Goto, Set
<1>5. l \in Locals /\ l.pc = "count_up" /\ l.id = k /\ l.stmt = th[t].stmt
      /\ l.result = th[t].result /\ l.changed = th[t].changed
  BY <1>1 DEF Locals, Pcs, InsertSteps
<1>. HIDE DEF l
<1>6. /\ th' \in [Threads -> Locals] /\ th'[t] = l /\ Exclusive'
      /\ \A u \in Threads \ {t} :
           th'[u] = th[u] /\ Program(u)' /\ Changes(u)' /\ Locked(u)'
  BY <1>1, <1>4, <1>5, Others
<1>7. /\ index' \in [Ids -> 0..MaxId] /\ index'[k] = ref
      /\ \A i \in Ids \ {k} : index'[i] = index[i]
  <2>1. ref \in 0..MaxId
    BY <1>3 DEF Refs
  <2>. QED
    BY <1>3, <1>4, <2>1 DEF Inv, Types
<1>8. Types'
  BY <1>1, <1>6, <1>7 DEF Inv, Types
<1>9. OwnIds'
  BY <1>5, <1>6 DEF Inv, OwnIds
<1>10. Agree'
  <2>. SUFFICES ASSUME NEW i \in Ids
                PROVE  \/ \E u \in Threads : Between(u, i)'
                       \/ \A q \in Refs : heap'[q].id = i <=> index'[i] = q
    BY DEF Agree
  <2>1. CASE i = k
    BY <1>1, <1>3, <1>7, <2>1
  <2>2. CASE i # k
    <3>1. \A u \in Threads : Between(u, i) => Between(u, i)'
      BY <1>6, <2>2 DEF Between
    <3>. QED
      BY <1>1, <1>7, <2>2, <3>1 DEF Inv, Agree
  <2>. QED
    BY <2>1, <2>2
<1>11. Fresh'
  <2>1. next_id \in Nat /\ k \in Nat
    BY <1>3, Statements DEF Inv, Types, Ids
  <2>. QED
    BY <1>1, <1>3, <1>7, <2>1 DEF Inv, Fresh
<1>12. Program(t)' /\ Changes(t)' /\ Locked(t)' /\ AtRow(t)'
  <2>1. Program(t)'
    BY <1>1, <1>2, <1>5, <1>6 DEF Program, InsertSteps, RowSteps
  <2>2. Changes(t)'
    BY <1>1, <1>2, <1>5, <1>6 DEF Changes
  <2>3. Locked(t)'
    BY <1>1, <1>3, <1>5, <1>6 DEF Locked, RowSteps
  <2>4. AtRow(t)'
    BY <1>5, <1>6 DEF AtRow
  <2>. QED
    BY <2>1, <2>2, <2>3, <2>4
<1>13. ASSUME NEW u \in Threads \ {t} PROVE AtRow(u)'
  <2>1. AtRow(u) /\ th'[u] = th[u]
    BY <1>6 DEF Inv
  <2>2. th[u].pc \in {"lock_own", "heap_insert", "bptree_insert"} => th[u].id # k
    BY <1>1 DEF Inv, OwnIds
  <2>3. th[u].pc \in {"fetch", "heap_delete", "write_back", "bptree_delete"} => th[u].id # k
    BY <1>3, <2>1, Statements DEF AtRow, Refs
  <2>. QED
    BY <1>1, <1>7, <2>1, <2>2, <2>3 DEF AtRow
<1>. QED
  BY <1>6, <1>8, <1>9, <1>10, <1>11, <1>12, <1>13 DEF Inv

\* The row that t is about to delete or change is at its place, and no other
\* statement is at this row or at this place.
LEMMA RowsApart ==
  ASSUME Inv, NEW t \in Threads, th[t].pc \in {"heap_delete", "write_back"},
         NEW u \in Threads \ {t},
         th[u].pc \in {"bptree_insert", "fetch", "heap_delete", "write_back"}
  PROVE  th[u].id # th[t].id /\ th[u].ref # th[t].ref
<1>1. /\ Program(t) /\ Locked(t) /\ AtRow(t)
      /\ Program(u) /\ Locked(u) /\ AtRow(u)
  BY DEF Inv
<1>2. /\ th[t].id \in Ids /\ held[t][th[t].id] = "X" /\ th[t].ref \in Refs
      /\ index[th[t].id] = th[t].ref /\ heap[th[t].ref].id = th[t].id
  BY <1>1 DEF Program, Locked, AtRow, Has, RowSteps
<1>3. th[u].id \in Ids /\ held[u][th[u].id] # "none"
  BY <1>1 DEF Locked, AtRow, Has, RowSteps
<1>4. th[u].id # th[t].id
  BY <1>2, <1>3, Alone
<1>5. heap[th[u].ref].id = th[u].id
  BY <1>1 DEF AtRow
<1>. QED
  BY <1>2, <1>4, <1>5

LEMMA HeapDeleteInv ==
  ASSUME Inv, NEW t \in Threads, heap_delete(t)
  PROVE  Inv'
<1>. DEFINE k == th[t].id
            ref == th[t].ref
            l == [th[t] EXCEPT !.pc = "bptree_delete", !.changed = TRUE]
<1>1. /\ th[t] \in Locals /\ th[t].pc = "heap_delete"
      /\ heap' = [heap EXCEPT ![ref] = NoRow]
      /\ UNCHANGED <<created, index, next_id, row_count, held, readers_pass>>
  BY DEF Inv, Types, heap_delete, At
<1>2. Program(t) /\ Changes(t) /\ Locked(t) /\ AtRow(t)
  BY DEF Inv
<1>3. /\ k \in Ids /\ ref \in Refs /\ index[k] = ref /\ heap[ref].id = k
      /\ held[t][k] = "X"
  BY <1>1, <1>2 DEF AtRow, Locked, Program, Has, RowSteps
<1>4. NoRow.id = 0 /\ 0 \notin Ids /\ 0 \notin Refs /\ heap[ref] # NoRow
  BY <1>3, Statements DEF NoRow, Ids, Refs
<1>5. th' = [th EXCEPT ![t] = l]
  BY <1>4 DEF heap_delete, Set
<1>6. l \in Locals /\ l.pc = "bptree_delete" /\ l.id = k /\ l.ref = ref
      /\ l.stmt = th[t].stmt /\ l.result = th[t].result /\ l.todo = th[t].todo
  BY <1>1 DEF Locals, Pcs, RowSteps
<1>. HIDE DEF l
<1>7. /\ th' \in [Threads -> Locals] /\ th'[t] = l /\ Exclusive'
      /\ \A u \in Threads \ {t} :
           th'[u] = th[u] /\ Program(u)' /\ Changes(u)' /\ Locked(u)'
  BY <1>1, <1>5, <1>6, Others
<1>8. /\ heap' \in [Refs -> Row \cup {NoRow}] /\ heap'[ref].id = 0
      /\ \A q \in Refs \ {ref} : heap'[q] = heap[q]
  BY <1>1, <1>3, <1>4 DEF Inv, Types
<1>9. Types'
  BY <1>1, <1>7, <1>8 DEF Inv, Types
<1>10. OwnIds'
  BY <1>6, <1>7 DEF Inv, OwnIds
<1>11. \A i \in Ids \ {k}, q \in Refs : heap'[q].id = i <=> heap[q].id = i
  BY <1>3, <1>4, <1>8
<1>12. \A q \in Refs : heap'[q].id # k
  <2>1. \A q \in Refs : heap[q].id = k <=> index[k] = q
    BY <1>1, <1>3, Agreed DEF Between
  <2>. QED
    BY <1>3, <1>4, <1>8, <2>1
<1>13. Agree'
  <2>. SUFFICES ASSUME NEW i \in Ids
                PROVE  \/ \E u \in Threads : Between(u, i)'
                       \/ \A q \in Refs : heap'[q].id = i <=> index'[i] = q
    BY DEF Agree
  <2>1. CASE i = k
    BY <1>6, <1>7, <2>1 DEF Between
  <2>2. CASE i # k
    <3>1. \A u \in Threads : Between(u, i) => Between(u, i)'
      BY <1>1, <1>7 DEF Between
    <3>. QED
      BY <1>1, <1>11, <2>2, <3>1 DEF Inv, Agree
  <2>. QED
    BY <2>1, <2>2
<1>14. Fresh'
  BY <1>1, <1>11, <1>12 DEF Inv, Fresh
<1>15. Program(t)' /\ Changes(t)' /\ Locked(t)' /\ AtRow(t)'
  <2>1. Program(t)'
    BY <1>1, <1>2, <1>6, <1>7 DEF Program, InsertSteps, RowSteps
  <2>2. Changes(t)'
    BY <1>1, <1>2, <1>6, <1>7 DEF Changes
  <2>3. Locked(t)'
    BY <1>1, <1>2, <1>6, <1>7 DEF Locked, RowSteps, Has
  <2>4. AtRow(t)'
    BY <1>1, <1>3, <1>6, <1>7, <1>12 DEF AtRow
  <2>. QED
    BY <2>1, <2>2, <2>3, <2>4
<1>16. ASSUME NEW u \in Threads \ {t} PROVE AtRow(u)'
  <2>1. AtRow(u) /\ th'[u] = th[u]
    BY <1>7 DEF Inv
  <2>2. th[u].pc \in {"bptree_insert", "fetch", "heap_delete", "write_back"} =>
          th[u].id # k /\ th[u].ref # ref
    BY <1>1, RowsApart
  <2>3. \A i \in Ids, q \in Refs : heap'[q].id = i => heap[q].id = i
    BY <1>11, <1>12
  <2>. QED
    BY <1>1, <1>8, <2>1, <2>2, <2>3 DEF AtRow
<1>. QED
  BY <1>7, <1>9, <1>10, <1>13, <1>14, <1>15, <1>16 DEF Inv

LEMMA TreeDeleteInv ==
  ASSUME Inv, NEW t \in Threads, bptree_delete(t)
  PROVE  Inv'
<1>. DEFINE k == th[t].id
            l == [th[t] EXCEPT !.pc = "count_down"]
<1>1. /\ th[t] \in Locals /\ th[t].pc = "bptree_delete"
      /\ index' = [index EXCEPT ![k] = 0]
      /\ UNCHANGED <<created, heap, next_id, row_count, held, readers_pass>>
  BY DEF Inv, Types, bptree_delete, At
<1>2. Program(t) /\ Changes(t) /\ Locked(t) /\ AtRow(t)
  BY DEF Inv
<1>3. /\ k \in Ids /\ index[k] \in Refs /\ held[t][k] = "X"
      /\ \A q \in Refs : heap[q].id # k
  BY <1>1, <1>2 DEF AtRow, Locked, Program, Has, RowSteps
<1>4. 0 \notin Refs /\ 0 \in 0..MaxId
  BY Statements DEF Refs
<1>5. th' = [th EXCEPT ![t] = l]
  BY <1>3, <1>4 DEF bptree_delete, Set
<1>6. l \in Locals /\ l.pc = "count_down" /\ l.id = k /\ l.stmt = th[t].stmt
      /\ l.result = th[t].result /\ l.todo = th[t].todo /\ l.changed = th[t].changed
  BY <1>1 DEF Locals, Pcs, RowSteps
<1>. HIDE DEF l
<1>7. /\ th' \in [Threads -> Locals] /\ th'[t] = l /\ Exclusive'
      /\ \A u \in Threads \ {t} :
           th'[u] = th[u] /\ Program(u)' /\ Changes(u)' /\ Locked(u)'
  BY <1>1, <1>5, <1>6, Others
<1>8. /\ index' \in [Ids -> 0..MaxId] /\ index'[k] = 0
      /\ \A i \in Ids \ {k} : index'[i] = index[i]
  BY <1>1, <1>3, <1>4 DEF Inv, Types
<1>9. Types'
  BY <1>1, <1>7, <1>8 DEF Inv, Types
<1>10. OwnIds'
  BY <1>6, <1>7 DEF Inv, OwnIds
<1>11. Agree'
  <2>. SUFFICES ASSUME NEW i \in Ids
                PROVE  \/ \E u \in Threads : Between(u, i)'
                       \/ \A q \in Refs : heap'[q].id = i <=> index'[i] = q
    BY DEF Agree
  <2>1. CASE i = k
    BY <1>1, <1>3, <1>4, <1>8, <2>1
  <2>2. CASE i # k
    <3>1. \A u \in Threads : Between(u, i) => Between(u, i)'
      BY <1>7, <2>2 DEF Between
    <3>. QED
      BY <1>1, <1>8, <2>2, <3>1 DEF Inv, Agree
  <2>. QED
    BY <2>1, <2>2
<1>12. Fresh'
  BY <1>1, <1>8 DEF Inv, Fresh
<1>13. Program(t)' /\ Changes(t)' /\ Locked(t)' /\ AtRow(t)'
  <2>1. Program(t)'
    BY <1>1, <1>2, <1>6, <1>7 DEF Program, InsertSteps, RowSteps
  <2>2. Changes(t)'
    BY <1>1, <1>2, <1>6, <1>7 DEF Changes
  <2>3. Locked(t)'
    BY <1>1, <1>2, <1>6, <1>7 DEF Locked, RowSteps, Has
  <2>4. AtRow(t)'
    BY <1>6, <1>7 DEF AtRow
  <2>. QED
    BY <2>1, <2>2, <2>3, <2>4
<1>14. ASSUME NEW u \in Threads \ {t} PROVE AtRow(u)'
  <2>1. AtRow(u) /\ th'[u] = th[u] /\ Program(u) /\ Locked(u)
    BY <1>7 DEF Inv
  <2>2. th[u].pc \in {"fetch", "heap_delete", "write_back", "bptree_delete"} => th[u].id # k
    BY <1>3, <2>1, Alone DEF AtRow, Locked, Has, RowSteps
  <2>. QED
    BY <1>1, <1>8, <2>1, <2>2 DEF AtRow
<1>. QED
  BY <1>7, <1>9, <1>10, <1>11, <1>12, <1>13, <1>14 DEF Inv

LEMMA WriteBackInv ==
  ASSUME Inv, NEW t \in Threads, WriteBack(t)
  PROVE  Inv'
<1>. DEFINE k == th[t].id
            ref == th[t].ref
            row == [th[t].row EXCEPT !.age = th[t].stmt.age]
            o == Onward(t)
            l == [o EXCEPT !.changed = TRUE]
<1>1. /\ th[t] \in Locals /\ th[t].pc = "write_back" /\ th' = [th EXCEPT ![t] = l]
      /\ heap' = [heap EXCEPT ![ref] = IF heap[ref] = NoRow THEN NoRow ELSE row]
      /\ UNCHANGED <<created, index, next_id, row_count, held, readers_pass>>
  BY DEF Inv, Types, WriteBack, At, Set
<1>2. Program(t) /\ Changes(t) /\ Locked(t) /\ AtRow(t)
  BY DEF Inv
<1>3. /\ k \in Ids /\ ref \in Refs /\ index[k] = ref /\ heap[ref].id = k
      /\ heap[ref] = th[t].row
  BY <1>1, <1>2 DEF AtRow
<1>4. heap[ref] # NoRow /\ th[t].row \in Row
  BY <1>3, Statements DEF Inv, Types, NoRow, Ids
<1>5. row \in Row /\ row.id = k
  <2>1. th[t].stmt.age \in Ages
    BY <1>1, <1>2, Statements DEF Program
  <2>. QED
    BY <1>3, <1>4, <2>1 DEF Row
<1>6. /\ o \in Locals /\ o.stmt = th[t].stmt
      /\ \/ o.pc = "leave" /\ o.result = "ok"
         \/ /\ o.pc = "search" /\ o.result = th[t].result /\ Scan(th[t].stmt)
            /\ o.id \in th[t].todo /\ o.todo \subseteq th[t].todo
  BY Onwards
<1>. HIDE DEF o, row
<1>7. /\ l \in Locals /\ l.stmt = th[t].stmt /\ l.changed = TRUE
      /\ \/ l.pc = "leave" /\ l.result = "ok"
         \/ /\ l.pc = "search" /\ l.result = th[t].result /\ Scan(th[t].stmt)
            /\ l.id \in th[t].todo /\ l.todo \subseteq th[t].todo
  BY <1>6 DEF Locals
<1>. HIDE DEF l
<1>8. /\ th' \in [Threads -> Locals] /\ th'[t] = l /\ Exclusive'
      /\ \A u \in Threads \ {t} :
           th'[u] = th[u] /\ Program(u)' /\ Changes(u)' /\ Locked(u)'
  BY <1>1, <1>7, Others
<1>9. /\ heap' \in [Refs -> Row \cup {NoRow}] /\ heap'[ref] = row
      /\ \A q \in Refs \ {ref} : heap'[q] = heap[q]
  BY <1>1, <1>3, <1>4, <1>5 DEF Inv, Types
<1>10. \A q \in Refs : heap'[q].id = heap[q].id
  BY <1>3, <1>5, <1>9
<1>11. Types'
  BY <1>1, <1>8, <1>9 DEF Inv, Types
<1>12. OwnIds'
  BY <1>7, <1>8 DEF Inv, OwnIds
<1>13. Agree'
  <2>1. \A u \in Threads, i \in Ids : Between(u, i) => Between(u, i)'
    BY <1>1, <1>8 DEF Between
  <2>. QED
    BY <1>1, <1>10, <2>1 DEF Inv, Agree
<1>14. Fresh'
  BY <1>1, <1>10 DEF Inv, Fresh
<1>15. Program(t)' /\ Changes(t)' /\ Locked(t)' /\ AtRow(t)'
  <2>1. th[t].result = "ok"
    BY <1>1, <1>2 DEF Changes, Locals
  <2>2. Program(t)'
    BY <1>1, <1>2, <1>7, <1>8, Paths DEF Program, InsertSteps, RowSteps, Locals
  <2>3. Changes(t)'
    BY <1>7, <1>8, <2>1 DEF Changes, RowSteps
  <2>4. Locked(t)'
    <3>1. th'[t].pc \in {"leave", "search"} /\ held' = held /\ th'[t].stmt = th[t].stmt
      BY <1>1, <1>7, <1>8
    <3>2. CASE th'[t].pc = "leave"
      BY <3>2 DEF Locked, RowSteps
    <3>3. CASE th'[t].pc = "search"
      <4>1. \A i \in th[t].todo : held[t][i] = "X"
        BY <1>1, <1>2, <1>7, <1>8, <3>3 DEF Locked, RowSteps
      <4>. QED
        BY <1>7, <1>8, <3>1, <3>3, <4>1 DEF Locked, RowSteps, Has
    <3>. QED
      BY <3>1, <3>2, <3>3
  <2>5. AtRow(t)'
    BY <1>7, <1>8 DEF AtRow
  <2>. QED
    BY <2>2, <2>3, <2>4, <2>5
<1>16. ASSUME NEW u \in Threads \ {t} PROVE AtRow(u)'
  <2>1. AtRow(u) /\ th'[u] = th[u]
    BY <1>8 DEF Inv
  <2>2. th[u].pc \in {"bptree_insert", "fetch", "heap_delete", "write_back"} =>
          th[u].ref # ref
    BY <1>1, RowsApart
  <2>. QED
    BY <1>1, <1>9, <1>10, <2>1, <2>2 DEF AtRow
<1>. QED
  BY <1>8, <1>11, <1>12, <1>13, <1>14, <1>15, <1>16 DEF Inv

-----------------------------------------------------------------------------
\* Every id that is still to be taken is there for the taking.

\* The steps of t that are neither a beginning nor the way into the executor.
LEMMA Elsewhere ==
  ASSUME Inv, NEW t \in Threads,
         \/ RowLockFails(t) \/ LockOwn(t) \/ lock_collected_ids(t)
         \/ exec_create_table(t) \/ exec_drop_table(t) \/ LockFails(t) \/ Leave(t)
         \/ Release(t) \/ TakeId(t) \/ heap_insert(t) \/ bptree_insert(t) \/ CountUp(t)
         \/ ScanRow(t) \/ CollectFails(t) \/ bptree_search(t) \/ heap_fetch(t)
         \/ heap_delete(t) \/ bptree_delete(t) \/ CountDown(t) \/ WriteBack(t)
         \/ range_collect_cb(t) \/ ReadRow(t)
  PROVE  /\ \A u \in Threads \ {t} : th'[u] = th[u]
         /\ th'[t].pc \notin {"enter", "take_id"}
         /\ \/ bptree_insert(t) \/ bptree_delete(t)
            \/ th'[t].pc \notin {"count_up", "count_down"}
         /\ \/ CountUp(t) \/ CountDown(t)
            \/ th[t].pc \notin {"count_up", "count_down"}
         /\ RowLockFails(t) \/ Release(t) \/ th'[t].stmt = th[t].stmt
<1>0. th[t] \in Locals /\ Idle.pc = "idle" /\ th \in [Threads -> Locals]
  BY DEF Inv, Types, Idle
<1>1. /\ Done(t) \in Locals /\ Failed(t) \in Locals
      /\ Done(t).pc = "leave" /\ Failed(t).pc = "leave"
      /\ Done(t).stmt = th[t].stmt /\ Failed(t).stmt = th[t].stmt
  BY Ends DEF Inv
<1>2. Onward(t) \in Locals /\ Onward(t).pc \in {"leave", "search"}
      /\ Onward(t).stmt = th[t].stmt
  BY Onwards
<1>3. CASE RowLockFails(t)
  BY <1>0, <1>1, <1>2, <1>3 DEF RowLockFails, At, Set, Locals
<1>4. CASE Release(t)
  BY <1>0, <1>1, <1>2, <1>4 DEF Release, At, Set, Locals
<1>5. CASE LockOwn(t)
  BY <1>0, <1>1, <1>2, <1>5 DEF LockOwn, Goto, At, Set, Locals
<1>6. CASE Leave(t)
  BY <1>0, <1>1, <1>2, <1>6 DEF Leave, Goto, At, Set, Locals
<1>7. CASE TakeId(t)
  BY <1>0, <1>1, <1>2, <1>7 DEF TakeId, At, Set, Locals
<1>8. CASE heap_insert(t)
  <2>1. PICK r \in Refs : th' = [th EXCEPT ![t] =
          [th[t] EXCEPT !.pc = "bptree_insert", !.ref = r, !.changed = TRUE]]
    BY <1>8 DEF heap_insert, Set
  <2>2. th[t].pc = "heap_insert"
    BY <1>8 DEF heap_insert, At
  <2>. QED
    BY <1>0, <2>1, <2>2 DEF Locals
<1>9. CASE lock_collected_ids(t)
  BY <1>0, <1>1, <1>2, <1>9 DEF lock_collected_ids, At, Set, Locals
<1>10. CASE exec_create_table(t)
  BY <1>0, <1>1, <1>2, <1>10 DEF exec_create_table, EnterDdl, WaitsForDdl,
     At, Set, Locals
<1>11. CASE exec_drop_table(t)
  BY <1>0, <1>1, <1>2, <1>11 DEF exec_drop_table, EnterDdl, WaitsForDdl,
     At, Set, Locals
<1>12. CASE LockFails(t)
  BY <1>0, <1>1, <1>2, <1>12 DEF LockFails, At, Set, Locals
<1>13. CASE CollectFails(t)
  BY <1>0, <1>1, <1>2, <1>13 DEF CollectFails, At, Set, Locals
<1>14. CASE CountUp(t)
  BY <1>0, <1>1, <1>2, <1>14 DEF CountUp, At, Set, Locals
<1>15. CASE bptree_insert(t)
  BY <1>0, <1>1, <1>2, <1>15 DEF bptree_insert, Goto, At, Set, Locals
<1>16. CASE ScanRow(t)
  BY <1>0, <1>1, <1>2, <1>16 DEF ScanRow, Scanned, At, Set, Locals
<1>17. CASE bptree_search(t)
  BY <1>0, <1>1, <1>2, <1>17 DEF bptree_search, At, Set, Locals
<1>18. CASE heap_fetch(t)
  BY <1>0, <1>1, <1>2, <1>18 DEF heap_fetch, Fetched, At, Set, Locals
<1>19. CASE heap_delete(t)
  BY <1>0, <1>1, <1>2, <1>19 DEF heap_delete, At, Set, Locals
<1>20. CASE bptree_delete(t)
  BY <1>0, <1>1, <1>2, <1>20 DEF bptree_delete, At, Set, Locals
<1>21. CASE CountDown(t)
  BY <1>0, <1>1, <1>2, <1>21 DEF CountDown, At, Set, Locals
<1>22. CASE WriteBack(t)
  BY <1>0, <1>1, <1>2, <1>22 DEF WriteBack, At, Set, Locals
<1>23. CASE range_collect_cb(t)
  BY <1>0, <1>1, <1>2, <1>23 DEF range_collect_cb, At, Set, Locals
<1>24. CASE ReadRow(t)
  BY <1>0, <1>1, <1>2, <1>24 DEF ReadRow, At, Set, Locals
<1>. QED
  BY <1>3, <1>4, <1>5, <1>6, <1>7, <1>8, <1>9, <1>10, <1>11, <1>12, <1>13,
     <1>14, <1>15, <1>16, <1>17, <1>18, <1>19, <1>20, <1>21, <1>22, <1>23, <1>24

LEMMA ReservedStep ==
  ASSUME Inv, Reserved, Inv', Next
  PROVE  Reserved'
<1>0. /\ IsFiniteSet(Inserters) /\ IsFiniteSet(Inserters')
      /\ Cardinality(Inserters) \in Nat /\ Cardinality(Inserters') \in Nat
  BY Statements, FS_Subset, FS_CardinalityType DEF Inserters
<1>. next_id \in Nat /\ next_id' \in Nat /\ MaxId \in Nat
  BY Statements DEF Inv, Types
<1>1. ASSUME Inserters' \subseteq Inserters, next_id' <= next_id
      PROVE  Reserved'
  <2>1. Cardinality(Inserters') <= Cardinality(Inserters)
    BY <1>0, <1>1, FS_Subset
  <2>. QED
    BY <1>0, <1>1, <2>1 DEF Reserved
<1>2. ASSUME NEW t \in Threads, NEW s \in Workload[t], Begin(t, s)
      PROVE  Reserved'
  <2>. DEFINE where == IF determine_lock(s).low <= determine_lock(s).high
                       THEN "lock" ELSE "enter"
              l == [Idle EXCEPT !.pc = where, !.stmt = s]
  <2>1. th[t].pc = "idle" /\ th' = [th EXCEPT ![t] = l] /\ next_id' = next_id
    BY <1>2 DEF Begin, At, Set, stores
  <2>. HIDE DEF where
  <2>2. l.stmt = s
    BY DEF Idle
  <2>. HIDE DEF l
  <2>3. th'[t] = l /\ \A u \in Threads \ {t} : th'[u] = th[u]
    BY <2>1 DEF Inv, Types
  <2>4. t \notin Inserters
    BY <2>1 DEF Inserters
  <2>5. CASE s.type = "insert"
    <3>1. next_id + Cardinality(Inserters) <= MaxId
      BY <1>2, <2>5 DEF Begin, Inserters
    <3>2. Inserters' \subseteq Inserters \cup {t}
      BY <2>3 DEF Inserters
    <3>3. /\ IsFiniteSet(Inserters \cup {t})
          /\ Cardinality(Inserters \cup {t}) = Cardinality(Inserters) + 1
      BY <1>0, <2>4, FS_AddElement
    <3>4. Cardinality(Inserters') <= Cardinality(Inserters) + 1
      BY <3>2, <3>3, FS_Subset
    <3>. QED
      BY <1>0, <2>1, <3>1, <3>4 DEF Reserved
  <2>6. CASE s.type # "insert"
    <3>1. Inserters' \subseteq Inserters
      BY <2>2, <2>3, <2>6 DEF Inserters
    <3>. QED
      BY <1>1, <2>1, <3>1
  <2>. QED
    BY <2>5, <2>6
<1>3. ASSUME NEW t \in Threads, RowLock(t)
      PROVE  Reserved'
  <2>1. /\ th[t] \in Locals /\ th[t].pc = "lock" /\ next_id' = next_id
        /\ th' = [th EXCEPT ![t] = [th[t] EXCEPT !.pc = "enter"]]
    BY <1>3 DEF RowLock, Goto, At, Set, stores, Inv, Types
  <2>2. th'[t].stmt = th[t].stmt /\ \A u \in Threads \ {t} : th'[u] = th[u]
    BY <2>1 DEF Inv, Types, Locals
  <2>3. th[t].stmt.type # "insert"
    BY <2>1 DEF Inv, Program
  <2>4. Inserters' \subseteq Inserters
    BY <2>2, <2>3 DEF Inserters
  <2>. QED
    BY <1>1, <2>1, <2>4
<1>4. ASSUME NEW t \in Threads, Enter(t)
      PROVE  Reserved'
  <2>1. th[t] \in Locals /\ th[t].pc = "enter" /\ next_id' = next_id
    BY <1>4 DEF Enter, At, stores, Inv, Types
  <2>. DEFINE s == th[t].stmt
              x == [th[t] EXCEPT !.pc = First(s),
                                 !.id = IF First(s) = "search" THEN Unsigned(s.val) ELSE 0]
  <2>4. PICK l : th' = [th EXCEPT ![t] = l] /\ l.stmt = th[t].stmt
    <3>1. Done(t).stmt = th[t].stmt /\ Failed(t).stmt = th[t].stmt
      BY Ends DEF Inv
    <3>2. x.stmt = th[t].stmt
      BY <2>1 DEF Locals
    <3>3. \/ th' = [th EXCEPT ![t] = Failed(t)]
          \/ th' = [th EXCEPT ![t] = Done(t)]
          \/ th' = [th EXCEPT ![t] = x]
      BY <1>4 DEF Enter, Set
    <3>. HIDE DEF x
    <3>. QED
      BY <3>1, <3>2, <3>3
  <2>2. th'[t].stmt = th[t].stmt /\ \A u \in Threads \ {t} : th'[u] = th[u]
    BY <2>4 DEF Inv, Types
  <2>3. Inserters' \subseteq Inserters
    BY <2>1, <2>2 DEF Inserters
  <2>. QED
    BY <1>1, <2>1, <2>3
<1>5. ASSUME NEW t \in Threads, TakeId(t)
      PROVE  Reserved'
  <2>1. /\ \A u \in Threads \ {t} : th'[u] = th[u]
        /\ th'[t].pc \notin {"enter", "take_id"}
    BY <1>5, Elsewhere
  <2>2. th[t].pc = "take_id" /\ next_id' = next_id + 1
    BY <1>5 DEF TakeId, At
  <2>3. t \in Inserters
    BY <2>2 DEF Inserters, Inv, Program, InsertSteps
  <2>4. Inserters' \subseteq Inserters \ {t}
    BY <2>1 DEF Inserters
  <2>5. /\ IsFiniteSet(Inserters \ {t})
        /\ Cardinality(Inserters \ {t}) = Cardinality(Inserters) - 1
    BY <1>0, <2>3, FS_RemoveElement
  <2>6. Cardinality(Inserters') <= Cardinality(Inserters) - 1
    BY <2>4, <2>5, FS_Subset
  <2>. QED
    BY <1>0, <2>2, <2>6 DEF Reserved
<1>6. ASSUME NEW t \in Threads,
             \/ RowLockFails(t) \/ LockOwn(t) \/ lock_collected_ids(t)
             \/ exec_create_table(t) \/ exec_drop_table(t) \/ LockFails(t) \/ Leave(t)
             \/ Release(t) \/ heap_insert(t) \/ bptree_insert(t) \/ CountUp(t)
             \/ ScanRow(t) \/ CollectFails(t) \/ bptree_search(t) \/ heap_fetch(t)
             \/ heap_delete(t) \/ bptree_delete(t) \/ CountDown(t) \/ WriteBack(t)
             \/ range_collect_cb(t) \/ ReadRow(t)
      PROVE  Reserved'
  <2>1. /\ \A u \in Threads \ {t} : th'[u] = th[u]
        /\ th'[t].pc \notin {"enter", "take_id"}
    BY <1>6, Elsewhere
  <2>2. Inserters' \subseteq Inserters
    BY <2>1 DEF Inserters
  <2>3. CASE exec_drop_table(t)
    <3>1. next_id' \in {1, next_id}
      BY <2>3 DEF exec_drop_table, stores
    <3>2. next_id >= 1
      BY DEF Inv, Types
    <3>3. next_id' <= next_id
      BY <3>1, <3>2
    <3>. QED
      BY <1>1, <2>2, <3>3
  <2>4. CASE ~exec_drop_table(t)
    <3>1. next_id' = next_id
      BY <1>6, <2>4 DEF RowLockFails, LockOwn, lock_collected_ids, exec_create_table,
        LockFails, Leave, Release, heap_insert, bptree_insert, CountUp, ScanRow,
        CollectFails, bptree_search, heap_fetch, heap_delete, bptree_delete, CountDown,
        WriteBack, range_collect_cb, ReadRow, stores
    <3>. QED
      BY <1>1, <2>2, <3>1
  <2>. QED
    BY <2>3, <2>4
<1>. QED
  BY <1>2, <1>3, <1>4, <1>5, <1>6 DEF Next, Waiting, Running

-----------------------------------------------------------------------------
\* At the beginning nobody runs, and the rows are where the index says.
LEMMA InitInv ==
  ASSUME Init
  PROVE  Inv /\ Reserved
<1>1. PICK n \in 0..MaxId : InitRows \in [1..n -> Ages]
  BY EngineAssumption
<1>2. n \in Nat /\ n <= MaxId /\ MaxId \in Nat /\ InitRows \in Seq(Ages)
      /\ Len(InitRows) = n /\ DOMAIN InitRows = 1..n
  BY <1>1, Statements
<1>3. /\ created = TRUE /\ next_id = n + 1 /\ row_count = n /\ readers_pass \in BOOLEAN
      /\ heap = [r \in Refs |-> IF r \in 1..n THEN [id |-> r, age |-> InitRows[r]] ELSE NoRow]
      /\ index = [k \in Ids |-> IF k \in 1..n THEN k ELSE 0]
      /\ held = [t \in Threads |-> [k \in Ids |-> "none"]]
      /\ th = [t \in Threads |-> Idle]
  BY <1>2 DEF Init, LM!Init
<1>4. Idle \in Locals
  <2>1. NoRow \in Row \cup {NoRow} /\ << >> \in Seq(Refs) /\ 0 \in 0..MaxId
    BY Statements
  <2>2. NoStatement \in StatementType
    BY Statements DEF NoStatement, StatementType, NoLimit, Long
  <2>. QED
    BY <2>1, <2>2 DEF Idle, Locals, Pcs
<1>5. Idle.pc = "idle" /\ Idle.stmt = NoStatement /\ Idle.result = "ok"
      /\ Idle.changed = FALSE
  BY DEF Idle
<1>6. \A r \in Refs : r \in 1..n => [id |-> r, age |-> InitRows[r]] \in Row
  BY <1>1, <1>2 DEF Row, Ids, Refs
<1>7. heap \in [Refs -> Row \cup {NoRow}]
  BY <1>3, <1>6
<1>8. index \in [Ids -> 0..MaxId]
  BY <1>2, <1>3 DEF Ids
<1>9. Types
  <2>1. created \in BOOLEAN
    BY <1>3, Zenon
  <2>2. next_id \in Nat \ {0} /\ row_count \in Int /\ th \in [Threads -> Locals]
    BY <1>2, <1>3, <1>4
  <2>3. held \in [Threads -> [Ids -> LM!Hold]]
    BY <1>3 DEF LM!Hold
  <2>. QED
    BY <1>3, <1>7, <1>8, <2>1, <2>2, <2>3 DEF Types
<1>10. \A r \in Refs : heap[r].id = IF r \in 1..n THEN r ELSE 0
  BY <1>3 DEF NoRow
<1>11. \A t \in Threads : th[t] = Idle /\ \A k \in Ids : held[t][k] = "none"
  BY <1>3
<1>12. \A k \in Ids : k \in Nat \ {0} /\ index[k] = IF k \in 1..n THEN k ELSE 0
  BY <1>2, <1>3 DEF Ids
<1>13. Agree
  <2>1. \A r \in Refs : r \in Nat \ {0}
    BY <1>2 DEF Refs
  <2>. QED
    BY <1>2, <1>10, <1>12, <2>1 DEF Agree
<1>18. Fresh
  BY <1>2, <1>3, <1>10, <1>12 DEF Fresh
<1>14. Exclusive
  BY <1>11 DEF Exclusive, LM!Compatible
<1>15. OwnIds
  BY <1>5, <1>11 DEF OwnIds
<1>16. ASSUME NEW t \in Threads
       PROVE  Program(t) /\ Changes(t) /\ Locked(t) /\ AtRow(t)
  BY <1>5, <1>11 DEF Program, Changes, Locked, AtRow, InsertSteps, RowSteps
<1>17. Reserved
  <2>1. Inserters = {}
    BY <1>5, <1>11 DEF Inserters
  <2>2. Cardinality(Inserters) = 0
    BY <2>1, FS_EmptySet
  <2>. QED
    BY <1>2, <1>3, <2>2 DEF Reserved
<1>. QED
  BY <1>9, <1>13, <1>14, <1>15, <1>16, <1>17, <1>18 DEF Inv

\* Every step keeps what the proofs rest on.
LEMMA StepInv ==
  ASSUME Inv, Reserved, [Next]_vars
  PROVE  Inv' /\ Reserved'
<1>1. ASSUME NEW t \in Threads, NEW s \in Workload[t], Begin(t, s) PROVE Inv'
  BY <1>1, BeginInv
<1>2. ASSUME NEW t \in Threads, Waiting(t) PROVE Inv'
  BY <1>2, RowLockInv, EnterInv, LockOwnInv, LockCollectedInv, CreateInv, DropInv
     DEF Waiting
<1>3. ASSUME NEW t \in Threads, Running(t) PROVE Inv'
  BY <1>3, RowLockFailsInv, LockFailsInv, LeaveInv, ReleaseInv, TakeIdInv, HeapInsertInv,
     TreeInsertInv, CountInv, ScanRowInv, CollectFailsInv, SearchInv, FetchInv,
     HeapDeleteInv, TreeDeleteInv, WriteBackInv, RangeCollectInv, ReadRowInv
     DEF Running
<1>4. CASE Next
  <2>1. Inv'
    BY <1>1, <1>2, <1>3, <1>4 DEF Next
  <2>. QED
    BY <1>4, <2>1, ReservedStep
<1>5. CASE UNCHANGED vars
  <2>1. /\ UNCHANGED <<created, heap, index, next_id, row_count, held, th>>
        /\ UNCHANGED readers_pass
    BY <1>5 DEF vars, stores
  <2>2. Types' /\ Exclusive' /\ OwnIds' /\ Agree' /\ Fresh'
    BY <2>1 DEF Inv, Types, Exclusive, OwnIds, Agree, Between, Fresh
  <2>3. \A t \in Threads : Program(t)' /\ Changes(t)'
    BY <2>1 DEF Inv, Program, Changes
  <2>4. \A t \in Threads : Locked(t)' /\ AtRow(t)'
    BY <2>1, SMTT(30) DEF Inv, Locked, Has, AtRow
  <2>5. Inv'
    BY <2>2, <2>3, <2>4 DEF Inv
  <2>6. Reserved'
    BY <2>1 DEF Reserved, Inserters
  <2>. QED
    BY <2>5, <2>6
<1>. QED
  BY <1>4, <1>5

LEMMA Invariance == Spec => [](Inv /\ Reserved)
<1>1. Init => Inv /\ Reserved
  BY InitInv
<1>2. Inv /\ Reserved /\ [Next]_vars => (Inv /\ Reserved)'
  BY StepInv
<1>. QED
  BY <1>1, <1>2, PTL DEF Spec

-----------------------------------------------------------------------------
\* The variables have their types, and nobody holds a row lock outside of
\* db_execute (lock_release_all in db.c).
THEOREM TypeCorrect == Spec => []TypeOK
<1>1. ASSUME Inv, Reserved PROVE TypeOK
  <2>1. next_id \in 1..(MaxId + 1)
    <3>1. Cardinality(Inserters) \in Nat
      BY Statements, FS_Subset, FS_CardinalityType DEF Inserters
    <3>. QED
      BY <1>1, <3>1, Statements DEF Inv, Types, Reserved
  <2>2. ASSUME NEW t \in Threads
        PROVE  /\ th[t].stmt \in StatementType
               /\ th[t].row \in Row \cup {NoRow}
               /\ th[t].ids \subseteq Ids /\ th[t].todo \subseteq Ids
               /\ th[t].ref \in 0..MaxId /\ th[t].cur \in 0..MaxId
               /\ (\E k \in Ids : held[t][k] # "none") => th[t].pc \notin {"idle", "lock"}
    <3>1. th[t] \in Locals /\ Locked(t)
      BY <1>1 DEF Inv, Types
    <3>. QED
      BY <3>1 DEF Locals, Locked
  <2>. QED
    BY <1>1, <2>1, <2>2 DEF TypeOK, Inv, Types
<1>. QED
  BY <1>1, Invariance, PTL

\* Heap and index agree on every row that no statement has locked exclusively,
\* whatever order heap_insert, bptree_insert, heap_delete and bptree_delete of
\* several statements come in.
THEOREM HeapAndIndex == Spec => []Consistent
<1>1. ASSUME Inv PROVE Consistent
  <2>. SUFFICES ASSUME NEW k \in Ids, \A t \in Threads : held[t][k] # "X"
                PROVE  Places(k) = IF index[k] = 0 THEN {} ELSE {index[k]}
    BY DEF Consistent
  <2>1. ASSUME NEW t \in Threads PROVE ~Between(t, k)
    BY <1>1 DEF Inv, Between, Locked, Program, Has, RowSteps
  <2>2. \A r \in Refs : heap[r].id = k <=> index[k] = r
    BY <1>1, <2>1 DEF Inv, Agree
  <2>3. index[k] \in 0..MaxId /\ MaxId \in Nat
    BY <1>1, Statements DEF Inv, Types
  <2>4. Places(k) = {r \in Refs : index[k] = r}
    BY <2>2 DEF Places
  <2>5. CASE index[k] = 0
    BY <2>4, <2>5 DEF Refs
  <2>6. CASE index[k] # 0
    <3>1. index[k] \in Refs
      BY <2>3, <2>6 DEF Refs
    <3>. QED
      BY <2>4, <2>6, <3>1
  <2>. QED
    BY <2>5, <2>6
<1>. QED
  BY <1>1, Invariance, PTL

\* What a statement has read under its row lock is still there when it deletes
\* or writes it back (exec_index_delete, exec_update_scan): no update is lost,
\* and no place is overwritten that has another row by now.
THEOREM NoLostUpdate == Spec => []LockedRowStable
<1>1. ASSUME Inv PROVE LockedRowStable
  BY <1>1 DEF Inv, AtRow, LockedRowStable, At
<1>. QED
  BY <1>1, Invariance, PTL

\* A statement that answers with an error has changed nothing: every lock that
\* can fail is taken before the first change, and bptree_insert in exec_insert
\* never meets the id it brings.
THEOREM ErrorsChangeNothing == Spec => []FailedChangesNothing
<1>1. ASSUME Inv PROVE FailedChangesNothing
  BY <1>1 DEF Inv, Changes, FailedChangesNothing
<1>. QED
  BY <1>1, Invariance, PTL

-----------------------------------------------------------------------------
\* row_count and the statements that have yet to count what they changed.

InTree == {k \in Ids : index[k] # 0}
Up == {t \in Threads : At(t, "count_up")}
Down == {t \in Threads : At(t, "count_down")}

LEMMA CountsFinite ==
  /\ IsFiniteSet(InTree) /\ IsFiniteSet(Up) /\ IsFiniteSet(Down)
  /\ Cardinality(InTree) \in Nat /\ Cardinality(Up) \in Nat /\ Cardinality(Down) \in Nat
<1>1. IsFiniteSet(Ids)
  BY Statements, FS_Interval, 1 \in Int, MaxId \in Int DEF Ids
<1>2. IsFiniteSet(InTree) /\ IsFiniteSet(Up) /\ IsFiniteSet(Down)
  BY <1>1, Statements, FS_Subset DEF InTree, Up, Down
<1>. QED
  BY <1>2, FS_CardinalityType

LEMMA CountStep ==
  ASSUME Inv, CountExact, Inv', Next
  PROVE  CountExact'
<1>. USE DEF At
<1>0. /\ row_count \in Int
      /\ row_count = Cardinality(InTree) - Cardinality(Up) + Cardinality(Down)
  BY DEF Inv, Types, CountExact, InTree, Up, Down
<1>1. SUFFICES row_count' = Cardinality(InTree') - Cardinality(Up') + Cardinality(Down')
  BY DEF CountExact, InTree, Up, Down
<1>2. ASSUME InTree' = InTree, Up' = Up, Down' = Down, row_count' = row_count
      PROVE  row_count' = Cardinality(InTree') - Cardinality(Up') + Cardinality(Down')
  BY <1>0, <1>2
<1>3. ASSUME NEW t \in Threads,
             (\E s \in Workload[t] : Begin(t, s)) \/ RowLock(t) \/ Enter(t)
      PROVE  row_count' = Cardinality(InTree') - Cardinality(Up') + Cardinality(Down')
  <2>1. UNCHANGED stores /\ th[t].pc \in {"idle", "lock", "enter"}
    BY <1>3 DEF Begin, RowLock, Enter
  <2>2. /\ \A u \in Threads \ {t} : th'[u] = th[u]
        /\ th'[t].pc \notin {"count_up", "count_down"}
    <3>1. CASE \E s \in Workload[t] : Begin(t, s)
      BY <3>1 DEF Begin, Set, Inv, Types, Idle
    <3>2. CASE RowLock(t)
      BY <3>2 DEF RowLock, Goto, Set, Inv, Types, Locals
    <3>3. CASE Enter(t)
      <4>1. th[t] \in Locals /\ Done(t).pc = "leave" /\ Failed(t).pc = "leave"
        BY Ends DEF Inv, Types
      <4>2. th[t].stmt.type # "none" /\ th[t].stmt \in StatementType
        BY <4>1, <3>3, Statements DEF Enter, Inv, Program, Locals
      <4>3. ~is_ddl(th[t].stmt) /\ ~Trivial(th[t].stmt) =>
              First(th[t].stmt) \in {"take_id", "collect", "scan", "search"}
        BY <4>2, Firsts
      <4>. QED
        BY <3>3, <4>1, <4>3 DEF Enter, Set, Inv, Types, Locals
    <3>. QED
      BY <1>3, <3>1, <3>2, <3>3
  <2>. QED
    BY <1>2, <2>1, <2>2 DEF stores, InTree, Up, Down
<1>4. ASSUME NEW t \in Threads,
             \/ RowLockFails(t) \/ LockOwn(t) \/ lock_collected_ids(t)
             \/ exec_create_table(t) \/ LockFails(t) \/ Leave(t)
             \/ Release(t) \/ TakeId(t) \/ heap_insert(t)
             \/ ScanRow(t) \/ CollectFails(t) \/ bptree_search(t) \/ heap_fetch(t)
             \/ heap_delete(t) \/ WriteBack(t)
             \/ range_collect_cb(t) \/ ReadRow(t)
      PROVE  row_count' = Cardinality(InTree') - Cardinality(Up') + Cardinality(Down')
  <2>1. index' = index /\ row_count' = row_count
    BY <1>4 DEF RowLockFails, LockOwn, lock_collected_ids, exec_create_table, LockFails,
      Leave, Release, TakeId, heap_insert, ScanRow, CollectFails, bptree_search,
      heap_fetch, heap_delete, WriteBack, range_collect_cb, ReadRow, stores
  <2>2. /\ th[t].pc \notin {"bptree_insert", "bptree_delete", "count_up", "count_down"}
        /\ \A u \in Threads \ {t} : th'[u] = th[u]
        /\ th'[t].pc \notin {"count_up", "count_down"}
    BY <1>4, Elsewhere DEF bptree_insert, bptree_delete, CountUp, CountDown,
      RowLockFails, LockOwn, lock_collected_ids, exec_create_table, LockFails,
      Leave, Release, TakeId, heap_insert, ScanRow, CollectFails, bptree_search,
      heap_fetch, heap_delete, WriteBack, range_collect_cb, ReadRow, EnterDdl, WaitsForDdl
  <2>. QED
    BY <1>2, <2>1, <2>2 DEF InTree, Up, Down
<1>5. ASSUME NEW t \in Threads, exec_drop_table(t)
      PROVE  row_count' = Cardinality(InTree') - Cardinality(Up') + Cardinality(Down')
  <2>1. /\ \A u \in Threads \ {t} : th'[u] = th[u]
        /\ \A u \in Threads : ~Inside(u)
        /\ th'[t].pc \notin {"count_up", "count_down"}
    BY <1>5, Elsewhere DEF exec_drop_table, EnterDdl, bptree_insert, bptree_delete, WaitsForDdl
  <2>2. Up = {} /\ Down = {} /\ Up' = {} /\ Down' = {}
    BY <2>1 DEF Up, Down, Inside
  <2>3. CASE created
    <3>1. row_count' = 0 /\ InTree' = {}
      BY <1>5, <2>3 DEF exec_drop_table, InTree
    <3>. QED
      BY <2>2, <3>1, FS_EmptySet
  <2>4. CASE ~created
    <3>1. UNCHANGED stores
      BY <1>5, <2>4 DEF exec_drop_table
    <3>. QED
      BY <1>2, <2>2, <3>1 DEF stores, InTree
  <2>. QED
    BY <2>3, <2>4
<1>6. ASSUME NEW t \in Threads, bptree_insert(t)
      PROVE  row_count' = Cardinality(InTree') - Cardinality(Up') + Cardinality(Down')
  <2>1. /\ th[t] \in Locals /\ th[t].pc = "bptree_insert" /\ th[t].id \in Ids
        /\ index[th[t].id] = 0 /\ th[t].ref # 0
    <3>1. th[t] \in Locals /\ th[t].pc = "bptree_insert" /\ AtRow(t)
      BY <1>6 DEF bptree_insert, Inv, Types
    <3>2. 0 \notin Refs
      BY Statements DEF Refs
    <3>. QED
      BY <3>1, <3>2 DEF AtRow
  <2>2. /\ index' = [index EXCEPT ![th[t].id] = th[t].ref] /\ row_count' = row_count
        /\ th' = [th EXCEPT ![t] = [th[t] EXCEPT !.pc = "count_up"]]
    BY <1>6, <2>1 DEF bptree_insert, Goto, Set
  <2>3. th'[t].pc = "count_up" /\ \A u \in Threads \ {t} : th'[u] = th[u]
    BY <2>1, <2>2 DEF Inv, Types, Locals
  <2>4. InTree' = InTree \cup {th[t].id} /\ th[t].id \notin InTree
    BY <2>1, <2>2 DEF InTree, Inv, Types
  <2>5. Up' = Up \cup {t} /\ t \notin Up /\ Down' = Down
    BY <2>1, <2>3 DEF Up, Down
  <2>6. /\ Cardinality(InTree') = Cardinality(InTree) + 1
        /\ Cardinality(Up') = Cardinality(Up) + 1
    BY <2>4, <2>5, CountsFinite, FS_AddElement
  <2>. QED
    BY <1>0, <2>2, <2>5, <2>6, CountsFinite
<1>7. ASSUME NEW t \in Threads, bptree_delete(t)
      PROVE  row_count' = Cardinality(InTree') - Cardinality(Up') + Cardinality(Down')
  <2>1. /\ th[t] \in Locals /\ th[t].pc = "bptree_delete" /\ th[t].id \in Ids
        /\ index[th[t].id] # 0
    <3>1. th[t] \in Locals /\ th[t].pc = "bptree_delete" /\ AtRow(t)
      BY <1>7 DEF bptree_delete, Inv, Types
    <3>2. 0 \notin Refs
      BY Statements DEF Refs
    <3>. QED
      BY <3>1, <3>2 DEF AtRow
  <2>2. /\ index' = [index EXCEPT ![th[t].id] = 0] /\ row_count' = row_count
        /\ th' = [th EXCEPT ![t] = [th[t] EXCEPT !.pc = "count_down"]]
    BY <1>7, <2>1 DEF bptree_delete, Set
  <2>3. th'[t].pc = "count_down" /\ \A u \in Threads \ {t} : th'[u] = th[u]
    BY <2>1, <2>2 DEF Inv, Types, Locals
  <2>4. InTree' = InTree \ {th[t].id} /\ th[t].id \in InTree
    BY <2>1, <2>2 DEF InTree, Inv, Types
  <2>5. Down' = Down \cup {t} /\ t \notin Down /\ Up' = Up
    BY <2>1, <2>3 DEF Up, Down
  <2>6. /\ Cardinality(InTree') = Cardinality(InTree) - 1
        /\ Cardinality(Down') = Cardinality(Down) + 1
    BY <2>4, <2>5, CountsFinite, FS_AddElement, FS_RemoveElement
  <2>. QED
    BY <1>0, <2>2, <2>5, <2>6, CountsFinite
<1>8. ASSUME NEW t \in Threads, CountUp(t)
      PROVE  row_count' = Cardinality(InTree') - Cardinality(Up') + Cardinality(Down')
  <2>1. th[t].pc = "count_up" /\ row_count' = row_count + 1 /\ index' = index
    BY <1>8 DEF CountUp
  <2>2. /\ \A u \in Threads \ {t} : th'[u] = th[u]
        /\ th'[t].pc \notin {"count_up", "count_down"}
    BY <1>8, <2>1, Elsewhere DEF bptree_insert, bptree_delete
  <2>3. Up' = Up \ {t} /\ t \in Up /\ Down' = Down /\ InTree' = InTree
    BY <2>1, <2>2 DEF Up, Down, InTree
  <2>4. Cardinality(Up') = Cardinality(Up) - 1
    BY <2>3, CountsFinite, FS_RemoveElement
  <2>. QED
    BY <1>0, <2>1, <2>3, <2>4, CountsFinite
<1>9. ASSUME NEW t \in Threads, CountDown(t)
      PROVE  row_count' = Cardinality(InTree') - Cardinality(Up') + Cardinality(Down')
  <2>1. th[t].pc = "count_down" /\ row_count' = row_count - 1 /\ index' = index
    BY <1>9 DEF CountDown
  <2>2. /\ \A u \in Threads \ {t} : th'[u] = th[u]
        /\ th'[t].pc \notin {"count_up", "count_down"}
    BY <1>9, <2>1, Elsewhere DEF bptree_insert, bptree_delete
  <2>3. Down' = Down \ {t} /\ t \in Down /\ Up' = Up /\ InTree' = InTree
    BY <2>1, <2>2 DEF Up, Down, InTree
  <2>4. Cardinality(Down') = Cardinality(Down) - 1
    BY <2>3, CountsFinite, FS_RemoveElement
  <2>. QED
    BY <1>0, <2>1, <2>3, <2>4, CountsFinite
<1>. QED
  BY <1>3, <1>4, <1>5, <1>6, <1>7, <1>8, <1>9 DEF Next, Waiting, Running

\* The number that COUNT(*) answers with is the number of rows in the index,
\* but for the statements between bptree_insert or bptree_delete and the
\* counter, whatever the others do in between.
THEOREM RowCount == Spec => []CountExact
<1>1. ASSUME Init PROVE CountExact
  <2>1. PICK n \in 0..MaxId : InitRows \in [1..n -> Ages]
    BY EngineAssumption
  <2>2. n \in Nat /\ n <= MaxId /\ MaxId \in Nat
        /\ Len(InitRows) = n /\ DOMAIN InitRows = 1..n
    BY <2>1, Statements
  <2>3. row_count = n /\ index = [k \in Ids |-> IF k \in 1..n THEN k ELSE 0]
    BY <1>1, <2>2 DEF Init
  <2>4. InTree = 1..n
    BY <2>2, <2>3 DEF InTree, Ids
  <2>5. Cardinality(InTree) = n
    BY <2>2, <2>4, FS_Interval, 1 \in Int, n \in Int
  <2>6. Up = {} /\ Down = {}
    BY <1>1 DEF Init, Up, Down, At, Idle
  <2>7. Cardinality(Up) = 0 /\ Cardinality(Down) = 0
    BY <2>6, FS_EmptySet
  <2>8. row_count = Cardinality(InTree) - Cardinality(Up) + Cardinality(Down)
    BY <2>2, <2>3, <2>5, <2>7
  <2>. QED
    BY <2>8 DEF CountExact, InTree, Up, Down
<1>2. ASSUME CountExact, UNCHANGED vars PROVE CountExact'
  BY <1>2 DEF CountExact, vars, stores, At
<1>3. Inv /\ Inv' /\ CountExact /\ [Next]_vars => CountExact'
  BY <1>2, CountStep
<1>. QED
  BY <1>1, <1>3, Invariance, PTL DEF Spec

-----------------------------------------------------------------------------
\* The refinement of Table.

Now == {k \in Ids : There(k)}
AgeOf == [k \in Ids |-> IF There(k) THEN heap[index[k]].age ELSE 0]
Asked == [t \in Threads |-> th[t].stmt]

\* A statement and its WHERE mean the same in both specifications.
LEMMA SameStatements ==
  /\ T!StatementType = StatementType /\ T!NoStatement = NoStatement
  /\ \A row, s : T!match_predicate(row, s) = match_predicate(row, s)
<1>1. T!StatementType = StatementType /\ T!NoStatement = NoStatement
  BY DEF T!StatementType, StatementType, T!NoStatement, NoStatement, T!NoLimit, NoLimit,
         T!Long, Long
<1>2. \A row, s : T!match_predicate(row, s) = match_predicate(row, s)
  BY DEF T!match_predicate, match_predicate, T!CompareSigned, CompareSigned,
         T!Compare, Compare
<1>. QED
  BY <1>1, <1>2

\* A row that is found through the index, as Table has it.
LEMMA RowThere ==
  ASSUME Inv, NEW k \in Ids, There(k)
  PROVE  /\ index[k] \in Refs /\ heap[index[k]] = [id |-> k, age |-> AgeOf[k]]
         /\ k \in Now
<1>1. index[k] \in Refs
  BY Statements DEF Inv, Types, There, Refs
<1>2. heap[index[k]] \in Row \cup {NoRow} /\ heap[index[k]].id = k /\ 0 \notin Ids
  BY <1>1, Statements DEF Inv, Types, There, Ids
<1>3. heap[index[k]] \in Row
  BY <1>2 DEF NoRow
<1>4. AgeOf[k] = heap[index[k]].age
  BY DEF AgeOf
<1>. QED
  BY <1>1, <1>2, <1>3, <1>4 DEF Row, Now

\* What a step has to show so that Table sees nothing of it.
LEMMA Unseen ==
  ASSUME \A k \in Ids : There(k)' <=> There(k),
         \A k \in Ids : There(k) => heap'[index'[k]].age = heap[index[k]].age
  PROVE  Now' = Now /\ AgeOf' = AgeOf
BY DEF Now, AgeOf

LEMMA TreeInsertStep ==
  ASSUME Inv, Inv', NEW t \in Threads, bptree_insert(t), NEW k \in Ids, th[t].id = k
  PROVE  T!Insert(t, k)
<1>. DEFINE ref == th[t].ref
<1>1. /\ th[t] \in Locals /\ th[t].pc = "bptree_insert" /\ heap' = heap
      /\ Program(t) /\ AtRow(t) /\ index \in [Ids -> 0..MaxId]
  BY DEF Inv, Types, bptree_insert, At
<1>2. /\ k \in Ids /\ index[k] = 0 /\ ref \in Refs /\ ref # 0
      /\ heap[ref] = [id |-> k, age |-> th[t].stmt.age]
  <2>1. 0 \notin Refs
    BY Statements DEF Refs
  <2>. QED
    BY <1>1, <2>1 DEF AtRow
<1>3. /\ index' = [index EXCEPT ![k] = ref]
      /\ th' = [th EXCEPT ![t] = [th[t] EXCEPT !.pc = "count_up"]]
  BY <1>2 DEF bptree_insert, Goto, Set
<1>4. index'[k] = ref /\ \A i \in Ids \ {k} : index'[i] = index[i]
  BY <1>1, <1>2, <1>3
<1>5. ~There(k) /\ There(k)' /\ heap'[index'[k]].age = th[t].stmt.age
  BY <1>1, <1>2, <1>4 DEF There
<1>6. \A i \in Ids \ {k} : (There(i)' <=> There(i)) /\ heap'[index'[i]] = heap[index[i]]
  BY <1>1, <1>4 DEF There
<1>7. Now' = Now \cup {k}
  BY <1>2, <1>5, <1>6 DEF Now
<1>8. AgeOf' = [AgeOf EXCEPT ![k] = th[t].stmt.age]
  BY <1>2, <1>5, <1>6 DEF AgeOf
<1>9. Asked' = Asked
  BY <1>1, <1>3 DEF Asked, Inv, Types, Locals
<1>10. Asked[t].type = "insert" /\ Asked[t].age = th[t].stmt.age /\ k \notin Now
  BY <1>1, <1>5 DEF Program, InsertSteps, Asked, Now
<1>. QED
  BY <1>7, <1>8, <1>9, <1>10 DEF T!Insert, Now, AgeOf, Asked

LEMMA HeapDeleteStep ==
  ASSUME Inv, Inv', NEW t \in Threads, heap_delete(t), NEW k \in Ids, th[t].id = k
  PROVE  T!Delete(t, k)
<1>. DEFINE ref == th[t].ref
<1>1. /\ th[t] \in Locals /\ th[t].pc = "heap_delete" /\ index' = index
      /\ heap' = [heap EXCEPT ![ref] = NoRow] /\ heap \in [Refs -> Row \cup {NoRow}]
      /\ Program(t) /\ AtRow(t)
  BY DEF Inv, Types, heap_delete, At
<1>2. /\ k \in Ids /\ index[k] = ref /\ ref \in Refs /\ heap[ref].id = k
      /\ match_predicate(heap[ref], th[t].stmt)
  BY <1>1 DEF AtRow
<1>3. 0 \notin Ids /\ 0 \notin Refs /\ NoRow.id = 0
  BY Statements DEF Ids, Refs, NoRow
<1>4. heap'[ref] = NoRow /\ \A q \in Refs \ {ref} : heap'[q] = heap[q]
  BY <1>1, <1>2
<1>5. There(k) /\ ~There(k)'
  BY <1>1, <1>2, <1>3, <1>4 DEF There
<1>6. \A i \in Ids \ {k} : /\ There(i)' <=> There(i)
                           /\ There(i) => heap'[index'[i]] = heap[index[i]]
  <2>. SUFFICES ASSUME NEW i \in Ids \ {k}
                PROVE  /\ There(i)' <=> There(i)
                       /\ There(i) => heap'[index'[i]] = heap[index[i]]
    OBVIOUS
  <2>1. index[i] # 0 => index[i] \in Refs
    BY Statements DEF Inv, Types, Refs
  <2>. QED
    BY <1>1, <1>2, <1>3, <1>4, <2>1 DEF There
<1>7. Now' = Now \ {k}
  BY <1>2, <1>5, <1>6 DEF Now
<1>8. AgeOf' = [AgeOf EXCEPT ![k] = 0]
  BY <1>2, <1>5, <1>6 DEF AgeOf
<1>9. Asked' = Asked
  BY Elsewhere DEF Asked, RowLockFails, Release, At, heap_delete
<1>10. Asked[t].type = "delete" /\ Asked[t] = th[t].stmt
  BY <1>1 DEF Program, Asked
<1>11. k \in Now /\ heap[ref] = [id |-> k, age |-> AgeOf[k]]
  BY <1>2, <1>5, RowThere
<1>12. k \in Now /\ T!match_predicate([id |-> k, age |-> AgeOf[k]], Asked[t])
  BY <1>2, <1>10, <1>11, SameStatements
<1>13. T!Chosen(t, k)
  BY <1>12 DEF T!Chosen, Now, AgeOf, Asked
<1>. QED
  BY <1>7, <1>8, <1>9, <1>10, <1>13 DEF T!Delete, Now, AgeOf, Asked

LEMMA WriteBackStep ==
  ASSUME Inv, Inv', NEW t \in Threads, WriteBack(t), NEW k \in Ids, th[t].id = k
  PROVE  T!Update(t, k)
<1>. DEFINE ref == th[t].ref
            row == [th[t].row EXCEPT !.age = th[t].stmt.age]
<1>1. /\ th[t] \in Locals /\ th[t].pc = "write_back" /\ index' = index
      /\ heap' = [heap EXCEPT ![ref] = IF heap[ref] = NoRow THEN NoRow ELSE row]
      /\ heap \in [Refs -> Row \cup {NoRow}]
      /\ Program(t) /\ AtRow(t)
  BY DEF Inv, Types, WriteBack, At
<1>2. /\ k \in Ids /\ index[k] = ref /\ ref \in Refs /\ heap[ref].id = k
      /\ match_predicate(heap[ref], th[t].stmt) /\ heap[ref] = th[t].row
  BY <1>1 DEF AtRow
<1>3. 0 \notin Ids /\ 0 \notin Refs /\ NoRow.id = 0
  BY Statements DEF Ids, Refs, NoRow
<1>4. heap[ref] \in Row
  BY <1>1, <1>2, <1>3
<1>5. row.id = k /\ row.age = th[t].stmt.age
  BY <1>2, <1>4 DEF Row
<1>6. heap'[ref] = row /\ \A q \in Refs \ {ref} : heap'[q] = heap[q]
  BY <1>1, <1>2, <1>3
<1>. HIDE DEF row
<1>7. There(k) /\ There(k)' /\ heap'[index'[k]].age = th[t].stmt.age
  BY <1>1, <1>2, <1>3, <1>5, <1>6 DEF There
<1>8. \A i \in Ids \ {k} : /\ There(i)' <=> There(i)
                           /\ There(i) => heap'[index'[i]] = heap[index[i]]
  <2>. SUFFICES ASSUME NEW i \in Ids \ {k}
                PROVE  /\ There(i)' <=> There(i)
                       /\ There(i) => heap'[index'[i]] = heap[index[i]]
    OBVIOUS
  <2>1. index[i] # 0 => index[i] \in Refs
    BY Statements DEF Inv, Types, Refs
  <2>. QED
    BY <1>1, <1>2, <1>5, <1>6, <2>1 DEF There
<1>9. Now' = Now
  BY <1>2, <1>7, <1>8 DEF Now
<1>10. AgeOf' = [AgeOf EXCEPT ![k] = th[t].stmt.age]
  BY <1>2, <1>7, <1>8 DEF AgeOf
<1>11. Asked' = Asked
  BY Elsewhere DEF Asked, RowLockFails, Release, At, WriteBack
<1>12. Asked[t].type = "update" /\ Asked[t] = th[t].stmt
  BY <1>1 DEF Program, Asked
<1>13. k \in Now /\ heap[ref] = [id |-> k, age |-> AgeOf[k]]
  BY <1>2, <1>7, RowThere
<1>14. k \in Now /\ T!match_predicate([id |-> k, age |-> AgeOf[k]], Asked[t])
  BY <1>2, <1>12, <1>13, SameStatements
<1>15. T!Chosen(t, k)
  BY <1>14 DEF T!Chosen, Now, AgeOf, Asked
<1>. QED
  BY <1>9, <1>10, <1>11, <1>12, <1>15 DEF T!Update, Now, AgeOf, Asked

LEMMA DropStep ==
  ASSUME Inv, Inv', NEW t \in Threads, exec_drop_table(t)
  PROVE  T!Drop(t) \/ (UNCHANGED <<Now, AgeOf, Asked>>)
<1>1. Asked' = Asked
  BY Elsewhere DEF Asked, RowLockFails, Release, At, exec_drop_table, EnterDdl, WaitsForDdl
<1>2. CASE ~created
  <2>1. UNCHANGED stores
    BY <1>2 DEF exec_drop_table
  <2>. QED
    BY <1>1, <2>1 DEF stores, Now, AgeOf, There
<1>3. CASE created
  <2>1. index' = [k \in Ids |-> 0]
    BY <1>3 DEF exec_drop_table
  <2>2. Now' = {} /\ AgeOf' = [k \in Ids |-> 0]
    BY <2>1 DEF Now, AgeOf, There
  <2>3. Asked[t].type = "drop"
    BY DEF exec_drop_table, Asked
  <2>. QED
    BY <1>1, <2>2, <2>3 DEF T!Drop, Now, AgeOf, Asked
<1>. QED
  BY <1>2, <1>3

\* The steps that change the heap or the index where Table cannot see it.
LEMMA HeapInsertUnseen ==
  ASSUME Inv, Inv', NEW t \in Threads, heap_insert(t)
  PROVE  UNCHANGED <<Now, AgeOf, Asked>>
<1>. DEFINE k == th[t].id
            row == [id |-> k, age |-> th[t].stmt.age]
<1>1. PICK r \in Refs : heap[r] = NoRow /\ heap' = [heap EXCEPT ![r] = row]
  BY DEF heap_insert
<1>2. index' = index /\ heap \in [Refs -> Row \cup {NoRow}] /\ AtRow(t)
      /\ th[t].pc = "heap_insert"
  BY DEF heap_insert, At, Inv, Types
<1>3. k \in Ids /\ index[k] = 0
  BY <1>2 DEF AtRow
<1>4. heap'[r].id = k /\ heap[r].id = 0 /\ 0 \notin Ids
      /\ \A q \in Refs \ {r} : heap'[q] = heap[q]
  BY <1>1, <1>2, Statements DEF NoRow, Ids
<1>5. ASSUME NEW i \in Ids
      PROVE  /\ There(i)' <=> There(i)
             /\ There(i) => heap'[index'[i]].age = heap[index[i]].age
  <2>1. index[i] # 0 => index[i] \in Refs
    BY Statements DEF Inv, Types, Refs
  <2>. QED
    BY <1>2, <1>3, <1>4, <2>1 DEF There
<1>6. Now' = Now /\ AgeOf' = AgeOf
  BY <1>5, Unseen
<1>7. Asked' = Asked
  BY Elsewhere DEF Asked, RowLockFails, Release, At, heap_insert
<1>. QED
  BY <1>6, <1>7

LEMMA TreeDeleteUnseen ==
  ASSUME Inv, Inv', NEW t \in Threads, bptree_delete(t)
  PROVE  UNCHANGED <<Now, AgeOf, Asked>>
<1>. DEFINE k == th[t].id
<1>1. /\ index' = [index EXCEPT ![k] = 0] /\ heap' = heap /\ AtRow(t)
      /\ th[t].pc = "bptree_delete" /\ index \in [Ids -> 0..MaxId]
  BY DEF bptree_delete, At, Inv, Types
<1>2. k \in Ids /\ index[k] \in Refs /\ \A q \in Refs : heap[q].id # k
  BY <1>1 DEF AtRow
<1>3. index'[k] = 0 /\ \A i \in Ids \ {k} : index'[i] = index[i]
  BY <1>1, <1>2
<1>4. ASSUME NEW i \in Ids
      PROVE  /\ There(i)' <=> There(i)
             /\ There(i) => heap'[index'[i]].age = heap[index[i]].age
  BY <1>1, <1>2, <1>3 DEF There
<1>5. Now' = Now /\ AgeOf' = AgeOf
  BY <1>4, Unseen
<1>6. Asked' = Asked
  BY <1>1, Elsewhere DEF Asked, RowLockFails, Release, At
<1>. QED
  BY <1>5, <1>6

\* A statement begins or ends.
LEMMA TurnStep ==
  ASSUME Inv, Inv', NEW t \in Threads,
         (\E s \in Workload[t] : Begin(t, s)) \/ RowLockFails(t) \/ Release(t)
  PROVE  T!Turn(t)
<1>1. UNCHANGED stores
  BY DEF Begin, RowLockFails, Release
<1>2. Now' = Now /\ AgeOf' = AgeOf
  BY <1>1 DEF stores, Now, AgeOf, There
<1>3. \A u \in Threads \ {t} : th'[u] = th[u]
  BY DEF Begin, RowLockFails, Release, Set, Inv, Types
<1>4. th'[t].stmt \in StatementType
  BY DEF Inv, Types, Locals
<1>5. Asked'[t] \in T!StatementType
  BY <1>4, SameStatements DEF Asked
<1>6. Asked' = [Asked EXCEPT ![t] = Asked'[t]]
  BY <1>3 DEF Asked
<1>. QED
  BY <1>2, <1>5, <1>6 DEF T!Turn, Now, AgeOf, Asked

\* The rows found through the index change one at a time, by a statement of the
\* right kind and, for a DELETE or UPDATE, when they satisfy its WHERE: what
\* exec_delete_scan and exec_update_scan found out about a row before they had
\* its lock is tested again under the lock.
THEOREM Refinement == Spec => ImplementsTable
<1>1. ASSUME Init PROVE T!Init
  <2>1. Asked = [t \in Threads |-> NoStatement]
    BY <1>1 DEF Init, Asked, Idle
  <2>2. Now \subseteq Ids
    BY DEF Now
  <2>. QED
    BY <2>1, <2>2, SameStatements DEF T!Init, Now, Asked
<1>2. ASSUME Inv, Inv', Next PROVE T!Next \/ UNCHANGED <<Now, AgeOf, Asked>>
  <2>1. ASSUME NEW t \in Threads,
               (\E s \in Workload[t] : Begin(t, s)) \/ RowLockFails(t) \/ Release(t)
        PROVE  T!Next
    BY <1>2, <2>1, TurnStep DEF T!Next
  <2>2. ASSUME NEW t \in Threads, bptree_insert(t) \/ heap_delete(t) \/ WriteBack(t)
        PROVE  T!Next
    <3>1. PICK k \in Ids : th[t].id = k
      BY <1>2, <2>2 DEF Inv, AtRow, bptree_insert, heap_delete, WriteBack, At
    <3>2. T!Insert(t, k) \/ T!Delete(t, k) \/ T!Update(t, k)
      BY <1>2, <2>2, <3>1, TreeInsertStep, HeapDeleteStep, WriteBackStep
    <3>. QED
      BY <3>1, <3>2 DEF T!Next
  <2>3. ASSUME NEW t \in Threads, exec_drop_table(t)
        PROVE  T!Next \/ UNCHANGED <<Now, AgeOf, Asked>>
    BY <1>2, <2>3, DropStep DEF T!Next
  <2>4. ASSUME NEW t \in Threads, heap_insert(t) \/ bptree_delete(t)
        PROVE  UNCHANGED <<Now, AgeOf, Asked>>
    BY <1>2, <2>4, HeapInsertUnseen, TreeDeleteUnseen
  <2>5. ASSUME NEW t \in Threads, RowLock(t) \/ Enter(t)
        PROVE  UNCHANGED <<Now, AgeOf, Asked>>
    <3>1. UNCHANGED stores /\ th[t] \in Locals
      BY <1>2, <2>5 DEF RowLock, Enter, Inv, Types
    <3>2. Done(t).stmt = th[t].stmt /\ Failed(t).stmt = th[t].stmt
      BY <1>2, Ends DEF Inv
    <3>3. PICK l : th' = [th EXCEPT ![t] = l] /\ l.stmt = th[t].stmt
      <4>1. CASE RowLock(t)
        <5>1. th' = [th EXCEPT ![t] = [th[t] EXCEPT !.pc = "enter"]]
          BY <4>1 DEF RowLock, Goto, Set
        <5>2. [th[t] EXCEPT !.pc = "enter"].stmt = th[t].stmt
          BY <3>1 DEF Locals
        <5>. QED
          BY <5>1, <5>2
      <4>2. CASE Enter(t)
        <5>. DEFINE s == th[t].stmt
                    x == [th[t] EXCEPT !.pc = First(s),
                                       !.id = IF First(s) = "search" THEN Unsigned(s.val) ELSE 0]
        <5>1. x.stmt = th[t].stmt
          BY <3>1 DEF Locals
        <5>2. \/ th' = [th EXCEPT ![t] = Failed(t)]
              \/ th' = [th EXCEPT ![t] = Done(t)]
              \/ th' = [th EXCEPT ![t] = x]
          BY <4>2 DEF Enter, Set
        <5>. HIDE DEF x
        <5>. QED
          BY <5>1, <5>2, <3>2
      <4>. QED
        BY <2>5, <4>1, <4>2
    <3>4. th'[t].stmt = th[t].stmt /\ \A u \in Threads \ {t} : th'[u] = th[u]
      BY <1>2, <3>3 DEF Inv, Types
    <3>. QED
      BY <3>1, <3>4 DEF stores, Now, AgeOf, Asked, There
  <2>6. ASSUME NEW t \in Threads,
               \/ LockOwn(t) \/ lock_collected_ids(t) \/ exec_create_table(t)
               \/ LockFails(t) \/ Leave(t) \/ TakeId(t) \/ CountUp(t) \/ ScanRow(t)
               \/ CollectFails(t) \/ bptree_search(t) \/ heap_fetch(t) \/ CountDown(t)
               \/ range_collect_cb(t) \/ ReadRow(t)
        PROVE  UNCHANGED <<Now, AgeOf, Asked>>
    <3>1. heap' = heap /\ index' = index
      BY <2>6 DEF LockOwn, lock_collected_ids, exec_create_table, LockFails, Leave, TakeId,
        CountUp, ScanRow, CollectFails, bptree_search, heap_fetch, CountDown,
        range_collect_cb, ReadRow, stores
    <3>2. th[t].pc \notin {"lock", "release"}
      BY <2>6 DEF LockOwn, lock_collected_ids, exec_create_table, LockFails, Leave, TakeId,
        CountUp, ScanRow, CollectFails, bptree_search, heap_fetch, CountDown,
        range_collect_cb, ReadRow, EnterDdl, WaitsForDdl, At
    <3>3. th'[t].stmt = th[t].stmt /\ \A u \in Threads \ {t} : th'[u] = th[u]
      BY <1>2, <2>6, <3>2, Elsewhere DEF RowLockFails, Release, At
    <3>. QED
      BY <3>1, <3>3 DEF Now, AgeOf, Asked, There
  <2>. QED
    BY <1>2, <2>1, <2>2, <2>3, <2>4, <2>5, <2>6 DEF Next, Waiting, Running
<1>3. ASSUME Inv, Inv', [Next]_vars PROVE [T!Next]_T!vars
  <2>1. CASE Next
    BY <1>2, <1>3, <2>1 DEF T!vars, Now, AgeOf, Asked
  <2>2. CASE UNCHANGED vars
    BY <2>2 DEF vars, stores, T!vars, There
  <2>. QED
    BY <1>3, <2>1, <2>2
<1>. QED
  BY <1>1, <1>3, Invariance, PTL DEF Spec, ImplementsTable, T!Spec
=============================================================================
