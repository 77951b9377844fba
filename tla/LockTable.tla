----------------------------- MODULE LockTable -----------------------------
(***************************************************************************)
(* The row and range lock table of MiniDB (server/lock_table.c): point     *)
(* locks in hash buckets, range locks in a list, shared or exclusive, a    *)
(* single mutex with a condition variable, writer preference through       *)
(* waiting_writers, a 3 second deadline per call, and release of           *)
(* everything a thread holds when its statement ends.                      *)
(*                                                                         *)
(* Each stretch of code the mutex protects is one action: from the call to *)
(* the first pthread_cond_timedwait or the return, and from a wake-up to   *)
(* the next wait or the return.                                            *)
(***************************************************************************)
EXTENDS Integers, FiniteSets

CONSTANTS
  Threads,       \* the connection threads
  Keys,          \* the row ids that are locked
  Workload,      \* Workload[t]: the locks thread t may ask for
  TimeoutOn,     \* whether the 3 second deadline of a call can pass
  AllocBound     \* calloc can return NULL while waiting_writers < AllocBound

Mode == {"S", "X"}

\* A lock on the keys low..high; a point lock has low = high.
Lock == [isRange : BOOLEAN, low : Keys, high : Keys, mode : Mode]

ASSUME LockTableAssumption ==
  /\ IsFiniteSet(Threads)
  /\ Keys \subseteq Int
  /\ Workload \in [Threads -> SUBSET Lock]
  /\ \A t \in Threads : \A r \in Workload[t] :
       r.low <= r.high /\ (~r.isRange => r.low = r.high)
  /\ TimeoutOn \in BOOLEAN
  /\ AllocBound \in Nat

VARIABLES
  entries,          \* the lock entries, each with its owner
  waiting_writers,  \* the counter of the lock table
  status,           \* status[t]: outside a call, asleep in it, or woken up
  request,          \* request[t]: the lock of the call t is in
  registered        \* registered[t]: the local flag waiting_writer of the call

vars == <<entries, waiting_writers, status, request, registered>>

Entry == [owner : Threads, lock : Lock]
NoRequest == [isRange |-> FALSE, low |-> 0, high |-> 0, mode |-> "none"]

Overlap(a, b) == a.low <= b.high /\ b.low <= a.high
Incompatible(m, n) == m = "X" \/ n = "X"

Own(t) == {e \in entries : e.owner = t}

\* The point entry of t on the row of point request r, if it has one.
OwnPoint(t, r) ==
  {e \in Own(t) : ~r.isRange /\ ~e.lock.isRange /\ e.lock.low = r.low}

\* The entry t already has is enough: the call returns 0 and changes nothing.
Covered(t, r) ==
  \E e \in Own(t) :
    /\ e.lock.isRange = r.isRange
    /\ e.lock.low <= r.low /\ r.high <= e.lock.high
    /\ e.lock.mode = "X" \/ r.mode = "S"

\* Mutant: a point request does not look at the range locks, nor the reverse.
conflict_exists_OwnKind(t, r) ==
  \E e \in entries :
    /\ e.owner # t /\ e.lock.isRange = r.isRange
    /\ Overlap(e.lock, r) /\ Incompatible(e.lock.mode, r.mode)

conflict_exists(t, r) ==
  \E e \in entries :
    e.owner # t /\ Overlap(e.lock, r) /\ Incompatible(e.lock.mode, r.mode)

\* Mutant: range requests ignore the waiting writers.
reader_should_wait_Points(r) ==
  ~r.isRange /\ r.mode = "S" /\ waiting_writers > 0

reader_should_wait(r) == r.mode = "S" /\ waiting_writers > 0

Blocked(t, r) == conflict_exists(t, r) \/ reader_should_wait(r)

\* pthread_cond_broadcast: every sleeping thread will test its condition again.
Broadcast(st) ==
  [u \in Threads |-> IF st[u] = "sleeping" THEN "woken" ELSE st[u]]

waiting_writer_register(t, r) ==
  IF r.mode = "X" /\ ~registered[t]
  THEN /\ waiting_writers' = waiting_writers + 1
       /\ registered' = [registered EXCEPT ![t] = TRUE]
  ELSE UNCHANGED <<waiting_writers, registered>>

\* Mutants: the flag stays set; nobody is woken up; the counter goes down for
\* a call that never registered.
waiting_writer_unregister_KeepsFlag(t) ==
  /\ waiting_writers' = IF registered[t] THEN waiting_writers - 1
                         ELSE waiting_writers
  /\ status' = [status EXCEPT ![t] = "idle"]
  /\ UNCHANGED registered
waiting_writer_unregister_Silent(t) ==
  /\ waiting_writers' = IF registered[t] THEN waiting_writers - 1
                         ELSE waiting_writers
  /\ registered' = [registered EXCEPT ![t] = FALSE]
  /\ status' = [status EXCEPT ![t] = "idle"]
waiting_writer_unregister_Always(t) ==
  /\ waiting_writers' = IF waiting_writers > 0 THEN waiting_writers - 1 ELSE 0
  /\ registered' = [registered EXCEPT ![t] = FALSE]
  /\ status' = Broadcast([status EXCEPT ![t] = "idle"])

\* The call of t returns through waiting_writer_unregister.
waiting_writer_unregister(t) ==
  LET returned == [status EXCEPT ![t] = "idle"] IN
  IF registered[t]
  THEN /\ waiting_writers' =
            IF waiting_writers > 0 THEN waiting_writers - 1 ELSE 0
       /\ registered' = [registered EXCEPT ![t] = FALSE]
       /\ status' = Broadcast(returned)
  ELSE /\ status' = returned
       /\ UNCHANGED <<waiting_writers, registered>>

Sleep(t, r) ==
  /\ Blocked(t, r)
  /\ waiting_writer_register(t, r)
  /\ status' = [status EXCEPT ![t] = "sleeping"]
  /\ request' = [request EXCEPT ![t] = r]
  /\ UNCHANGED entries

\* A new entry, or the own shared point entry upgraded in place.
Grant(t, r) ==
  /\ ~Blocked(t, r)
  /\ entries' = (entries \ OwnPoint(t, r)) \cup {[owner |-> t, lock |-> r]}
  /\ waiting_writer_unregister(t)
  /\ request' = [request EXCEPT ![t] = NoRequest]

\* calloc fails: -1 at once, without waiting_writer_unregister.  The local
\* flag is gone with the call; the counter keeps what the call added to it.
\* AllocBound bounds the counter that this makes grow; 0 is no failure.
AllocFailure(t, r) ==
  /\ waiting_writers < AllocBound
  /\ ~Blocked(t, r)
  /\ OwnPoint(t, r) = {}
  /\ status' = [status EXCEPT ![t] = "idle"]
  /\ request' = [request EXCEPT ![t] = NoRequest]
  /\ registered' = [registered EXCEPT ![t] = FALSE]
  /\ UNCHANGED <<entries, waiting_writers>>

Attempt(t, r) == Sleep(t, r) \/ Grant(t, r) \/ AllocFailure(t, r)

\* Mutant: no early return for a thread that has the lock.
Call_Always(t) ==
  /\ status[t] = "idle"
  /\ \E r \in Workload[t] : Attempt(t, r)

\* lock_acquire and lock_acquire_range, up to the first wait or the return.
Call(t) ==
  /\ status[t] = "idle"
  /\ \E r \in Workload[t] : ~Covered(t, r) /\ Attempt(t, r)

\* The loop around pthread_cond_timedwait after a wake-up.
Retry(t) ==
  /\ status[t] = "woken"
  /\ Attempt(t, request[t])

\* A wake-up without a broadcast, which POSIX allows.
SpuriousWakeup(t) ==
  /\ status[t] = "sleeping"
  /\ status' = [status EXCEPT ![t] = "woken"]
  /\ UNCHANGED <<entries, waiting_writers, request, registered>>

\* Mutant: writers wait with pthread_cond_wait, without a deadline.
Timeout_Readers(t) ==
  /\ TimeoutOn
  /\ status[t] \in {"sleeping", "woken"} /\ ~registered[t]
  /\ waiting_writer_unregister(t)
  /\ request' = [request EXCEPT ![t] = NoRequest]
  /\ UNCHANGED entries

\* ETIMEDOUT: the call gives up without testing its condition again, even if
\* a broadcast arrived while it was taking the mutex back.
Timeout(t) ==
  /\ TimeoutOn
  /\ status[t] \in {"sleeping", "woken"}
  /\ waiting_writer_unregister(t)
  /\ request' = [request EXCEPT ![t] = NoRequest]
  /\ UNCHANGED entries

\* Mutant: the range entries are left behind.
lock_release_all_Points(t) ==
  /\ status[t] = "idle"
  /\ \E e \in Own(t) : ~e.lock.isRange
  /\ entries' = {e \in entries : e.owner # t \/ e.lock.isRange}
  /\ status' = Broadcast(status)
  /\ UNCHANGED <<waiting_writers, request, registered>>

\* Every entry of the thread's own list leaves the table, then the broadcast.
lock_release_all(t) ==
  /\ status[t] = "idle"
  /\ Own(t) # {}
  /\ entries' = entries \ Own(t)
  /\ status' = Broadcast(status)
  /\ UNCHANGED <<waiting_writers, request, registered>>

Init ==
  /\ entries = {}
  /\ waiting_writers = 0
  /\ status = [t \in Threads |-> "idle"]
  /\ request = [t \in Threads |-> NoRequest]
  /\ registered = [t \in Threads |-> FALSE]

Next ==
  \E t \in Threads :
    \/ Call(t)
    \/ Retry(t)
    \/ SpuriousWakeup(t)
    \/ Timeout(t)
    \/ lock_release_all(t)

Spec == Init /\ [][Next]_vars

\* A woken thread runs, the deadline passes if it can pass, and a statement
\* that is not waiting for a lock ends and calls lock_release_all.
Fairness ==
  \A t \in Threads :
    /\ WF_vars(Retry(t))
    /\ WF_vars(Timeout(t))
    /\ WF_vars(lock_release_all(t))

FairSpec == Spec /\ Fairness
-----------------------------------------------------------------------------

\* Every variable has its type, and a thread outside a call has no request.
TypeOK ==
  /\ entries \subseteq Entry
  /\ waiting_writers \in Nat
  /\ status \in [Threads -> {"idle", "sleeping", "woken"}]
  /\ request \in [Threads -> Lock \cup {NoRequest}]
  /\ registered \in [Threads -> BOOLEAN]
  /\ \A t \in Threads :
       /\ status[t] = "idle" => request[t] = NoRequest /\ ~registered[t]
       /\ status[t] # "idle" => request[t] \in Workload[t]

\* Two threads never hold overlapping locks of which one is exclusive, point
\* or range, in whatever order the calls, the wake-ups, the upgrades and the
\* timeouts came (conflict_exists and range_conflict_exists together).
NoConflict ==
  \A e, f \in entries :
    e.owner # f.owner /\ Overlap(e.lock, f.lock)
      => ~Incompatible(e.lock.mode, f.lock.mode)

\* A thread sleeps only as long as what it waits for is still missing: no
\* release, upgrade, timeout of a writer or grant leaves a thread asleep whose
\* condition has become true (the broadcasts of waiting_writer_unregister and
\* lock_release_all).
NoLostWakeup ==
  \A t \in Threads : status[t] = "sleeping" => Blocked(t, request[t])

\* A thread that is inside a call does not hold what it asks for: nothing that
\* happens while it waits gives it the lock behind its back (the early returns
\* of lock_acquire and lock_acquire_range).
WaitsForMore ==
  \A t \in Threads : status[t] # "idle" => ~Covered(t, request[t])

\* The counter never loses a waiting writer, whatever writers time out, are
\* granted or fail in between; the code's guard against a negative count has
\* nothing to hide.
WaitersNotUndercounted ==
  waiting_writers >= Cardinality({t \in Threads : registered[t]})

\* While some thread waits for an exclusive lock, no thread is given a shared
\* one, on whatever row (the writer preference of reader_should_wait).
WriterPreference ==
  [][(\E t \in Threads : registered[t])
       => \A e \in entries' \ entries : e.lock.mode = "X"]_vars

\* Every call returns: a deadlock between threads that wait for one another
\* ends with the deadline of one of them.
CallsReturn ==
  \A t \in Threads : status[t] # "idle" ~> status[t] = "idle"

-----------------------------------------------------------------------------
\* The lock manager that the table implements: a hold of a thread on a key is
\* the strongest entry it has there.
Holds(t, k, m) ==
  \E e \in Own(t) :
    e.lock.low <= k /\ k <= e.lock.high /\ e.lock.mode = m
HoldOf(t, k) ==
  IF Holds(t, k, "X") THEN "X" ELSE IF Holds(t, k, "S") THEN "S" ELSE "none"

Manager == INSTANCE LockManager WITH
  held <- [t \in Threads |-> [k \in Keys |-> HoldOf(t, k)]]

\* Waiting, waking up, timing out and the failure of calloc are invisible to
\* the callers; a grant and a release are the steps of the lock manager.
ImplementsLockManager == Manager!Spec
=============================================================================
