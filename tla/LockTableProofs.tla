-------------------------- MODULE LockTableProofs --------------------------
(***************************************************************************)
(* Proofs about LockTable for every set of threads, every set of row ids   *)
(* and every workload, with and without failures of calloc.                *)
(***************************************************************************)
EXTENDS LockTable, FiniteSetTheorems, TLAPS


\* In every state the next-state relation is one of these six steps: a call or
\* a retry of a request of the thread's workload, or one of the other actions.
StepOf(u) ==
  \/ \E r \in Workload[u] :
       /\ \/ status[u] = "idle" /\ ~Covered(u, r)
          \/ status[u] = "woken" /\ r = request[u]
       /\ Sleep(u, r) \/ Grant(u, r) \/ AllocFailure(u, r)
  \/ SpuriousWakeup(u)
  \/ Timeout(u)
  \/ lock_release_all(u)

\* A step of Next is a step of one thread, with its request in its workload.
LEMMA NextIsStep ==
  ASSUME TypeOK, Next
  PROVE  \E u \in Threads : StepOf(u)
<1>1. PICK u \in Threads : \/ Call(u) \/ Retry(u) \/ SpuriousWakeup(u)
                           \/ Timeout(u) \/ lock_release_all(u)
  BY DEF Next
<1>2. CASE Call(u)
  BY <1>2 DEF Call, Attempt, StepOf
<1>3. CASE Retry(u)
  <2>1. request[u] \in Workload[u] /\ status[u] = "woken"
    BY <1>3 DEF Retry, TypeOK
  <2>2. Sleep(u, request[u]) \/ Grant(u, request[u]) \/ AllocFailure(u, request[u])
    BY <1>3 DEF Retry, Attempt
  <2>. QED
    BY <2>1, <2>2 DEF StepOf
<1>. QED
  BY <1>1, <1>2, <1>3 DEF StepOf

\* A request of a workload is a lock whose keys are integers in order.
LEMMA WorkloadTyped ==
  ASSUME NEW t \in Threads, NEW r \in Workload[t]
  PROVE  /\ r \in Lock
         /\ r.low \in Int /\ r.high \in Int /\ r.low <= r.high
         /\ ~r.isRange => r.low = r.high
<1>1. r \in Lock
  BY LockTableAssumption
<1>2. r.low \in Keys /\ r.high \in Keys
  BY <1>1 DEF Lock
<1>3. r.low <= r.high /\ (~r.isRange => r.low = r.high)
  BY LockTableAssumption
<1>. QED
  BY <1>1, <1>2, <1>3, LockTableAssumption

\* Starting to wait keeps the types, and touches only the caller's flag.
LEMMA RegisterTyped ==
  ASSUME TypeOK, NEW t \in Threads, NEW r, waiting_writer_register(t, r)
  PROVE  /\ waiting_writers' \in Nat
         /\ registered' \in [Threads -> BOOLEAN]
         /\ \A u \in Threads \ {t} : registered'[u] = registered[u]
<1>1. waiting_writers' \in Nat
  BY SMT DEF TypeOK, waiting_writer_register
<1>2. /\ registered' \in [Threads -> BOOLEAN]
      /\ \A u \in Threads \ {t} : registered'[u] = registered[u]
  BY Zenon DEF TypeOK, waiting_writer_register
<1>. QED
  BY <1>1, <1>2

\* Returning from a call keeps the types, and the thread is outside again.
LEMMA UnregisterTyped ==
  ASSUME TypeOK, NEW t \in Threads, waiting_writer_unregister(t)
  PROVE  /\ waiting_writers' \in Nat
         /\ status' \in [Threads -> {"idle", "sleeping", "woken"}]
         /\ registered' \in [Threads -> BOOLEAN]
         /\ status'[t] = "idle" /\ ~registered'[t]
         /\ \A u \in Threads \ {t} :
              /\ status'[u] = "idle" <=> status[u] = "idle"
              /\ registered'[u] = registered[u]
<1>. DEFINE returned == [status EXCEPT ![t] = "idle"]
<1>1. /\ returned \in [Threads -> {"idle", "sleeping", "woken"}]
      /\ returned[t] = "idle"
      /\ \A u \in Threads \ {t} : returned[u] = status[u]
  BY DEF TypeOK
<1>2. /\ Broadcast(returned) \in [Threads -> {"idle", "sleeping", "woken"}]
      /\ Broadcast(returned)[t] = "idle"
      /\ \A u \in Threads \ {t} :
           Broadcast(returned)[u] = "idle" <=> status[u] = "idle"
  <2>. HIDE DEF returned
  <2>. QED
    BY <1>1 DEF Broadcast
<1>3. CASE registered[t]
  <2>1. /\ status' = Broadcast(returned)
        /\ registered' = [registered EXCEPT ![t] = FALSE]
        /\ waiting_writers' = IF waiting_writers > 0 THEN waiting_writers - 1 ELSE 0
    BY <1>3 DEF waiting_writer_unregister
  <2>2. /\ registered' \in [Threads -> BOOLEAN] /\ ~registered'[t]
        /\ \A u \in Threads \ {t} : registered'[u] = registered[u]
    BY <2>1, Zenon DEF TypeOK
  <2>3. waiting_writers' \in Nat
    BY <2>1, SMT DEF TypeOK
  <2>. QED
    BY <2>1, <2>2, <2>3, <1>2, Zenon
<1>4. CASE ~registered[t]
  <2>1. status' = returned /\ UNCHANGED <<waiting_writers, registered>>
    BY <1>4 DEF waiting_writer_unregister
  <2>. QED
    BY <1>4, <2>1, <1>1 DEF TypeOK
<1>. QED
  BY <1>3, <1>4

\* Every variable keeps its type in every reachable state of the lock table.
THEOREM TypeCorrect == Spec => []TypeOK
<1>1. Init => TypeOK
  BY DEF Init, TypeOK
<1>2. TypeOK /\ [Next]_vars => TypeOK'
  <2> SUFFICES ASSUME TypeOK, [Next]_vars
               PROVE  TypeOK'
    OBVIOUS
  <2>1. CASE Next
    <3>1. PICK u \in Threads : StepOf(u)
      BY <2>1, NextIsStep
    <3>2. ASSUME NEW r \in Workload[u], Sleep(u, r)
          PROVE  TypeOK'
      <4>. DEFINE asleep == [status EXCEPT ![u] = "sleeping"]
                  asked == [request EXCEPT ![u] = r]
      <4>1. status' = asleep /\ request' = asked /\ entries' = entries
        BY <3>2 DEF Sleep
      <4>2. waiting_writers' \in Nat /\ registered' \in [Threads -> BOOLEAN]
        BY <3>2, RegisterTyped DEF Sleep
      <4>3. \A v \in Threads \ {u} : registered'[v] = registered[v]
        BY <3>2, RegisterTyped DEF Sleep
      <4>4. request' \in [Threads -> Lock \cup {NoRequest}]
        BY <4>1, WorkloadTyped DEF TypeOK
      <4>5. status' \in [Threads -> {"idle", "sleeping", "woken"}]
        BY <4>1 DEF TypeOK
      <4>6. ASSUME NEW v \in Threads
            PROVE  /\ status'[v] = "idle" => request'[v] = NoRequest /\ ~registered'[v]
                   /\ status'[v] # "idle" => request'[v] \in Workload[v]
        <5>1. CASE v = u
          BY <5>1, <4>1 DEF TypeOK
        <5>2. CASE v # u
          BY <5>2, <4>1, <4>3, Zenon DEF TypeOK
        <5>. QED
          BY <5>1, <5>2
      <4>. QED
        BY <4>1, <4>2, <4>4, <4>5, <4>6, Zenon DEF TypeOK
    <3>3. ASSUME NEW r \in Workload[u], Grant(u, r)
          PROVE  TypeOK'
      <4>1. entries' \subseteq Entry
        BY <3>3, WorkloadTyped DEF Grant, TypeOK, Entry
      <4>. QED
        BY <3>3, <4>1, UnregisterTyped DEF Grant, TypeOK
    <3>4. ASSUME NEW r \in Workload[u], AllocFailure(u, r)
          PROVE  TypeOK'
      BY <3>4 DEF TypeOK, AllocFailure
    <3>5. CASE SpuriousWakeup(u)
      BY <3>5 DEF TypeOK, SpuriousWakeup
    <3>6. CASE Timeout(u)
      BY <3>6, UnregisterTyped DEF Timeout, TypeOK
    <3>7. CASE lock_release_all(u)
      BY <3>7 DEF TypeOK, lock_release_all, Broadcast
    <3>. QED
      BY <3>1, <3>2, <3>3, <3>4, <3>5, <3>6, <3>7 DEF StepOf
  <2>2. CASE UNCHANGED vars
    BY <2>2 DEF TypeOK, vars
  <2>. QED
    BY <2>1, <2>2
<1>. QED
  BY <1>1, <1>2, PTL DEF Spec

-----------------------------------------------------------------------------

\* The only step that adds an entry is a grant, and what it adds conflicts
\* with no entry of another thread.
LEMMA GrantedCompatible ==
  ASSUME TypeOK, NoConflict, NEW u \in Threads, NEW r \in Workload[u],
         Grant(u, r)
  PROVE  NoConflict'
<1>. DEFINE new == [owner |-> u, lock |-> r]
<1>1. entries' \subseteq entries \cup {new}
  BY DEF Grant
<1>2. \A f \in entries : f.owner # u /\ Overlap(f.lock, r)
                           => ~Incompatible(f.lock.mode, r.mode)
  BY DEF Grant, Blocked, conflict_exists
<1>3. \A f \in entries : f.owner # u /\ Overlap(r, f.lock)
                           => ~Incompatible(r.mode, f.lock.mode)
  BY <1>2 DEF Overlap, Incompatible
<1>4. new.owner = u /\ new.lock = r
  OBVIOUS
<1>5. SUFFICES ASSUME NEW e \in entries', NEW f \in entries',
                      e.owner # f.owner, Overlap(e.lock, f.lock)
               PROVE  ~Incompatible(e.lock.mode, f.lock.mode)
  BY DEF NoConflict
<1>. HIDE DEF new
<1>6. CASE e \in entries /\ f \in entries
  BY <1>5, <1>6 DEF NoConflict
<1>7. CASE e = new /\ f \in entries
  BY <1>3, <1>4, <1>5, <1>7
<1>8. CASE e \in entries /\ f = new
  BY <1>2, <1>4, <1>5, <1>8
<1>. QED
  BY <1>1, <1>5, <1>6, <1>7, <1>8

\* No two threads ever hold incompatible locks on a common row.
THEOREM LocksExclude == Spec => []NoConflict
<1>1. Init => NoConflict
  BY DEF Init, NoConflict
<1>2. TypeOK /\ NoConflict /\ [Next]_vars => NoConflict'
  <2> SUFFICES ASSUME TypeOK, NoConflict, [Next]_vars
               PROVE  NoConflict'
    OBVIOUS
  <2>1. ASSUME entries' \subseteq entries
        PROVE  NoConflict'
    BY <2>1 DEF NoConflict
  <2>2. CASE Next
    <3>1. PICK u \in Threads : StepOf(u)
      BY <2>2, NextIsStep
    <3>2. CASE \E r \in Workload[u] : Grant(u, r)
      BY <3>2, GrantedCompatible
    <3>3. CASE ~\E r \in Workload[u] : Grant(u, r)
      <4>1. entries' \subseteq entries
        BY <3>1, <3>3
        DEF StepOf, Sleep, AllocFailure, SpuriousWakeup, Timeout, lock_release_all
      <4>. QED
        BY <2>1, <4>1
    <3>. QED
      BY <3>2, <3>3
  <2>3. CASE UNCHANGED vars
    BY <2>1, <2>3 DEF vars
  <2>. QED
    BY <2>2, <2>3
<1>. QED
  BY <1>1, <1>2, TypeCorrect, PTL DEF Spec

-----------------------------------------------------------------------------

\* What a thread holds comes from its workload, and what it waits for is not
\* among it: the strengthening of TypeOK the next results rest on.
Inv ==
  /\ TypeOK
  /\ \A e \in entries : e.lock \in Workload[e.owner]
  /\ WaitsForMore

\* The other threads neither gain nor lose by a step of u.
LEMMA OthersKeepTheirs ==
  ASSUME TypeOK, NEW u \in Threads, StepOf(u), NEW t \in Threads \ {u}
  PROVE  /\ Own(t)' = Own(t) /\ request'[t] = request[t]
         /\ status'[t] = "idle" <=> status[t] = "idle"
<1>1. ASSUME NEW r \in Workload[u], Sleep(u, r)
      PROVE  /\ Own(t)' = Own(t) /\ request'[t] = request[t]
             /\ status'[t] = "idle" <=> status[t] = "idle"
  BY <1>1 DEF Sleep, Own, TypeOK
<1>2. ASSUME NEW r \in Workload[u], Grant(u, r)
      PROVE  /\ Own(t)' = Own(t) /\ request'[t] = request[t]
             /\ status'[t] = "idle" <=> status[t] = "idle"
  <2>1. Own(t)' = Own(t)
    BY <1>2 DEF Grant, Own, OwnPoint
  <2>2. request'[t] = request[t]
    BY <1>2 DEF Grant, TypeOK
  <2>3. status'[t] = "idle" <=> status[t] = "idle"
    BY <1>2, UnregisterTyped DEF Grant
  <2>. QED
    BY <2>1, <2>2, <2>3
<1>3. ASSUME NEW r \in Workload[u], AllocFailure(u, r)
      PROVE  /\ Own(t)' = Own(t) /\ request'[t] = request[t]
             /\ status'[t] = "idle" <=> status[t] = "idle"
  BY <1>3 DEF AllocFailure, Own, TypeOK
<1>4. ASSUME SpuriousWakeup(u)
      PROVE  /\ Own(t)' = Own(t) /\ request'[t] = request[t]
             /\ status'[t] = "idle" <=> status[t] = "idle"
  BY <1>4 DEF SpuriousWakeup, Own, TypeOK
<1>5. ASSUME Timeout(u)
      PROVE  /\ Own(t)' = Own(t) /\ request'[t] = request[t]
             /\ status'[t] = "idle" <=> status[t] = "idle"
  <2>1. status'[t] = "idle" <=> status[t] = "idle"
    BY <1>5, UnregisterTyped DEF Timeout
  <2>. QED
    BY <1>5, <2>1 DEF Timeout, Own, TypeOK
<1>6. ASSUME lock_release_all(u)
      PROVE  /\ Own(t)' = Own(t) /\ request'[t] = request[t]
             /\ status'[t] = "idle" <=> status[t] = "idle"
  BY <1>6 DEF lock_release_all, Own, TypeOK, Broadcast
<1>. QED
  BY <1>1, <1>2, <1>3, <1>4, <1>5, <1>6 DEF StepOf

\* The thread that takes a step is still short of what it waits for, if it is
\* still waiting.
LEMMA OwnWaitGoesOn ==
  ASSUME Inv, NEW u \in Threads, StepOf(u), status'[u] # "idle"
  PROVE  ~Covered(u, request[u])'
<1>1. ASSUME NEW r \in Workload[u], Sleep(u, r),
             \/ status[u] = "idle" /\ ~Covered(u, r)
             \/ status[u] = "woken" /\ r = request[u]
      PROVE  ~Covered(u, request[u])'
  <2>1. ~Covered(u, r)
    BY <1>1 DEF Inv, WaitsForMore
  <2>2. request'[u] = r /\ entries' = entries
    BY <1>1 DEF Sleep, Inv, TypeOK
  <2>. QED
    BY <2>1, <2>2 DEF Covered, Own
<1>2. ASSUME NEW r \in Workload[u], Grant(u, r)
      PROVE  FALSE
  BY <1>2, UnregisterTyped DEF Grant, Inv
<1>3. ASSUME NEW r \in Workload[u], AllocFailure(u, r)
      PROVE  FALSE
  BY <1>3 DEF AllocFailure, Inv, TypeOK
<1>4. ASSUME SpuriousWakeup(u)
      PROVE  ~Covered(u, request[u])'
  <2>1. ~Covered(u, request[u])
    BY <1>4 DEF SpuriousWakeup, Inv, WaitsForMore
  <2>. QED
    BY <1>4, <2>1 DEF SpuriousWakeup, Covered, Own
<1>5. ASSUME Timeout(u)
      PROVE  FALSE
  BY <1>5, UnregisterTyped DEF Timeout, Inv
<1>6. ASSUME lock_release_all(u)
      PROVE  FALSE
  BY <1>6 DEF lock_release_all, Inv, TypeOK, Broadcast
<1>. QED
  BY <1>1, <1>2, <1>3, <1>4, <1>5, <1>6 DEF StepOf

\* Inv holds in every reachable state.
THEOREM Invariance == Spec => []Inv
<1>1. Init => Inv
  BY DEF Init, Inv, TypeOK, WaitsForMore
<1>2. Inv /\ TypeOK' /\ [Next]_vars => Inv'
  <2> SUFFICES ASSUME Inv, TypeOK', [Next]_vars
               PROVE  Inv'
    OBVIOUS
  <2>1. CASE Next
    <3>1. PICK u \in Threads : StepOf(u)
      BY <2>1, NextIsStep DEF Inv
    <3>2. \A e \in entries' : e.lock \in Workload[e.owner]
      BY <3>1 DEF Inv, StepOf, Sleep, Grant, AllocFailure, SpuriousWakeup,
                  Timeout, lock_release_all
    <3>3. ASSUME NEW t \in Threads, status'[t] # "idle"
          PROVE  ~Covered(t, request[t])'
      <4>1. CASE t = u
        BY <3>1, <3>3, <4>1, OwnWaitGoesOn
      <4>2. CASE t # u
        <5>1. Own(t)' = Own(t) /\ request'[t] = request[t] /\ status[t] # "idle"
          BY <3>1, <3>3, <4>2, OthersKeepTheirs DEF Inv
        <5>2. ~Covered(t, request[t])
          BY <5>1 DEF Inv, WaitsForMore
        <5>. QED
          BY <5>1, <5>2 DEF Covered
      <4>. QED
        BY <4>1, <4>2
    <3>. QED
      BY <3>2, <3>3 DEF Inv, WaitsForMore
  <2>2. CASE UNCHANGED vars
    BY <2>2 DEF Inv, WaitsForMore, vars, Covered, Own
  <2>. QED
    BY <2>1, <2>2
<1>. QED
  BY <1>1, <1>2, TypeCorrect, PTL DEF Spec

\* A thread that waits does not hold what it asks for.
THEOREM WaitersLackTheirLock == Spec => []WaitsForMore
<1>1. Inv => WaitsForMore
  BY DEF Inv
<1>. QED
  BY <1>1, Invariance, PTL

-----------------------------------------------------------------------------

\* A broadcast leaves nobody asleep.
LEMMA BroadcastWakes ==
  ASSUME NEW st \in [Threads -> {"idle", "sleeping", "woken"}],
         NEW t \in Threads
  PROVE  Broadcast(st)[t] # "sleeping"
BY DEF Broadcast

\* A return either wakes everybody or leaves the other threads and the counter
\* as they are.
LEMMA UnregisterWakes ==
  ASSUME TypeOK, NEW u \in Threads, waiting_writer_unregister(u),
         NEW t \in Threads, status'[t] = "sleeping"
  PROVE  status[t] = "sleeping" /\ t # u /\ waiting_writers' = waiting_writers
<1>. DEFINE returned == [status EXCEPT ![u] = "idle"]
<1>1. returned \in [Threads -> {"idle", "sleeping", "woken"}]
  BY DEF TypeOK
<1>2. CASE registered[u]
  <2>1. status' = Broadcast(returned)
    BY <1>2 DEF waiting_writer_unregister
  <2>. HIDE DEF returned
  <2>. QED
    BY <1>1, <2>1, BroadcastWakes
<1>3. CASE ~registered[u]
  <2>1. status' = returned /\ waiting_writers' = waiting_writers
    BY <1>3 DEF waiting_writer_unregister
  <2>. QED
    BY <2>1 DEF TypeOK
<1>. QED
  BY <1>2, <1>3

\* A grant leaves blocked whom it does not wake: an upgraded entry is replaced
\* by one that stands in the way of at least as much.
LEMMA GrantKeepsBlocked ==
  ASSUME Inv, NEW u \in Threads, NEW r \in Workload[u], Grant(u, r),
         ~Covered(u, r), waiting_writers' = waiting_writers,
         NEW t \in Threads \ {u}, NEW q, Blocked(t, q)
  PROVE  Blocked(t, q)'
<1>1. CASE reader_should_wait(q)
  BY <1>1 DEF Blocked, reader_should_wait
<1>2. CASE conflict_exists(t, q)
  <2>1. PICK e \in entries : /\ e.owner # t /\ Overlap(e.lock, q)
                             /\ Incompatible(e.lock.mode, q.mode)
    BY <1>2 DEF conflict_exists
  <2>. DEFINE new == [owner |-> u, lock |-> r]
  <2>2. new \in entries' /\ new.owner = u /\ new.lock = r
    BY DEF Grant
  <2>3. CASE e \in entries'
    BY <2>1, <2>3 DEF Blocked, conflict_exists
  <2>4. CASE e \notin entries'
    <3>1. e \in OwnPoint(u, r)
      BY <2>4 DEF Grant
    <3>2. /\ e \in Own(u) /\ e.owner = u /\ ~r.isRange /\ ~e.lock.isRange
          /\ e.lock.low = r.low
      BY <3>1 DEF OwnPoint, Own
    <3>3. /\ r \in Lock /\ r.low = r.high
      BY <3>2, WorkloadTyped
    <3>4. e.lock \in Lock /\ e.lock.low = e.lock.high
      BY <3>2, WorkloadTyped DEF Inv
    <3>5. Overlap(r, q)
      BY <2>1, <3>2, <3>3, <3>4 DEF Overlap
    <3>6. e.lock.low <= r.low /\ r.high <= e.lock.high
      BY <3>2, <3>3, <3>4, WorkloadTyped
    <3>7. e.lock.isRange = r.isRange
      BY <3>2, <3>3, <3>4, Zenon DEF Lock
    <3>8. e.lock.mode = "S" /\ r.mode = "X"
      BY <3>2, <3>3, <3>4, <3>6, <3>7 DEF Covered, Lock, Mode
    <3>9. Incompatible(r.mode, q.mode)
      BY <3>8 DEF Incompatible
    <3>. HIDE DEF new
    <3>. QED
      BY <2>2, <3>5, <3>9 DEF Blocked, conflict_exists
  <2>. QED
    BY <2>3, <2>4
<1>. QED
  BY <1>1, <1>2 DEF Blocked

\* With the same entries and a counter that has not come down, a thread that
\* was blocked still is.
LEMMA StillBlocked ==
  ASSUME TypeOK, TypeOK', NEW t, NEW q, Blocked(t, q),
         entries' = entries, waiting_writers' >= waiting_writers
  PROVE  Blocked(t, q)'
BY DEF Blocked, conflict_exists, reader_should_wait, TypeOK

\* No thread is left asleep once what it waits for is there.
THEOREM WakeupsArrive == Spec => []NoLostWakeup
<1>1. Init => NoLostWakeup
  BY DEF Init, NoLostWakeup
<1>2. Inv /\ Inv' /\ NoLostWakeup /\ [Next]_vars => NoLostWakeup'
  <2> SUFFICES ASSUME Inv, Inv', NoLostWakeup, [Next]_vars,
                      NEW t \in Threads, status'[t] = "sleeping"
               PROVE  Blocked(t, request[t])'
    BY DEF NoLostWakeup
  <2>. USE DEF Inv
  <2>1. CASE Next
    <3>1. PICK u \in Threads : StepOf(u)
      BY <2>1, NextIsStep
    <3>2. ASSUME NEW r \in Workload[u], Sleep(u, r)
          PROVE  Blocked(t, request[t])'
      <4>1. waiting_writers' >= waiting_writers /\ entries' = entries
        BY <3>2 DEF Sleep, waiting_writer_register, TypeOK
      <4>2. CASE t = u
        <5>1. Blocked(u, r) /\ request'[u] = r
          BY <3>2 DEF Sleep, TypeOK
        <5>2. Blocked(u, r)'
          BY <4>1, <5>1, StillBlocked
        <5>. QED
          BY <4>2, <5>1, <5>2 DEF Blocked, conflict_exists, reader_should_wait
      <4>3. CASE t # u
        <5>1. status[t] = "sleeping" /\ request'[t] = request[t]
          BY <3>2, <4>3 DEF Sleep, TypeOK
        <5>2. Blocked(t, request[t])
          BY <5>1 DEF NoLostWakeup
        <5>. QED
          BY <5>1, <5>2, <4>1
             DEF Blocked, conflict_exists, reader_should_wait, TypeOK
      <4>. QED
        BY <4>2, <4>3
    <3>3. ASSUME NEW r \in Workload[u], Grant(u, r),
                 \/ status[u] = "idle" /\ ~Covered(u, r)
                 \/ status[u] = "woken" /\ r = request[u]
          PROVE  Blocked(t, request[t])'
      <4>1. ~Covered(u, r)
        BY <3>3 DEF WaitsForMore
      <4>2. status[t] = "sleeping" /\ t # u /\ waiting_writers' = waiting_writers
        BY <3>3, UnregisterWakes DEF Grant
      <4>3. Blocked(t, request[t]) /\ request'[t] = request[t]
        BY <3>3, <4>2 DEF NoLostWakeup, Grant, TypeOK
      <4>4. Blocked(t, request[t]) => (\A q : q = request[t] => Blocked(t, q)')
        BY <3>3, <4>1, <4>2, GrantKeepsBlocked
      <4>. QED
        BY <4>3, <4>4 DEF Blocked, conflict_exists, reader_should_wait
    <3>4. ASSUME waiting_writers' = waiting_writers, entries' = entries,
                 request'[t] = request[t], status[t] = "sleeping"
          PROVE  Blocked(t, request[t])'
      <4>1. Blocked(t, request[t])
        BY <3>4 DEF NoLostWakeup
      <4>. QED
        BY <3>4, <4>1 DEF Blocked, conflict_exists, reader_should_wait
    <3>5. ASSUME NEW r \in Workload[u], AllocFailure(u, r)
          PROVE  Blocked(t, request[t])'
      BY <3>4, <3>5 DEF AllocFailure, TypeOK
    <3>6. CASE SpuriousWakeup(u)
      BY <3>4, <3>6 DEF SpuriousWakeup, TypeOK
    <3>7. CASE Timeout(u)
      BY <3>4, <3>7, UnregisterWakes DEF Timeout, TypeOK
    <3>8. CASE lock_release_all(u)
      BY <3>8, BroadcastWakes DEF lock_release_all, TypeOK
    <3>. QED
      BY <3>1, <3>2, <3>3, <3>5, <3>6, <3>7, <3>8 DEF StepOf
  <2>2. CASE UNCHANGED vars
    BY <2>2 DEF vars, NoLostWakeup, Blocked, conflict_exists, reader_should_wait
  <2>. QED
    BY <2>1, <2>2
<1>. QED
  BY <1>1, <1>2, Invariance, PTL DEF Spec

-----------------------------------------------------------------------------

\* The threads that wait as writers.
Writers == {t \in Threads : registered[t]}

\* They are finitely many, so the counter can be compared with their number.
LEMMA WritersFinite == IsFiniteSet(Writers) /\ Cardinality(Writers) \in Nat
<1>1. Writers \subseteq Threads
  BY DEF Writers
<1>2. IsFiniteSet(Writers)
  BY <1>1, LockTableAssumption, FS_Subset
<1>. QED
  BY <1>2, FS_CardinalityType

\* Starting to wait adds at most the caller, and counts it.
LEMMA RegisterCounts ==
  ASSUME TypeOK, NEW t \in Threads, NEW r, waiting_writer_register(t, r),
         WaitersNotUndercounted
  PROVE  WaitersNotUndercounted'
<1>1. CASE r.mode = "X" /\ ~registered[t]
  <2>1. waiting_writers' = waiting_writers + 1
        /\ registered' = [registered EXCEPT ![t] = TRUE]
    BY <1>1 DEF waiting_writer_register
  <2>2. Writers' = Writers \cup {t}
    BY <2>1 DEF Writers, TypeOK
  <2>3. Cardinality(Writers \cup {t}) <= Cardinality(Writers) + 1
    BY WritersFinite, FS_AddElement
  <2>4. Cardinality(Writers \cup {t}) \in Nat
    BY WritersFinite, FS_AddElement, FS_CardinalityType
  <2>5. waiting_writers >= Cardinality(Writers) /\ waiting_writers \in Nat
    BY DEF WaitersNotUndercounted, Writers, TypeOK
  <2>6. waiting_writers' >= Cardinality(Writers')
    BY <2>1, <2>2, <2>3, <2>4, <2>5, WritersFinite
  <2>. QED
    BY <2>6 DEF WaitersNotUndercounted, Writers
<1>2. CASE ~(r.mode = "X" /\ ~registered[t])
  BY <1>2 DEF waiting_writer_register, WaitersNotUndercounted
<1>. QED
  BY <1>1, <1>2

\* Returning removes the caller, and counts it once at most.
LEMMA UnregisterCounts ==
  ASSUME TypeOK, NEW t \in Threads, waiting_writer_unregister(t),
         WaitersNotUndercounted
  PROVE  WaitersNotUndercounted'
<1>1. CASE registered[t]
  <2>1. /\ waiting_writers' = IF waiting_writers > 0 THEN waiting_writers - 1 ELSE 0
        /\ registered' = [registered EXCEPT ![t] = FALSE]
    BY <1>1 DEF waiting_writer_unregister
  <2>2. Writers' = Writers \ {t} /\ t \in Writers
    BY <1>1, <2>1 DEF Writers, TypeOK
  <2>3. Cardinality(Writers \ {t}) = Cardinality(Writers) - 1
    BY <2>2, WritersFinite, FS_RemoveElement
  <2>4. waiting_writers >= Cardinality(Writers) /\ waiting_writers \in Nat
    BY DEF WaitersNotUndercounted, Writers, TypeOK
  <2>5. Cardinality(Writers \ {t}) \in Nat
    BY WritersFinite, FS_RemoveElement, FS_CardinalityType
  <2>6. waiting_writers' >= Cardinality(Writers')
    BY <2>1, <2>2, <2>3, <2>4, <2>5, WritersFinite
  <2>. QED
    BY <2>6 DEF WaitersNotUndercounted, Writers
<1>2. CASE ~registered[t]
  BY <1>2 DEF waiting_writer_unregister, WaitersNotUndercounted
<1>. QED
  BY <1>1, <1>2

\* The counter is never below the number of writers that wait, even when calls
\* fail for want of memory.
THEOREM WaitersCovered == Spec => []WaitersNotUndercounted
<1>1. Init => WaitersNotUndercounted
  <2> SUFFICES ASSUME Init PROVE WaitersNotUndercounted
    OBVIOUS
  <2>1. {t \in Threads : registered[t]} = {}
    BY DEF Init
  <2>. QED
    BY <2>1, FS_EmptySet DEF Init, WaitersNotUndercounted
<1>2. TypeOK /\ WaitersNotUndercounted /\ [Next]_vars => WaitersNotUndercounted'
  <2> SUFFICES ASSUME TypeOK, WaitersNotUndercounted, [Next]_vars
               PROVE  WaitersNotUndercounted'
    OBVIOUS
  <2>1. CASE Next
    <3>1. PICK u \in Threads : StepOf(u)
      BY <2>1, NextIsStep
    <3>2. ASSUME NEW r \in Workload[u], Sleep(u, r)
          PROVE  WaitersNotUndercounted'
      BY <3>2, RegisterCounts DEF Sleep
    <3>3. ASSUME NEW r \in Workload[u], Grant(u, r)
          PROVE  WaitersNotUndercounted'
      BY <3>3, UnregisterCounts DEF Grant
    <3>4. ASSUME NEW r \in Workload[u], AllocFailure(u, r)
          PROVE  WaitersNotUndercounted'
      <4>1. Writers' \subseteq Writers /\ waiting_writers' = waiting_writers
        BY <3>4 DEF AllocFailure, Writers, TypeOK
      <4>2. Cardinality(Writers') <= Cardinality(Writers)
            /\ Cardinality(Writers') \in Nat
        BY <4>1, WritersFinite, FS_Subset, FS_CardinalityType
      <4>. QED
        BY <4>1, <4>2, WritersFinite DEF WaitersNotUndercounted, Writers, TypeOK
    <3>5. CASE SpuriousWakeup(u)
      BY <3>5 DEF SpuriousWakeup, WaitersNotUndercounted
    <3>6. CASE Timeout(u)
      BY <3>6, UnregisterCounts DEF Timeout
    <3>7. CASE lock_release_all(u)
      BY <3>7 DEF lock_release_all, WaitersNotUndercounted
    <3>. QED
      BY <3>1, <3>2, <3>3, <3>4, <3>5, <3>6, <3>7 DEF StepOf
  <2>2. CASE UNCHANGED vars
    BY <2>2 DEF vars, WaitersNotUndercounted
  <2>. QED
    BY <2>1, <2>2
<1>. QED
  BY <1>1, <1>2, TypeCorrect, PTL DEF Spec

\* While a writer waits no shared lock is handed out, on any row.
THEOREM WritersFirst == Spec => WriterPreference
<1>1. ASSUME TypeOK, WaitersNotUndercounted, [Next]_vars,
             NEW w \in Threads, registered[w],
             NEW e \in entries' \ entries
      PROVE  e.lock.mode = "X"
  <2>1. waiting_writers > 0
    <3>1. w \in Writers
      BY <1>1 DEF Writers
    <3>2. Cardinality(Writers) # 0
      BY <3>1, WritersFinite, FS_EmptySet
    <3>. QED
      BY <1>1, <3>2, WritersFinite DEF WaitersNotUndercounted, Writers, TypeOK
  <2>2. Next
    BY <1>1 DEF vars
  <2>3. PICK u \in Threads : StepOf(u)
    BY <1>1, <2>2, NextIsStep
  <2>4. PICK r \in Workload[u] : Grant(u, r)
    BY <1>1, <2>3 DEF StepOf, Sleep, AllocFailure, SpuriousWakeup, Timeout,
                      lock_release_all
  <2>5. e.lock = r
    BY <1>1, <2>4 DEF Grant
  <2>6. ~reader_should_wait(r)
    BY <2>4 DEF Grant, Blocked
  <2>7. r.mode \in Mode
    BY WorkloadTyped DEF Lock
  <2>. QED
    BY <2>1, <2>5, <2>6, <2>7 DEF reader_should_wait, Mode
<1>2. TypeOK /\ WaitersNotUndercounted /\ [Next]_vars
        => [(\E t \in Threads : registered[t])
              => \A e \in entries' \ entries : e.lock.mode = "X"]_vars
  BY <1>1
<1>. QED
  BY <1>2, TypeCorrect, WaitersCovered, PTL DEF Spec, WriterPreference

-----------------------------------------------------------------------------
(* Refinement: the lock table implements LockManager.                      *)

HeldNow == [t \in Threads |-> [k \in Keys |-> HoldOf(t, k)]]

\* A grant never takes a hold away from the thread, and adds the request.
LEMMA GrantRaises ==
  ASSUME Inv, NEW u \in Threads, NEW r \in Workload[u], Grant(u, r),
         ~Covered(u, r), NEW k \in Keys
  PROVE  HoldOf(u, k)' =
           IF k \in Manager!Span(r.low, r.high)
           THEN Manager!Strongest(HoldOf(u, k), r.mode) ELSE HoldOf(u, k)
<1>. DEFINE new == [owner |-> u, lock |-> r]
            Covers(e) == e.lock.low <= k /\ k <= e.lock.high
<1>1. new.owner = u /\ new.lock = r
  OBVIOUS
<1>2. Own(u)' = (Own(u) \ OwnPoint(u, r)) \cup {new}
  BY DEF Grant, Own, OwnPoint
<1>3. r \in Lock /\ r.low \in Int /\ r.high \in Int /\ r.low <= r.high
      /\ (~r.isRange => r.low = r.high)
  BY WorkloadTyped
<1>4. r.mode \in {"S", "X"}
  BY <1>3 DEF Lock, Mode
<1>5. ASSUME NEW e \in OwnPoint(u, r)
      PROVE  /\ e \in Own(u) /\ e.lock.mode = "S" /\ r.mode = "X"
             /\ Covers(e) <=> Covers(new)
  <2>1. /\ e \in Own(u) /\ e.owner = u /\ ~r.isRange /\ ~e.lock.isRange
        /\ e.lock.low = r.low
    BY DEF OwnPoint, Own
  <2>2. e.lock \in Workload[u] /\ e.lock \in Lock /\ e.lock.low = e.lock.high
    <3>1. e.lock \in Workload[u]
      BY <2>1 DEF Own, Inv
    <3>. QED
      BY <2>1, <3>1, WorkloadTyped
  <2>3. e.lock.low <= r.low /\ r.high <= e.lock.high
    BY <1>3, <2>1, <2>2
  <2>4. e.lock.isRange = r.isRange
    BY <1>3, <2>1, <2>2, Zenon DEF Lock
  <2>5. e.lock.mode = "S" /\ r.mode = "X"
    BY <1>4, <2>1, <2>2, <2>3, <2>4 DEF Covered, Lock, Mode
  <2>6. Covers(e) <=> Covers(new)
    BY <1>1, <1>3, <2>1, <2>2
  <2>. QED
    BY <2>1, <2>5, <2>6
<1>6. k \in Manager!Span(r.low, r.high) <=> Covers(new)
  BY <1>1 DEF Manager!Span
<1>7. \A m : Holds(u, k, m) <=> \E e \in Own(u) : Covers(e) /\ e.lock.mode = m
  BY DEF Holds
<1>8. \A m : Holds(u, k, m)' <=> \E e \in Own(u)' : Covers(e) /\ e.lock.mode = m
  BY DEF Holds
<1>. HIDE DEF new, Covers
<1>9. CASE Covers(new)
  <2>1. Holds(u, k, r.mode)'
    BY <1>1, <1>2, <1>8, <1>9
  <2>2. Holds(u, k, "X")' <=> Holds(u, k, "X") \/ r.mode = "X"
    BY <1>1, <1>2, <1>5, <1>7, <1>8, <1>9
  <2>. QED
    BY <1>4, <1>6, <1>9, <2>1, <2>2 DEF HoldOf, Manager!Strongest
<1>10. CASE ~Covers(new)
  <2>1. \A m : Holds(u, k, m)' <=> Holds(u, k, m)
    BY <1>2, <1>5, <1>7, <1>8, <1>10
  <2>. QED
    BY <1>6, <1>10, <2>1 DEF HoldOf
<1>. QED
  BY <1>9, <1>10

\* A lock is granted only where the holds of all others are compatible with it.
LEMMA GrantCompatible ==
  ASSUME Inv, NEW u \in Threads, NEW r \in Workload[u], Grant(u, r),
         NEW v \in Threads \ {u}, NEW k \in Manager!Span(r.low, r.high)
  PROVE  Manager!Compatible(HoldOf(v, k), r.mode)
<1>1. k \in Keys /\ k \in Int /\ r.low <= k /\ k <= r.high
  BY LockTableAssumption DEF Manager!Span
<1>2. ASSUME NEW m, Holds(v, k, m)
      PROVE  ~Incompatible(m, r.mode)
  <2>1. PICK e \in Own(v) : e.lock.low <= k /\ k <= e.lock.high /\ e.lock.mode = m
    BY <1>2 DEF Holds
  <2>2. e \in entries /\ e.owner = v /\ e.lock \in Workload[v]
    BY <2>1 DEF Own, Inv
  <2>3. Overlap(e.lock, r)
    BY <1>1, <2>1, <2>2, WorkloadTyped DEF Overlap
  <2>. QED
    BY <2>1, <2>2, <2>3 DEF Grant, Blocked, conflict_exists
<1>3. r.mode \in {"S", "X"}
  BY WorkloadTyped DEF Lock, Mode
<1>. QED
  BY <1>2, <1>3 DEF HoldOf, Manager!Compatible, Incompatible

\* The callers see a lock manager: a grant raises a hold, lock_release_all
\* drops the holds of one thread, and nothing else is visible.
THEOREM Refinement == Spec => ImplementsLockManager
<1>1. Init => Manager!Init
  BY DEF Init, Manager!Init, HoldOf, Holds, Own
<1>2. Inv /\ [Next]_vars => [Manager!Next]_HeldNow
  <2> SUFFICES ASSUME Inv, [Next]_vars
               PROVE  Manager!Next \/ UNCHANGED HeldNow
    OBVIOUS
  <2>1. ASSUME entries' = entries
        PROVE  UNCHANGED HeldNow
    BY <2>1 DEF HeldNow, HoldOf, Holds, Own
  <2>2. CASE Next
    <3>1. PICK u \in Threads : StepOf(u)
      BY <2>2, NextIsStep DEF Inv
    <3>2. ASSUME NEW r \in Workload[u], Grant(u, r), ~Covered(u, r)
          PROVE  Manager!Next
      <4>1. \A v \in Threads \ {u}, k \in Manager!Span(r.low, r.high) :
              Manager!Compatible(HeldNow[v][k], r.mode)
        BY <3>2, GrantCompatible DEF HeldNow, Manager!Span
      <4>2. \A k \in Keys :
              HeldNow'[u][k] = IF k \in Manager!Span(r.low, r.high)
                               THEN Manager!Strongest(HeldNow[u][k], r.mode)
                               ELSE HeldNow[u][k]
        BY <3>2, GrantRaises DEF HeldNow
      <4>3. \A v \in Threads \ {u} : Own(v)' = Own(v)
        BY <3>1, OthersKeepTheirs DEF Inv
      <4>4. \A v \in Threads \ {u} : HeldNow'[v] = HeldNow[v]
        BY <4>3 DEF HeldNow, HoldOf, Holds
      <4>. DEFINE raised ==
             [k \in Keys |-> IF k \in Manager!Span(r.low, r.high)
                             THEN Manager!Strongest(HeldNow[u][k], r.mode)
                             ELSE HeldNow[u][k]]
      <4>5. HeldNow' = [HeldNow EXCEPT ![u] = raised]
        <5>1. HeldNow'[u] = [k \in Keys |-> HeldNow'[u][k]]
          BY DEF HeldNow
        <5>2. HeldNow'[u] = raised
          BY <4>2, <5>1
        <5>3. /\ DOMAIN HeldNow = Threads /\ DOMAIN HeldNow' = Threads
              /\ HeldNow = [t \in Threads |-> HeldNow[t]]
              /\ HeldNow' = [t \in Threads |-> HeldNow'[t]]
          BY DEF HeldNow
        <5>. HIDE DEF raised
        <5>. QED
          BY <4>4, <5>2, <5>3
      <4>6. r.low \in Keys /\ r.high \in Keys /\ r.low <= r.high
            /\ r.mode \in {"S", "X"}
        BY WorkloadTyped DEF Lock, Mode
      <4>7. Manager!Acquire(u, r.low, r.high, r.mode)
        BY <4>1, <4>5 DEF Manager!Acquire, HeldNow
      <4>. QED
        BY <4>6, <4>7 DEF Manager!Next
    <3>3. ASSUME lock_release_all(u)
          PROVE  Manager!Next
      <4>1. Own(u)' = {} /\ \A v \in Threads \ {u} : Own(v)' = Own(v)
        BY <3>3 DEF lock_release_all, Own
      <4>2. HeldNow' = [HeldNow EXCEPT ![u] = [k \in Keys |-> "none"]]
        BY <4>1 DEF HeldNow, HoldOf, Holds
      <4>. QED
        BY <4>2 DEF Manager!Next, Manager!Release, HeldNow
    <3>4. \A r \in Workload[u] :
            Grant(u, r) /\ status[u] = "woken" /\ r = request[u] => ~Covered(u, r)
      BY DEF Inv, WaitsForMore
    <3>. QED
      BY <2>1, <3>1, <3>2, <3>3, <3>4
      DEF StepOf, Sleep, AllocFailure, SpuriousWakeup, Timeout
  <2>. QED
    BY <2>1, <2>2 DEF vars
<1>. QED
  BY <1>1, <1>2, Invariance, PTL
  DEF Spec, ImplementsLockManager, Manager!Spec, HeldNow
=============================================================================
