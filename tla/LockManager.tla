---------------------------- MODULE LockManager ----------------------------
(***************************************************************************)
(* What the lock table of MiniDB promises to its callers, with nothing of  *)
(* how it waits: a thread may raise its hold on a set of keys to shared or *)
(* exclusive when no other thread holds any of these keys incompatibly,    *)
(* and gives everything back at once (strict two-phase locking).           *)
(* LockTable implements this specification.                                *)
(***************************************************************************)
EXTENDS Integers

CONSTANTS
  Threads,  \* the threads that execute statements
  Keys      \* the row ids that are ever locked

VARIABLE held  \* held[t][k]: the strongest mode in which t holds key k

Hold == {"none", "S", "X"}

Compatible(a, b) == a = "none" \/ b = "none" \/ (a = "S" /\ b = "S")

Strongest(a, b) ==
  IF "X" \in {a, b} THEN "X" ELSE IF "S" \in {a, b} THEN "S" ELSE "none"

\* The keys a lock on low..high covers.
Span(low, high) == {k \in Keys : low <= k /\ k <= high}

Init == held = [t \in Threads |-> [k \in Keys |-> "none"]]

\* The request of t for mode m on the keys low..high is granted.
Acquire(t, low, high, m) ==
  /\ \A u \in Threads \ {t}, k \in Span(low, high) : Compatible(held[u][k], m)
  /\ held' = [held EXCEPT ![t] =
       [k \in Keys |-> IF k \in Span(low, high) THEN Strongest(held[t][k], m)
                       ELSE held[t][k]]]

\* t ends its statement and gives back every lock.
Release(t) == held' = [held EXCEPT ![t] = [k \in Keys |-> "none"]]

Next ==
  \E t \in Threads :
    \/ \E low, high \in Keys, m \in {"S", "X"} :
         low <= high /\ Acquire(t, low, high, m)
    \/ Release(t)

Spec == Init /\ [][Next]_held
=============================================================================
