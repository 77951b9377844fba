---------------------------- MODULE MCLockTable ----------------------------
(* Workloads for the runs of LockTable on rows 1 to 3. *)
EXTENDS LockTable, TLC

CONSTANTS t1, t2, t3

Point(k, m) == [isRange |-> FALSE, low |-> k, high |-> k, mode |-> m]
Range(l, h, m) == [isRange |-> TRUE, low |-> l, high |-> h, mode |-> m]

\* Upgrades, two readers of one row, points against ranges, ranges that overlap
\* in part, and a range inside another.
MixedWorkload ==
  t1 :> {Point(1, "S"), Point(1, "X"), Range(1, 2, "S"), Point(3, "X")} @@
  t2 :> {Point(1, "S"), Point(1, "X"), Point(2, "S"), Range(2, 3, "S")} @@
  t3 :> {Point(2, "S"), Range(1, 2, "X"), Range(1, 3, "S")}
=============================================================================
