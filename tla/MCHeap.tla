------------------------------- MODULE MCHeap -------------------------------
(* The workload of the runs of Heap. *)
EXTENDS Heap

CONSTANTS t1, t2

\* Both threads insert, so that both extend the chain; one of them deletes and
\* the other scans.
Mixed ==
  [t \in Threads |-> IF t = t1 THEN {"insert", "delete"} ELSE {"insert", "scan"}]
=============================================================================
