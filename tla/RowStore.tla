------------------------------ MODULE RowStore ------------------------------
(***************************************************************************)
(* What the heap promises the executor: places that hold a row each, found *)
(* by every scan from the moment the row is put there until it is deleted. *)
(* An insertion that returns has put its row into a place that had none.   *)
(* Heap implements this specification.                                     *)
(***************************************************************************)
CONSTANTS
  Threads,
  Places      \* the pairs of a page and a slot (row_ref_t)

VARIABLES
  rows,       \* the places that have a row
  inserting   \* the threads that are in an insertion

vars == <<rows, inserting>>

Init == rows = {} /\ inserting = {}

Call(t) ==
  /\ t \notin inserting
  /\ inserting' = inserting \cup {t}
  /\ UNCHANGED rows

Insert(t, r) ==
  /\ t \in inserting /\ r \notin rows
  /\ rows' = rows \cup {r}
  /\ inserting' = inserting \ {t}

Delete(t, r) ==
  /\ t \notin inserting /\ r \in rows
  /\ rows' = rows \ {r}
  /\ UNCHANGED inserting

Next ==
  \E t \in Threads :
    Call(t) \/ \E r \in Places : Insert(t, r) \/ Delete(t, r)

Spec == Init /\ [][Next]_vars
=============================================================================
