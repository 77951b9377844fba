------------------------------- MODULE Table -------------------------------
(***************************************************************************)
(* What MiniDB promises to those who send statements, for the rows that    *)
(* are found through the index.  An INSERT adds one row, under an id that  *)
(* has none.  A DELETE or UPDATE removes or changes one row at a time, one *)
(* that satisfies its WHERE at that very moment.  DROP TABLE removes all   *)
(* rows.  No other statement changes anything.  Engine implements this     *)
(* specification.                                                          *)
(***************************************************************************)
EXTENDS Statement

CONSTANTS
  Threads,  \* the threads that execute statements
  Ids       \* the ids of rows

VARIABLES
  there,    \* the ids that have a row
  age,      \* age[k]: the other column of row k
  request   \* request[t]: the statement t executes

vars == <<there, age, request>>

Chosen(t, k) ==
  /\ k \in there
  /\ match_predicate([id |-> k, age |-> age[k]], request[t])

Init == there \subseteq Ids /\ request = [t \in Threads |-> NoStatement]

\* A statement begins, or ends when s is NoStatement.
Turn(t) ==
  /\ request'[t] \in StatementType
  /\ request' = [request EXCEPT ![t] = request'[t]]
  /\ UNCHANGED <<there, age>>

Insert(t, k) ==
  /\ request[t].type = "insert" /\ k \notin there
  /\ there' = there \cup {k}
  /\ age' = [age EXCEPT ![k] = request[t].age]
  /\ UNCHANGED request

Delete(t, k) ==
  /\ request[t].type = "delete" /\ Chosen(t, k)
  /\ there' = there \ {k}
  /\ age' = [age EXCEPT ![k] = 0]
  /\ UNCHANGED request

Update(t, k) ==
  /\ request[t].type = "update" /\ Chosen(t, k)
  /\ age' = [age EXCEPT ![k] = request[t].age]
  /\ UNCHANGED <<there, request>>

Drop(t) ==
  /\ request[t].type = "drop"
  /\ there' = {} /\ age' = [k \in Ids |-> 0]
  /\ UNCHANGED request

Next ==
  \E t \in Threads :
    \/ Turn(t)
    \/ Drop(t)
    \/ \E k \in Ids : Insert(t, k) \/ Delete(t, k) \/ Update(t, k)

Spec == Init /\ [][Next]_vars
=============================================================================
