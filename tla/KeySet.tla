------------------------------- MODULE KeySet -------------------------------
(***************************************************************************)
(* What the B+ tree promises its callers: a set of keys on which searches, *)
(* insertions and deletions take effect at one instant between their call  *)
(* and their return.  A range scan has no single instant: it is in the     *)
(* interface here, and what it returns is a property of BPTree.            *)
(***************************************************************************)
EXTENDS Naturals

CONSTANTS
  Threads,   \* the threads that use the index
  Workload   \* Workload[t]: the requests thread t may make

VARIABLES
  keys,      \* the keys of the index
  request,   \* request[t]: the request t is in, or NoRequest
  result     \* result[t]: what it returned: "found", "missing" or not yet "none"

vars == <<keys, request, result>>

NoRequest == [op |-> "none", low |-> 0, high |-> 0]

Init ==
  /\ request = [t \in Threads |-> NoRequest]
  /\ result = [t \in Threads |-> "none"]

Call(t) ==
  /\ request[t] = NoRequest
  /\ \E r \in Workload[t] : request' = [request EXCEPT ![t] = r]
  /\ UNCHANGED <<keys, result>>

\* bptree_search, bptree_insert and bptree_delete at their instant.
Effect(t) ==
  LET r == request[t] IN
  /\ r.op \in {"search", "insert", "delete"}
  /\ result[t] = "none"
  /\ result' = [result EXCEPT ![t] = IF r.low \in keys THEN "found" ELSE "missing"]
  /\ keys' = CASE r.op = "insert" -> keys \cup {r.low}
               [] r.op = "delete" -> keys \ {r.low}
               [] r.op = "search" -> keys
  /\ UNCHANGED request

Return(t) ==
  /\ request[t].op = "scan" \/ result[t] # "none"
  /\ request' = [request EXCEPT ![t] = NoRequest]
  /\ result' = [result EXCEPT ![t] = "none"]
  /\ UNCHANGED keys

Next == \E t \in Threads : Call(t) \/ Effect(t) \/ Return(t)

Spec == Init /\ [][Next]_vars
=============================================================================
