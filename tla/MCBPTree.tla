------------------------------ MODULE MCBPTree ------------------------------
(* Workloads and first trees for the runs of BPTree. *)
EXTENDS BPTree, TLC

CONSTANTS t1, t2

Op(o, S) == {[op |-> o, low |-> k, high |-> k] : k \in S}

\* The tree of a new database: page 2 is an empty leaf and the root.
EmptyTree ==
  [node |-> [p \in Pages |-> IF p = 2 THEN Leaf(<< >>, 0) ELSE FreePage],
   root |-> 2,
   free |-> Pages \ {2}]

\* One thread that inserts and deletes, and one that searches.
UpdatesAndSearch ==
  t1 :> (Op("insert", {2, 4, 6}) \cup Op("delete", 1..6)) @@ t2 :> Op("search", {4})

\* One thread that inserts and deletes beside one that searches and scans.
UpdatesAndReads ==
  t1 :> (Op("insert", 1..4) \cup Op("delete", 1..4)) @@
  t2 :> (Op("search", {2, 4}) \cup {[op |-> "scan", low |-> 2, high |-> 4]})

\* What ascending insertions and a deletion leave behind: keys 1 to 4 inserted
\* and 3 deleted, keys 1 to 5 inserted and 4 deleted.
TwoLeaves ==
  [node |-> [p \in Pages |-> CASE p = 2 -> Leaf(<<1>>, 3)
                               [] p = 3 -> Leaf(<<2>>, 0)
                               [] p = 4 -> Internal(<<2>>, <<2, 3>>)
                               [] OTHER -> FreePage],
   root |-> 4,
   free |-> Pages \ {2, 3, 4}]
ThreeLeaves ==
  [node |-> [p \in Pages |-> CASE p = 2 -> Leaf(<<1>>, 3)
                               [] p = 3 -> Leaf(<<2>>, 5)
                               [] p = 5 -> Leaf(<<3>>, 0)
                               [] p = 4 -> Internal(<<2, 3>>, <<2, 3, 5>>)
                               [] OTHER -> FreePage],
   root |-> 4,
   free |-> {6}]

\* Keys 1 to 6 over five leaves and two inner nodes below the root: deletions
\* borrow from and merge with both sides on both levels, down to a single leaf.
ThreeLevels ==
  [node |-> [p \in Pages |-> CASE p = 2 -> Leaf(<<1>>, 3)
                               [] p = 3 -> Leaf(<<2>>, 5)
                               [] p = 5 -> Leaf(<<3>>, 6)
                               [] p = 6 -> Leaf(<<4>>, 7)
                               [] p = 7 -> Leaf(<<5, 6>>, 0)
                               [] p = 4 -> Internal(<<2, 3>>, <<2, 3, 5>>)
                               [] p = 8 -> Internal(<<5>>, <<6, 7>>)
                               [] p = 9 -> Internal(<<4>>, <<4, 8>>)
                               [] OTHER -> FreePage],
   root |-> 9,
   free |-> {10}]

DeleteAndScan ==
  t1 :> Op("delete", {2}) @@ t2 :> {[op |-> "scan", low |-> 1, high |-> 2]}
DeleteAndInsert == t1 :> Op("delete", {1}) @@ t2 :> Op("insert", {4})
=============================================================================
