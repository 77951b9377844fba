----------------------------- MODULE PageStore -----------------------------
(***************************************************************************)
(* What the pager promises the heap and the B+ tree: numbered pages that   *)
(* keep what was last written to them until they are freed, whatever moves *)
(* between the frames and the file.  Pager implements this specification.  *)
(***************************************************************************)
EXTENDS Integers

CONSTANTS
  Page,   \* the page numbers a file may grow to
  Words   \* what a page may hold, 0 being the contents of a fresh page

VARIABLES
  live,     \* the pages that are allocated
  content   \* content[p]: what page p holds, 0 for a page not allocated

vars == <<live, content>>

Init ==
  /\ live \subseteq Page
  /\ content = [p \in Page |-> 0]

\* A page nobody has, and it is zeroed.
Alloc(p) ==
  /\ p \notin live
  /\ live' = live \cup {p}
  /\ UNCHANGED content

Free(p) ==
  /\ p \in live
  /\ live' = live \ {p}
  /\ content' = [content EXCEPT ![p] = 0]

Write(p, w) ==
  /\ p \in live
  /\ content' = [content EXCEPT ![p] = w]
  /\ UNCHANGED live

Next ==
  \E p \in Page : Alloc(p) \/ Free(p) \/ \E w \in Words : Write(p, w)

Spec == Init /\ [][Next]_vars
=============================================================================
