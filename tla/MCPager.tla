------------------------------ MODULE MCPager ------------------------------
(* Model values of the run of Pager, and their symmetry. *)
EXTENDS Pager, TLC

CONSTANTS t1, t2, f1, f2

\* Threads and frames are interchangeable: nothing compares them but equality.
Symmetry == Permutations(Threads) \cup Permutations(Frames)
=============================================================================
