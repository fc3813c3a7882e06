--------------------------- MODULE MCThreadPool ---------------------------
(* Small instances of ThreadPool. *)
EXTENDS ThreadPool, TLC

CONSTANTS a1, a2, b1, z1

\* Two tasks of group 1, one of group 2 and one of no group.
MCId == (a1 :> 1) @@ (a2 :> 1) @@ (b1 :> 2) @@ (z1 :> 0)

\* All the tasks belong to one group.
MCOneGroup == [k \in Tasks |-> 1]

\* No action tells threads apart.
ThreadSymmetry == Permutations(Threads)
=============================================================================
