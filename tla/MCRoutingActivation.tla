------------------------ MODULE MCRoutingActivation ------------------------
(* Small instances of RoutingActivation. *)
EXTENDS RoutingActivation

\* No action tells socket numbers or source addresses apart.
Symmetry == Permutations(Fds) \cup Permutations(SAs)
=============================================================================
