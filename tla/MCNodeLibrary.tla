---- MODULE MCNodeLibrary ----
(* Instances of NodeLibrary *)
EXTENDS NodeLibrary
====
