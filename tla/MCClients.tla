---- MODULE MCClients ----
(* Instances of Clients *)
EXTENDS Clients
====
