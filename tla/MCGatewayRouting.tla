---- MODULE MCGatewayRouting ----
(* Instances of GatewayRouting *)
EXTENDS GatewayRouting
CONSTANT n1, n2
OneNode  == <<n1>>
TwoNodes == <<n1, n2>>
====
