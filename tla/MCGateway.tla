----------------------------- MODULE MCGateway -----------------------------
(* An instance of Gateway with three providers of one exposed model.          *)
EXTENDS Gateway

CONSTANTS p1, p2, p3

ThreeProviders == <<p1, p2, p3>>
=============================================================================
