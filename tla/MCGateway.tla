----------------------------- MODULE MCGateway -----------------------------
(* The instances of MCModelRoute, with the store's mapping.                *)
EXTENDS Gateway, MCModelRoute
=============================================================================
