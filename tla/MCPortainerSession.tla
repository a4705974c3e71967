------------------------- MODULE MCPortainerSession -------------------------
(* A reading and a changing request, or two of a kind, over one client.     *)
EXTENDS PortainerSession
=============================================================================
