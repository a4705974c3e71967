------------------------------ MODULE MCHelper ------------------------------
(* The replacement of one container, with few polls. *)
EXTENDS Helper

=============================================================================
