------------------------------ MODULE MCDelivery ------------------------------
(* Instance of Delivery for TLC. *)
EXTENDS Delivery
=============================================================================
