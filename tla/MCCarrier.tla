------------------------------ MODULE MCCarrier ------------------------------
(* Instances of Carrier for TLC. *)
EXTENDS Carrier
=============================================================================
