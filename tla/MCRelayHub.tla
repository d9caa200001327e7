----------------------------- MODULE MCRelayHub -----------------------------
(* Instances of RelayHub for TLC. *)
EXTENDS RelayHub, TLC

RoomSymmetry == Permutations(RoomIds)
=============================================================================
