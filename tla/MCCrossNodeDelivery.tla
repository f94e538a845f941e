------------------------ MODULE MCCrossNodeDelivery ------------------------
(* Instances of CrossNodeDelivery for TLC. *)
EXTENDS CrossNodeDelivery, TLC

IdSymmetry == Permutations(Ids)
=============================================================================
