------------------------- MODULE MCChargingPointPage -------------------------
(* Symmetry of the slots, and of the facts. *)
EXTENDS ChargingPointPage, RuntimeView, TLC

Symmetry == Permutations(Slots) \cup Permutations(Actors) \cup Permutations(Facts)
=============================================================================
