---------------------------- MODULE MCInventory ----------------------------
(* Model checking of Inventory: the identifiers are model values, and the  *)
(* runs without liveness use that the ids and the agents are alike.        *)
EXTENDS Inventory, TLC

Symmetry ==
  Permutations(Holds) \cup Permutations(Reservations) \cup Permutations(Agents)
    \cup Permutations(Units)
=============================================================================
