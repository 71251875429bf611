------------------------------- MODULE MCPortals -------------------------------
(* Model checking of Portals: portals and workers are alike.               *)
EXTENDS Portals

Symmetry == Permutations(Portals) \cup Permutations(Workers)
=============================================================================
