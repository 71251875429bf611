------------------------------ MODULE MCDeals ------------------------------
(* Model checking of Deals: requests and lines are alike.                  *)
EXTENDS Deals, TLC

Symmetry == Permutations(Requests) \cup Permutations(Lines)
=============================================================================
