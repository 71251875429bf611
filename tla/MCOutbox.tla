------------------------------ MODULE MCOutbox ------------------------------
(* Model checking of Outbox: batches and rules are alike.                  *)
EXTENDS Outbox, TLC

Symmetry == Permutations(Batches) \cup Permutations(Rules)
=============================================================================
