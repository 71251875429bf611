------------------------------ MODULE MCWorkflows ------------------------------
(* Model checking of Workflows: events and workers are alike.              *)
EXTENDS Workflows

WaitFirst == <<"wait", "once", "plain">>
Symmetry == Permutations(Events) \cup Permutations(Workers)
=============================================================================
