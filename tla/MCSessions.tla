------------------------------ MODULE MCSessions ------------------------------
(* Model checking of Sessions: rows, requests and tokens are alike.        *)
EXTENDS Sessions, TLC

Symmetry == Permutations(Rows) \cup Permutations(Requests) \cup Permutations(Tokens)
=============================================================================
