----------------------------- MODULE MCJobQueue -----------------------------
(* Model checking of JobQueue: two jobs asked for under one key, and a job *)
(* without a key.                                                          *)
EXTENDS JobQueue

CONSTANTS j1, j2, j3, k1
KeyOfJobs == [j \in Jobs |-> IF j = j3 THEN None ELSE k1]
=============================================================================
