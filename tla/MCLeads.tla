------------------------------- MODULE MCLeads -------------------------------
(* Model checking of Leads.  The agents are alike and so are the handlers; *)
(* no symmetry is declared, because a liveness property is checked.        *)
EXTENDS Leads

OneStep == <<"pool_release">>
=============================================================================
