------------------------------- MODULE Logins -------------------------------
(***************************************************************************)
(* What refresh tokens promise, and no more.  A line of tokens begins with *)
(* a token nobody was given before, each token is good for one other, which*)
(* is good in its place, and a line that was ended never has a good token  *)
(* again.  A login is a line; a request that was overtaken begins a line   *)
(* that is late.  A line bears the name of its first token.                *)
(***************************************************************************)
CONSTANT Tokens

VARIABLES
  good,   \* the tokens of each line that are good
  given,  \* the tokens given so far
  late    \* the lines that are late

Init == good = [l \in Tokens |-> {}] /\ given = {} /\ late = {}

Begin(l) ==
  /\ l \notin given
  /\ good' = [good EXCEPT ![l] = {l}]
  /\ given' = given \cup {l}
  /\ late' \in {late, late \cup {l}}

Renew(l, t) ==
  /\ \E s \in given : good[l] = {s}
  /\ t \notin given
  /\ good' = [good EXCEPT ![l] = {t}]
  /\ given' = given \cup {t}
  /\ UNCHANGED late

End(S) ==
  /\ good' = [l \in Tokens |-> IF l \in S THEN {} ELSE good[l]]
  /\ UNCHANGED <<given, late>>

Next ==
  \/ \E l \in Tokens : Begin(l) \/ \E t \in Tokens : Renew(l, t)
  \/ \E S \in SUBSET Tokens : End(S)

Spec == Init /\ [][Next]_<<good, given, late>>

=============================================================================
