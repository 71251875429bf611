----------------------------- MODULE UnitClaims -----------------------------
(***************************************************************************)
(* What the reservation flow promises, and no more: a unit has at most one *)
(* claimant at a time, a claim starts only on a free unit, and a           *)
(* reservation claims once in its life.                                    *)
(***************************************************************************)
CONSTANTS Units, Reservations, None

VARIABLES
  claimant,  \* the reservation that has the unit, or None
  spent      \* reservations that have had their claim

vars == <<claimant, spent>>

Init ==
  /\ claimant = [u \in Units |-> None]
  /\ spent = {}

Claim(u, r) ==
  /\ claimant[u] = None
  /\ r \notin spent
  /\ claimant' = [claimant EXCEPT ![u] = r]
  /\ spent' = spent \cup {r}

GiveUp(u) ==
  /\ claimant[u] # None
  /\ claimant' = [claimant EXCEPT ![u] = None]
  /\ UNCHANGED spent

Next == \E u \in Units : GiveUp(u) \/ \E r \in Reservations : Claim(u, r)

Spec == Init /\ [][Next]_vars

=============================================================================
