------------------------------- MODULE Leases -------------------------------
(***************************************************************************)
(* What claiming work from a table promises, and no more: a hand takes     *)
(* what nobody has, and nobody else lays it down or takes it away, so that *)
(* work is never in two hands, nor goes from one to another without being  *)
(* free between.                                                           *)
(***************************************************************************)
CONSTANTS
  Items,   \* the rows that are worked on
  Holders  \* the batches or functions that work

VARIABLE hands  \* what each holder has in hand

Init == hands = [h \in Holders |-> {}]

Free == Items \ UNION {hands[h] : h \in Holders}

Take(h) == \E S \in SUBSET Free : hands' = [hands EXCEPT ![h] = @ \cup S]

LayDown(h) == \E S \in SUBSET hands[h] : hands' = [hands EXCEPT ![h] = @ \ S]

Next == \E h \in Holders : Take(h) \/ LayDown(h)

Spec == Init /\ [][Next]_hands

=============================================================================
