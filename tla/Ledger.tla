------------------------------- MODULE Ledger -------------------------------
(***************************************************************************)
(* What the books promise of the commission of a deal, and no more: the    *)
(* amount is entered when the deal begins to earn it, which it does once,  *)
(* its negative when the deal ceases to, and no entry is ever changed; so  *)
(* the entries always sum to what the deal earns.                          *)
(***************************************************************************)
EXTENDS Integers, Sequences

CONSTANT Amounts

VARIABLES
  earned,  \* what the deal earns now, 0 for nothing
  book     \* the entries, oldest first

Init == earned = 0 /\ book = <<>>

Earn(a) ==
  /\ book = <<>>
  /\ book' = <<a>>
  /\ earned' = a

Lose ==
  /\ earned # 0
  /\ book' = Append(book, -earned)
  /\ earned' = 0

Next == Lose \/ \E a \in Amounts \ {0} : Earn(a)

Spec == Init /\ [][Next]_<<earned, book>>

=============================================================================
