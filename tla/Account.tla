------------------------------ MODULE Account ------------------------------
(***************************************************************************)
(* What a wallet promises its owner: it starts empty, and money moves only *)
(* together with a line of the ledger that states the amount; lines are    *)
(* never altered or taken back.  Credits implements it.                    *)
(***************************************************************************)
EXTENDS Integers, Sequences

VARIABLES balance, posted

Init == balance = 0 /\ posted = <<>>

\* A line states by how much the balance changes.
Next == posted' = Append(posted, balance' - balance)

Spec == Init /\ [][Next]_<<balance, posted>>
=============================================================================
