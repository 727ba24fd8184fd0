---------------------------- MODULE MerchantFloat ----------------------------
(***************************************************************************)
(* What a merchant is promised about prepaid money, with no process, row,  *)
(* claim or retry in sight: a sale takes its face value out of the float   *)
(* once, if the float covers it, and that value then comes back, once, or  *)
(* goes to the provider, after which it may be refunded, once.             *)
(***************************************************************************)
EXTENDS Integers

CONSTANTS
  Sales,
  Amount,    \* [Sales -> face value]
  Opening,   \* the float before the first sale
  Total(_)   \* the sum of the values of a function, as the ledger adds them up

VARIABLE phase   \* "new", "held", "settled", "returned" or "refunded", by sale

Spendable ==
  Opening + Total([s \in Sales |-> IF phase[s] \in {"held", "settled"}
                                   THEN -Amount[s] ELSE 0])

Hold(s) ==
  /\ phase[s] = "new"
  /\ Spendable >= Amount[s]
  /\ phase' = [phase EXCEPT ![s] = "held"]

Settle(s) ==
  /\ phase[s] = "held"
  /\ phase' = [phase EXCEPT ![s] = "settled"]

Return(s) ==
  /\ phase[s] = "held"
  /\ phase' = [phase EXCEPT ![s] = "returned"]

Refund(s) ==
  /\ phase[s] = "settled"
  /\ phase' = [phase EXCEPT ![s] = "refunded"]

Init == phase = [s \in Sales |-> "new"]

Next == \E s \in Sales : Hold(s) \/ Settle(s) \/ Return(s) \/ Refund(s)

Spec == Init /\ [][Next]_phase
=============================================================================
