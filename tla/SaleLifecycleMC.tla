--------------------------- MODULE SaleLifecycleMC ---------------------------
(***************************************************************************)
(* Finite instances of SaleLifecycle for TLC.                              *)
(***************************************************************************)
EXTENDS SaleLifecycle, TLC

CONSTANTS r1, r2, k1, k2, w1, w2

\* One sale of 5 with a commission share of 1.
OneKey         == [r \in Requests |-> k1]
OneFingerprint == [r \in Requests |-> "same"]
FiveEach       == [r \in Requests |-> 5]
OneEach        == [r \in Requests |-> 1]

\* Two calls under one key whose payloads differ, and two unrelated calls.
TwoKeys         == r1 :> k1 @@ r2 :> k2
TwoFingerprints == r1 :> "cash" @@ r2 :> "credit"

\* The second sale fits only if the first gave its value back.
UnevenAmounts == r1 :> 5 @@ r2 :> 4

WorkerSymmetry == Permutations(Workers)
=============================================================================
