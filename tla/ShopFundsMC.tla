---------------------------- MODULE ShopFundsMC ----------------------------
(* Instances of ShopFunds for TLC.  Shops, transfers and requests are      *)
(* interchangeable: no definition names one, and every property quantifies *)
(* over all of them.                                                       *)
EXTENDS ShopFunds, TLC

Symmetry == Permutations(Shops) \cup Permutations(Transfers) \cup Permutations(Requests)
=============================================================================
