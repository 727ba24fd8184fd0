---------------------------- MODULE OnboardingMC ----------------------------
(* Shops and requests are interchangeable in every instance.               *)
EXTENDS Onboarding, TLC

Symmetry == Permutations(Shops) \cup Permutations(Handlers)
=============================================================================
