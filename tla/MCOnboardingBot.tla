-------------------------- MODULE MCOnboardingBot --------------------------
(***************************************************************************)
(* The instance of OnboardingBot that TLC checks: two accounts, two names, *)
(* two pull requests.                                                      *)
(***************************************************************************)
EXTENDS OnboardingBot, TLC

CONSTANTS u1, u2, alice, bob, r1, r2

BotSymmetry == Permutations(People) \cup Permutations(Runs)
=============================================================================
