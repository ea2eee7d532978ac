------------------------------- MODULE MCLogin -------------------------------
(* Constants of the model-checked instances of Login.                      *)
EXTENDS Login, TLC

CONSTANTS alice, bob, l1, l2, l3, r1, r2

TwoAccounts == {alice, bob}
\* Two completions may be for older screens while a third is on display.
ThreeLogins == {l1, l2, l3}
TwoAttempts == {r1, r2}

Symmetry ==
    Permutations(Accounts) \cup Permutations(Logins) \cup Permutations(Attempts)
=============================================================================
