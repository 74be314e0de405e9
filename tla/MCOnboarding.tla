---------------------------- MODULE MCOnboarding ----------------------------
(***************************************************************************)
(* Small instances of Onboarding: two admins, three names for accounts     *)
(* and the one the seeded demo account has, and two passwords.             *)
(***************************************************************************)
EXTENDS Onboarding, TLC

CONSTANTS a1, a2, demo, u1, u2, u3, first, second

TwoAdmins == {a1, a2}
TwoPasswords == {first, second}
Names == {demo, u1, u2, u3}
Symmetry == Permutations({a1, a2}) \union Permutations({u1, u2, u3})
=============================================================================
