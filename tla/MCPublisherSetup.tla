-------------------------- MODULE MCPublisherSetup --------------------------
(***************************************************************************)
(* Small instances of PublisherSetup: two accounts sign in at one browser  *)
(* with two tabs.                                                          *)
(***************************************************************************)
EXTENDS PublisherSetup, TLC

CONSTANTS t1, t2, a1, a2, twelve

TwoTabs == {t1, t2}
TwoAccounts == {a1, a2}
OnePlan == {twelve}
Symmetry == Permutations({t1, t2}) \union Permutations({a1, a2})
=============================================================================
