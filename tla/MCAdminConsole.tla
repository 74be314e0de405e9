-------------------------- MODULE MCAdminConsole --------------------------
(***************************************************************************)
(* Small instances of AdminConsole: two accounts and one applicant.        *)
(***************************************************************************)
EXTENDS AdminConsole, TLC

CONSTANTS a, b, applicant

TwoAccounts == {a, b}
OneApplicant == {applicant}
Symmetry == Permutations(TwoAccounts)
=============================================================================
