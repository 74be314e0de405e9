----------------------------- MODULE MCBilling -----------------------------
(***************************************************************************)
(* Billing on small instances: a publisher with a wallet of its own, the   *)
(* demo publisher and the admin account, which has no wallet.              *)
(***************************************************************************)
EXTENDS Billing, TLC

CONSTANTS p1, demo, adm, r1, r2, r3

\* Three interchangeable requests on two wallets ...
WalletAccounts == {p1, demo}
ThreeRequests == {r1, r2, r3}
Interchangeable == Permutations(ThreeRequests)

\* ... or two on all kinds of account.
AllAccounts == {p1, demo, adm}
TwoRequests == {r1, r2}

TypeOfAccount ==
    [a \in Accounts |-> IF a = p1 THEN "Weekly" ELSE "Daily"]

\* p1 can afford one edition of two pages at the default rate, not two.
OneEdition == {10000}
EmptyTheWallet == {-10000}

\* Half the default price; and one that rounds to 0.00, which leaves the
\* default in force.
HalfPrice == {25000}
Prices == {4, 25000}

PublishedOnDay0 == {[valid |-> TRUE, number |-> 10, date |-> 0]}
=============================================================================
