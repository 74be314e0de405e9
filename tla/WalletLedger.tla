---------------------------- MODULE WalletLedger ----------------------------
(***************************************************************************)
(* What the wallet promises, whatever handlers run concurrently: a wallet  *)
(* changes only by posting one entry to its ledger, the entry carries the  *)
(* balance it leaves, and no entry overdraws the wallet.  The columns are  *)
(* those of wallets and wallet_transactions (00001_saas_reset.sql).        *)
(***************************************************************************)
EXTENDS Integers, Sequences

CONSTANTS Accounts,     \* the wallets this specification speaks of
          EntryTypes,   \* txn_type
          Sources       \* what ref_id and description name: who posted it

VARIABLES balance,      \* wallets.balance_inr
          ledger        \* wallet_transactions, in the order they were posted

vars == <<balance, ledger>>

Entry == [type: EntryTypes, amount: Int, after: Int, by: Sources]

\* A wallet is opened empty, or with its initial balance already posted.
Opened(b, l) ==
    \/ b = 0 /\ l = <<>>
    \/ b > 0 /\ Len(l) = 1 /\ l[1].amount = b /\ l[1].after = b

Init ==
    /\ balance \in [Accounts -> Int]
    /\ ledger \in [Accounts -> Seq(Entry)]
    /\ \A a \in Accounts : Opened(balance[a], ledger[a])

\* Some entry takes the balance of a to a new, non-negative balance.
Post(a) ==
    /\ balance'[a] \in Nat
    /\ balance' = [balance EXCEPT ![a] = balance'[a]]
    /\ \E type \in EntryTypes, by \in Sources :
          ledger' = [ledger EXCEPT ![a] =
                       Append(@, [type |-> type,
                                  amount |-> balance'[a] - balance[a],
                                  after |-> balance'[a],
                                  by |-> by])]

Next == \E a \in Accounts : Post(a)

Spec == Init /\ [][Next]_vars
-----------------------------------------------------------------------------
\* Entry i leaves the balance its predecessor left, moved by its amount.
Follows(l, i) ==
    l[i].after = (IF i = 1 THEN 0 ELSE l[i - 1].after) + l[i].amount

\* The balance is what the last entry left, each entry continues the one
\* before it, and no balance along the way was negative: the cached balance
\* (docs/04, section 1.1) can be derived from the ledger, row by row.
LedgerExplainsBalance ==
    \A a \in Accounts :
        /\ balance[a] = IF ledger[a] = <<>> THEN 0
                        ELSE ledger[a][Len(ledger[a])].after
        /\ \A i \in 1..Len(ledger[a]) :
              Follows(ledger[a], i) /\ ledger[a][i].after >= 0
=============================================================================
