------------------------------ MODULE Billing ------------------------------
(***************************************************************************)
(* The money path of saas_handlers.go: wallets, ledger, payments, the      *)
(* archive of generated editions, the price, the front-page rotation and   *)
(* the volume baseline, under concurrent requests.                         *)
(*                                                                         *)
(* A request is one invocation of a handler.  Each step up to the row lock *)
(* is an action of its own: what a handler reads outside its transaction   *)
(* can be stale by the time it writes.  From SELECT ... FOR UPDATE on the  *)
(* wallet row to COMMIT nobody else sees the transaction's writes (READ    *)
(* COMMITTED), so they are published by one action, or by none.            *)
(*                                                                         *)
(* Money is in paise.  MayFail lets a statement or a COMMIT fail.          *)
(***************************************************************************)
EXTENDS VolumeNumber, Sequences, FiniteSets

CONSTANTS
    Accounts,        \* publisher ids a request may name
    Wallets,         \* those with a wallets row (and a publisher_profiles row)
    Demo,            \* publisher1, whose wallet the first migration seeds
    PublicationType, \* publisher_profiles.publication_type of each account
    Requests,        \* invocations of the handlers
    NoRequest,       \* a row written by nobody's request; a lock nobody holds
    Orders,          \* razorpay_order_id
    RechargeAmounts, Adjustments, PageCounts, Dates, \* what callers send
    PriceInputs,     \* per_page_cost_inr an admin may send, in 1/1000 INR
    InitialBalances, \* initial_balance_inr of the accounts an admin created
    InitialBaselines,\* what the setup wizard left in the volume columns
    MayFail,         \* whether the database may fail a statement or a COMMIT
    MaxRestarts      \* bound: restarts of the server in a behaviour

ASSUME AccountsAssumption ==
    /\ Wallets \subseteq Accounts
    /\ Demo \in Wallets
    /\ PublicationType \in [Accounts -> {"Daily", "Weekly"}]
    /\ NoRequest \notin Requests

ASSUME InputsAssumption ==
    /\ RechargeAmounts \subseteq Nat \ {0}
    /\ Adjustments \subseteq Int \ {0}
    /\ PageCounts \subseteq Nat \ {0}
    /\ Dates \subseteq Int
    /\ PriceInputs \subseteq Nat \ {0}
    /\ InitialBalances \subseteq Nat
    /\ InitialBaselines \subseteq Baseline
    /\ MayFail \in BOOLEAN
    /\ MaxRestarts \in Nat

VARIABLES
    balance,     \* wallets.balance_inr
    ledger,      \* wallet_transactions of each wallet, oldest first
    payments,    \* payments
    pdfs,        \* generated_pdfs (the seeded demo rows left out)
    price,       \* application_settings.per_page_cost
    rotation,    \* publisher_profiles.last_front_template_index
    baseline,    \* publisher_profiles.last_volume_number, last_published_date
    lock,        \* who holds the wallet row
    at,          \* where each request is
    job,         \* its payload
    seen,        \* what it has read
    reply,       \* what it has answered
    restarts

store == <<balance, ledger, payments, pdfs, price, rotation, baseline>>
vars == <<store, lock, at, job, seen, reply, restarts>>

DefaultRate == 5000
DemoSeedBalance == 215000
DemoSeedRecharge == 250000
DemoSeedCharge == 35000

EntryTypes == {"CREDIT", "DEBIT", "RECHARGE", "GENERATION_CHARGE"}
Entry == [type: EntryTypes, amount: Int, after: Int,
          by: Requests \union {NoRequest}]

Generations == [kind: {"generate"}, account: Accounts, pages: PageCounts,
                date: Dates]
Recharges == [kind: {"recharge"}, account: Accounts, amount: RechargeAmounts,
              order: Orders]
WalletAdjusts == [kind: {"adjust"}, account: Accounts, amount: Adjustments]
Jobs == Generations \union Recharges \union WalletAdjusts
NoJob == [kind |-> "none"]

NotSeen == [rate |-> 0, balance |-> 0,
            base |-> [valid |-> FALSE, number |-> 0, date |-> 0]]

Payment == [order: Orders, by: Requests, account: Accounts,
            amount: RechargeAmounts]
Pdf == [by: Requests, account: Wallets, pages: PageCounts, rate: Nat,
        cost: Nat, date: Dates]

Active == {"rate", "volume", "lock", "write"}

TypeOK ==
    /\ balance \in [Wallets -> Int]
    /\ ledger \in [Wallets -> Seq(Entry)]
    /\ payments \in SUBSET Payment
    /\ pdfs \in SUBSET Pdf
    /\ price \in Nat
    /\ rotation \in [Accounts -> Int]
    /\ baseline \in [Accounts -> Baseline]
    /\ lock \in [Wallets -> Requests \union {NoRequest}]
    /\ at \in [Requests -> Active \union {"idle", "done", "killed"}]
    /\ job \in [Requests -> Jobs \union {NoJob}]
    /\ seen \in [Requests -> [rate: Nat, balance: Int, base: Baseline]]
    /\ reply \in [Requests -> {"none", "ok", "insufficient", "negative",
                               "not found", "error"}]
    /\ restarts \in 0..MaxRestarts
-----------------------------------------------------------------------------
\* Mutant of ToPaise: rounding with the wrong sign, below zero near zero.
ToPaiseWrongSign(mils) == (mils - 5) \div 10

\* A price of three decimals is stored with two: fmt.Sprintf("%.2f").
ToPaise(mils) == (mils + 5) \div 10

\* What a handler charges per page: the stored price, unless it is not > 0.
RatePerPage == IF price > 0 THEN price ELSE DefaultRate

Cost(r) == job[r].pages * seen[r].rate

\* The rows 00001_saas_reset.sql writes for the demo wallet on every boot.
SeedEntries ==
    << [type |-> "RECHARGE", amount |-> DemoSeedRecharge,
        after |-> DemoSeedRecharge, by |-> NoRequest],
       [type |-> "GENERATION_CHARGE", amount |-> -DemoSeedCharge,
        after |-> DemoSeedBalance, by |-> NoRequest] >>

\* SaaSAdminCreatePublisher: an initial balance is posted as a CREDIT.
OpeningEntries(b) ==
    IF b > 0 THEN << [type |-> "CREDIT", amount |-> b, after |-> b,
                      by |-> NoRequest] >>
    ELSE <<>>

\* The first boot has seeded the demo account; onboarding has created the
\* others; the wizard may have set a volume baseline.
Init ==
    /\ \E opening \in [Wallets -> InitialBalances] :
          /\ balance = [opening EXCEPT ![Demo] = DemoSeedBalance]
          /\ ledger = [w \in Wallets |-> IF w = Demo THEN SeedEntries
                                         ELSE OpeningEntries(opening[w])]
    /\ payments = {}
    /\ pdfs = {}
    /\ price = DefaultRate
    /\ rotation = [a \in Accounts |-> -1]
    /\ baseline \in [Accounts -> InitialBaselines]
    /\ lock = [w \in Wallets |-> NoRequest]
    /\ at = [r \in Requests |-> "idle"]
    /\ job = [r \in Requests |-> NoJob]
    /\ seen = [r \in Requests |-> NotSeen]
    /\ reply = [r \in Requests |-> "none"]
    /\ restarts = 0
-----------------------------------------------------------------------------
\* A request passes the handler's guards.  Bodies a guard refuses (no pages,
\* no issue number, an amount that is not positive, a zero adjustment) touch
\* nothing and are left out of the payload sets.
Arrive(r) ==
    /\ at[r] = "idle"
    /\ \E j \in Jobs :
          /\ job' = [job EXCEPT ![r] = j]
          /\ at' = [at EXCEPT ![r] =
                      IF j.kind = "generate" THEN "rate" ELSE "lock"]
    /\ UNCHANGED <<store, lock, seen, reply, restarts>>

\* SaaSExecuteGeneration reads the price; on an error it keeps the default.
ReadRate(r) ==
    /\ at[r] = "rate"
    /\ \E rate \in {RatePerPage} \union (IF MayFail THEN {DefaultRate} ELSE {}) :
          seen' = [seen EXCEPT ![r].rate = rate]
    /\ at' = [at EXCEPT ![r] = "volume"]
    /\ UNCHANGED <<store, lock, job, reply, restarts>>

\* Then the volume baseline, also before its transaction begins; on an error
\* there is nothing to advance.
ReadVolume(r) ==
    /\ at[r] = "volume"
    /\ \/ seen' = [seen EXCEPT ![r].base = baseline[job[r].account]]
       \/ MayFail /\ seen' = [seen EXCEPT ![r].base = NotSeen.base]
    /\ at' = [at EXCEPT ![r] = "lock"]
    /\ UNCHANGED <<store, lock, job, reply, restarts>>

\* Mutant of LockFree: SELECT without FOR UPDATE.
LockFreeWithoutForUpdate(a) == TRUE

\* SELECT balance_inr FROM wallets ... FOR UPDATE waits for the row's holder.
\* An account without a wallet has no row to lock and a balance of zero.
LockFree(a) == a \in Wallets => lock[a] = NoRequest
LockedBalance(a) == IF a \in Wallets THEN balance[a] ELSE 0

\* Mutant of Refusal: an adjustment is not checked against the balance.
RefusalWithoutNegativeCheck(r) ==
    IF job[r].kind = "generate" /\ LockedBalance(job[r].account) < Cost(r)
    THEN "insufficient"
    ELSE IF job[r].kind = "adjust" /\ job[r].account \notin Wallets
    THEN "not found"
    ELSE "none"

\* The check each handler makes on the balance it has just read.
Refusal(r) ==
    LET a == job[r].account
    IN  CASE job[r].kind = "generate" ->
                IF LockedBalance(a) < Cost(r) THEN "insufficient" ELSE "none"
          [] job[r].kind = "adjust" ->
                IF a \notin Wallets THEN "not found"
                ELSE IF balance[a] + job[r].amount < 0 THEN "negative"
                ELSE "none"
          [] OTHER -> "none"

TakeLock(r) ==
    LET a == job[r].account
    IN  /\ at[r] = "lock"
        /\ LockFree(a)
        /\ Refusal(r) = "none"
        /\ lock' = [w \in Wallets |-> IF w = a THEN r ELSE lock[w]]
        /\ seen' = [seen EXCEPT ![r].balance = LockedBalance(a)]
        /\ at' = [at EXCEPT ![r] = "write"]
        /\ UNCHANGED <<store, job, reply, restarts>>

\* 402, 404 or 400: the deferred Rollback gives the lock back at once.
Refuse(r) ==
    /\ at[r] = "lock"
    /\ LockFree(job[r].account)
    /\ Refusal(r) # "none"
    /\ reply' = [reply EXCEPT ![r] = Refusal(r)]
    /\ at' = [at EXCEPT ![r] = "done"]
    /\ UNCHANGED <<store, lock, job, seen, restarts>>

\* BeginTx or the locking SELECT fails.  SaaSAdminWalletAdjust takes every
\* error of the SELECT for a missing wallet; SaaSSimulateRecharge falls
\* through to its simulated answer, or writes in an aborted transaction.
LockFails(r) ==
    /\ MayFail
    /\ at[r] = "lock"
    /\ \E answer \in CASE job[r].kind = "adjust" -> {"error", "not found"}
                       [] job[r].kind = "recharge" -> {"ok"}
                       [] OTHER -> {"error"} :
          reply' = [reply EXCEPT ![r] = answer]
    /\ at' = [at EXCEPT ![r] = "done"]
    /\ UNCHANGED <<store, lock, job, seen, restarts>>

\* Mutant of Finish: a path that forgets to end its transaction.
FinishHoldingLock(r, answer) ==
    /\ at' = [at EXCEPT ![r] = "done"]
    /\ reply' = [reply EXCEPT ![r] = answer]
    /\ UNCHANGED <<lock, job, seen, restarts>>

\* COMMIT and ROLLBACK end the transaction and the handler answers.
Finish(r, answer) ==
    /\ lock' = [w \in Wallets |-> IF lock[w] = r THEN NoRequest ELSE lock[w]]
    /\ at' = [at EXCEPT ![r] = "done"]
    /\ reply' = [reply EXCEPT ![r] = answer]
    /\ UNCHANGED <<job, seen, restarts>>

\* UPDATE wallets SET balance_inr = <computed from the locked read>, and one
\* row of wallet_transactions; neither where there is no wallet.
PostEntry(r, type, amount) ==
    LET a == job[r].account
        after == seen[r].balance + amount
    IN  /\ balance' = [w \in Wallets |-> IF w = a THEN after ELSE balance[w]]
        /\ ledger' = [w \in Wallets |->
                        IF w = a
                        THEN Append(ledger[w], [type |-> type,
                                                amount |-> amount,
                                                after |-> after, by |-> r])
                        ELSE ledger[w]]

\* SaaSExecuteGeneration, from the wallet update to its COMMIT.
CommitGeneration(r) ==
    LET a == job[r].account
    IN  /\ at[r] = "write" /\ job[r].kind = "generate"
        /\ PostEntry(r, "GENERATION_CHARGE", -Cost(r))
        /\ pdfs' = pdfs \union
              {[by |-> r, account |-> a, pages |-> job[r].pages,
                rate |-> seen[r].rate, cost |-> Cost(r), date |-> job[r].date]}
        /\ rotation' = [rotation EXCEPT ![a] = @ + 1]
        /\ baseline' =
              [baseline EXCEPT ![a] =
                 IF MovesBaseline(PublicationType[a], seen[r].base, job[r].date)
                 THEN AdvancedBaseline(PublicationType[a], seen[r].base,
                                       job[r].date)
                 ELSE @]
        /\ UNCHANGED <<payments, price>>
        /\ Finish(r, "ok")

\* Mutant of OrderTaken: razorpay_order_id without its UNIQUE.
OrderTakenWithoutUnique(order) == FALSE

OrderTaken(order) == \E p \in payments : p.order = order

\* SaaSSimulateRecharge with an order id no payment has used yet.
CommitRecharge(r) ==
    /\ at[r] = "write" /\ job[r].kind = "recharge"
    /\ ~OrderTaken(job[r].order)
    /\ PostEntry(r, "RECHARGE", job[r].amount)
    /\ payments' = payments \union
          {[order |-> job[r].order, by |-> r, account |-> job[r].account,
            amount |-> job[r].amount]}
    /\ UNCHANGED <<pdfs, price, rotation, baseline>>
    /\ Finish(r, "ok")

\* The UNIQUE razorpay_order_id fails the INSERT INTO payments, and with it
\* the transaction.  Every error is assigned to _, the COMMIT of the aborted
\* transaction rolls it back, and the handler answers success.
RepeatedOrder(r) ==
    /\ at[r] = "write" /\ job[r].kind = "recharge"
    /\ OrderTaken(job[r].order)
    /\ UNCHANGED store
    /\ Finish(r, "ok")

\* SaaSAdminWalletAdjust.  The COMMIT can take effect and its acknowledgement
\* be lost: the handler then answers 500 for an adjustment it has made.
CommitAdjust(r) ==
    /\ at[r] = "write" /\ job[r].kind = "adjust"
    /\ PostEntry(r, IF job[r].amount < 0 THEN "DEBIT" ELSE "CREDIT",
                 job[r].amount)
    /\ UNCHANGED <<payments, pdfs, price, rotation, baseline>>
    /\ \/ Finish(r, "ok")
       \/ MayFail /\ Finish(r, "error")

\* Mutants of StatementFails: the debit, or the rotation, is written outside
\* the transaction and outlives its rollback.
StatementFailsAfterDebit(r) ==
    /\ MayFail
    /\ at[r] = "write" /\ job[r].kind = "generate"
    /\ PostEntry(r, "GENERATION_CHARGE", -Cost(r))
    /\ UNCHANGED <<payments, pdfs, price, rotation, baseline>>
    /\ Finish(r, "error")

StatementFailsAfterRotation(r) ==
    /\ MayFail
    /\ at[r] = "write" /\ job[r].kind = "generate"
    /\ rotation' = [rotation EXCEPT ![job[r].account] = @ + 1]
    /\ UNCHANGED <<balance, ledger, payments, pdfs, price, baseline>>
    /\ Finish(r, "error")

\* A statement of the transaction fails.  Two handlers notice and answer 500;
\* the recharge handler ignores it, as above.
StatementFails(r) ==
    /\ MayFail
    /\ at[r] = "write"
    /\ UNCHANGED store
    /\ Finish(r, IF job[r].kind = "recharge" THEN "ok" ELSE "error")

\* COMMIT fails and takes no effect.  Only SaaSAdminWalletAdjust looks at its error.
CommitFails(r) ==
    /\ MayFail
    /\ at[r] = "write"
    /\ UNCHANGED store
    /\ Finish(r, IF job[r].kind = "adjust" THEN "error" ELSE "ok")

\* SaaSAdminUpdatePricing: one upsert.
SetPrice(mils) ==
    /\ price' = ToPaise(mils)
    /\ UNCHANGED <<balance, ledger, payments, pdfs, rotation, baseline, lock,
                   at, job, seen, reply, restarts>>

\* The server dies and boots again.  PostgreSQL rolls back the transactions
\* of the lost connections; runMigrations replays 00001_saas_reset.sql, which
\* puts back the price and the demo wallet and repeats its ledger rows.
Restart ==
    /\ restarts < MaxRestarts
    /\ restarts' = restarts + 1
    /\ at' = [r \in Requests |-> IF at[r] \in Active THEN "killed" ELSE at[r]]
    /\ lock' = [w \in Wallets |-> NoRequest]
    /\ price' = DefaultRate
    /\ balance' = [balance EXCEPT ![Demo] = DemoSeedBalance]
    /\ ledger' = [ledger EXCEPT ![Demo] = @ \o SeedEntries]
    /\ UNCHANGED <<payments, pdfs, rotation, baseline, job, seen, reply>>

\* What a handler does while the database answers it, and while it does not.
Serve(r) ==
    \/ ReadRate(r)
    \/ ReadVolume(r)
    \/ TakeLock(r)
    \/ Refuse(r)
    \/ CommitGeneration(r)
    \/ CommitRecharge(r)
    \/ RepeatedOrder(r)
    \/ CommitAdjust(r)

Fault(r) ==
    \/ LockFails(r)
    \/ StatementFails(r)
    \/ CommitFails(r)

Next ==
    \/ \E r \in Requests : Arrive(r) \/ Serve(r) \/ Fault(r)
    \/ \E mils \in PriceInputs : SetPrice(mils)
    \/ Restart

Spec == Init /\ [][Next]_vars

\* A handler that has started runs on: the Go scheduler and PostgreSQL keep
\* serving it.  Nobody has to send a request, change a price or restart, and no
\* request can count on a fault to end its wait.
FairSpec == Spec /\ \A r \in Requests : WF_vars(Serve(r))
-----------------------------------------------------------------------------
\* The wallets the migrations leave alone.
Kept == Wallets \ {Demo}

Wallet == INSTANCE WalletLedger WITH
              Accounts <- Kept,
              Sources <- Requests \union {NoRequest},
              balance <- [w \in Kept |-> balance[w]],
              ledger <- [w \in Kept |-> ledger[w]]

\* The ledger of a wallet explains its balance row by row, whatever the
\* handlers interleave: no lost update, no entry without its balance change.
\* (The three handlers of the wallet row; not the demo wallet, which the
\* migrations overwrite.)
LedgerExplainsBalance == Wallet!LedgerExplainsBalance

\* Every step of this module posts one entry to one wallet, or none.
ImplementsWalletLedger == Wallet!Spec

\* No wallet goes below zero: the balance a handler checked under the row
\* lock is the balance it subtracts from (the demo wallet included).
NeverOverdrawn == \A w \in Wallets : balance[w] >= 0

\* The ledger entries a request has written, as <<wallet, position>>.
Positions == UNION {{w} \X (1..Len(ledger[w])) : w \in Wallets}
EntriesBy(r) == {e \in Positions : ledger[e[1]][e[2]].by = r}

\* A publisher pays for exactly the editions in the archive: each archived
\* edition has one GENERATION_CHARGE of its pages at its rate, and each charge
\* an edition, though either could fail half-way (SaaSExecuteGeneration).
ChargesMatchEditions ==
    /\ \A p \in pdfs :
          /\ p.cost = p.pages * p.rate
          /\ \E e \in EntriesBy(p.by) :
                /\ EntriesBy(p.by) = {e}
                /\ e[1] = p.account
                /\ ledger[e[1]][e[2]].amount = -p.cost
    /\ \A w \in Wallets : \A i \in 1..Len(ledger[w]) :
          ledger[w][i].type = "GENERATION_CHARGE" /\ ledger[w][i].by # NoRequest
             => \E p \in pdfs : p.by = ledger[w][i].by /\ p.account = w

\* A Razorpay order is credited at most once, to the wallet and for the amount
\* its payment row says, and a payment row of an account with a wallet has
\* been credited (SaaSSimulateRecharge ignores every error on the way).
PaymentsMatchCredits ==
    /\ \A p, q \in payments : p.order = q.order => p = q
    /\ \A p \in payments : p.account \in Wallets =>
          \E e \in EntriesBy(p.by) :
             /\ EntriesBy(p.by) = {e}
             /\ e[1] = p.account
             /\ ledger[e[1]][e[2]].amount = p.amount
    /\ \A w \in Wallets : \A i \in 1..Len(ledger[w]) :
          ledger[w][i].type = "RECHARGE" /\ ledger[w][i].by # NoRequest
             => \E p \in payments : p.by = ledger[w][i].by /\ p.account = w

\* A request that was refused, and a generation answered 500, have left no
\* row behind: every early return after the debit rolls it back.
RefusedLeavesNoTrace ==
    \A r \in Requests :
        (\/ reply[r] \in {"insufficient", "negative", "not found"}
         \/ reply[r] = "error" /\ job[r].kind = "generate")
        => /\ EntriesBy(r) = {}
           /\ \A p \in pdfs \union payments : p.by # r

\* The front-page rotation has advanced once per archived edition, so no two
\* editions of a publisher were given the same index (the comment at
\* saas_handlers.go:1510), even when a generation fails after advancing it.
RotationCountsEditions ==
    \A a \in Accounts :
        rotation[a] = Cardinality({p \in pdfs : p.account = a}) - 1

\* A generation whose baseline is still the stored one when it commits moves
\* the volume baseline forward or not at all.
CurrentReadMovesForward ==
    [][\A r \in Requests :
          LET a == job[r].account
          IN  (/\ at[r] = "write" /\ at'[r] = "done"
               /\ baseline'[a] # baseline[a]
               /\ seen[r].base = baseline[a])
              => /\ baseline'[a].date > baseline[a].date
                 /\ baseline'[a].number > baseline[a].number]_vars

\* What the comment at saas_handlers.go:1520-1524 says of every generation:
\* the baseline date never drifts backwards.
BaselineNeverDriftsBack ==
    [][\A a \in Accounts : baseline'[a].date >= baseline[a].date]_vars

\* What the answer of SaaSSimulateRecharge and the wallet page say: a recharge
\* answered with success has been credited to the wallet.
AnsweredRechargeIsCredited ==
    \A r \in Requests :
        reply[r] = "ok" /\ job[r].kind = "recharge" /\ job[r].account \in Wallets
        => EntriesBy(r) # {}

\* A request that has started is answered, unless a restart kills it: the row
\* lock it may wait for is always given back.
EveryRequestEnds ==
    \A r \in Requests : at[r] \in Active ~> at[r] \in {"done", "killed"}
=============================================================================
