--------------------------- MODULE Billing_proofs ---------------------------
(***************************************************************************)
(* What holds of Billing for every set of accounts, requests and inputs.   *)
(***************************************************************************)
EXTENDS Billing, TLAPS, FiniteSetTheorems, SequenceTheorems

\* A request that is past arrival has a payload.
JobsInv == \A r \in Requests : at[r] \in Active => job[r] \in Jobs

-----------------------------------------------------------------------------
\* Rows of the right shape.

\* The rows the migration seeds are ledger entries.
LEMMA SeedType == SeedEntries \in Seq(Entry)
  <1>1. [type |-> "RECHARGE", amount |-> DemoSeedRecharge,
         after |-> DemoSeedRecharge, by |-> NoRequest] \in Entry
    BY DEF Entry, EntryTypes, DemoSeedRecharge
  <1>2. [type |-> "GENERATION_CHARGE", amount |-> -DemoSeedCharge,
         after |-> DemoSeedBalance, by |-> NoRequest] \in Entry
    BY DEF Entry, EntryTypes, DemoSeedCharge, DemoSeedBalance
  <1> QED BY <1>1, <1>2 DEF SeedEntries

\* So are the opening entries of any wallet.
LEMMA OpeningType ==
  ASSUME NEW b \in Nat
  PROVE  OpeningEntries(b) \in Seq(Entry)
  <1>1. CASE b > 0
    <2>1. [type |-> "CREDIT", amount |-> b, after |-> b, by |-> NoRequest]
            \in Entry
      BY DEF Entry, EntryTypes
    <2> QED BY <1>1, <2>1 DEF OpeningEntries
  <1>2. CASE ~(b > 0)
    BY <1>2 DEF OpeningEntries
  <1> QED BY <1>1, <1>2

\* The blank reads of a request are well-typed.
LEMMA NotSeenType == NotSeen \in [rate: Nat, balance: Int, base: Baseline]
  BY DEF NotSeen, Baseline

\* What the payload of each kind of request holds.
LEMMA JobFields ==
  ASSUME NEW j \in Jobs
  PROVE  /\ j.account \in Accounts
         /\ j.kind \in {"generate", "recharge", "adjust"}
         /\ j.kind = "generate" => j.pages \in PageCounts /\ j.date \in Dates
         /\ j.kind = "recharge" => j.amount \in RechargeAmounts
                                   /\ j.order \in Orders
         /\ j.kind = "adjust" => j.amount \in Adjustments
  BY DEF Jobs, Generations, Recharges, WalletAdjusts

\* A rate read from the settings is a number of paise, or the default.
LEMMA RateType == price \in Nat => RatePerPage \in Nat
  BY DEF RatePerPage, DefaultRate

\* An edition moves the baseline to a baseline.
LEMMA AdvancedType ==
  ASSUME NEW type, NEW base \in Baseline, NEW date \in Int
  PROVE  AdvancedBaseline(type, base, date) \in Baseline
  BY DEF AdvancedBaseline, NextVolume, Increment, RoundWeeks, Baseline

\* The cost of an edition is a natural number of paise.
LEMMA CostType ==
  ASSUME TypeOK, NEW r \in Requests, job[r] \in Generations
  PROVE  Cost(r) \in Nat
  <1>1. job[r].pages \in Nat
    BY InputsAssumption DEF Generations
  <1>2. seen[r].rate \in Nat
    BY DEF TypeOK
  <1> QED BY <1>1, <1>2 DEF Cost

\* The answers of Finish.
Answers == {"none", "ok", "insufficient", "negative", "not found", "error"}

\* The two halves of TypeOK: the database, and the requests.
StoreOK ==
    /\ balance \in [Wallets -> Int]
    /\ ledger \in [Wallets -> Seq(Entry)]
    /\ payments \in SUBSET Payment
    /\ pdfs \in SUBSET Pdf
    /\ price \in Nat
    /\ rotation \in [Accounts -> Int]
    /\ baseline \in [Accounts -> Baseline]

RequestsOK ==
    /\ lock \in [Wallets -> Requests \union {NoRequest}]
    /\ at \in [Requests -> Active \union {"idle", "done", "killed"}]
    /\ job \in [Requests -> Jobs \union {NoJob}]
    /\ seen \in [Requests -> [rate: Nat, balance: Int, base: Baseline]]
    /\ reply \in [Requests -> Answers]
    /\ restarts \in 0..MaxRestarts
    /\ JobsInv

\* The type invariant splits into a half about tables and one about requests.
LEMMA Halves == TypeOK /\ JobsInv <=> StoreOK /\ RequestsOK
  BY DEF TypeOK, StoreOK, RequestsOK, Answers

\* A step that writes no table keeps the half about tables.
LEMMA StoreStutters ==
  ASSUME StoreOK, UNCHANGED store
  PROVE  StoreOK'
  BY DEF StoreOK, store

\* Ending a request keeps the half about requests.
LEMMA FinishType ==
  ASSUME RequestsOK, NEW r \in Requests, NEW answer \in Answers,
         Finish(r, answer)
  PROVE  RequestsOK'
  BY DEF RequestsOK, JobsInv, Finish, Active

\* Posting an entry keeps the types of balances and ledgers.
LEMMA PostEntryType ==
  ASSUME StoreOK, RequestsOK, NEW r \in Requests,
         NEW type \in EntryTypes, NEW amount \in Int,
         PostEntry(r, type, amount)
  PROVE  balance' \in [Wallets -> Int] /\ ledger' \in [Wallets -> Seq(Entry)]
  <1> DEFINE after == seen[r].balance + amount
             row == [type |-> type, amount |-> amount, after |-> after,
                     by |-> r]
  <1>1. after \in Int
    BY DEF RequestsOK
  <1>2. row \in Entry
    BY <1>1 DEF Entry
  <1> HIDE DEF after, row
  <1>3. balance' = [w \in Wallets |-> IF w = job[r].account THEN after
                                      ELSE balance[w]]
    BY DEF PostEntry, after
  <1>4. ledger' = [w \in Wallets |-> IF w = job[r].account
                                     THEN Append(ledger[w], row)
                                     ELSE ledger[w]]
    BY DEF PostEntry, after, row
  <1>5. \A w \in Wallets : ledger[w] \in Seq(Entry)
                           /\ Append(ledger[w], row) \in Seq(Entry)
    BY <1>2 DEF StoreOK
  <1> QED BY <1>1, <1>3, <1>4, <1>5 DEF StoreOK

-----------------------------------------------------------------------------
\* One lemma for each part of Next: the type invariant survives it.

\* The initial states are well-typed.
LEMMA InitType == Init => StoreOK /\ RequestsOK
  <1> SUFFICES ASSUME Init PROVE StoreOK /\ RequestsOK
    OBVIOUS
  <1>1. PICK opening \in [Wallets -> InitialBalances] :
           /\ balance = [opening EXCEPT ![Demo] = DemoSeedBalance]
           /\ ledger = [w \in Wallets |-> IF w = Demo THEN SeedEntries
                                          ELSE OpeningEntries(opening[w])]
    BY DEF Init
  <1>2. balance \in [Wallets -> Int]
    <2>1. InitialBalances \subseteq Int /\ DemoSeedBalance \in Int
      BY InputsAssumption DEF DemoSeedBalance
    <2> HIDE DEF DemoSeedBalance
    <2> QED BY <1>1, <2>1
  <1>3. ledger \in [Wallets -> Seq(Entry)]
    <2>1. \A w \in Wallets : opening[w] \in Nat
      BY InputsAssumption
    <2>2. \A w \in Wallets : OpeningEntries(opening[w]) \in Seq(Entry)
      BY <2>1, OpeningType
    <2> QED BY <1>1, <2>2, SeedType
  <1>4. baseline \in [Accounts -> Baseline]
    BY InputsAssumption DEF Init
  <1>5. StoreOK
    BY <1>2, <1>3, <1>4 DEF Init, StoreOK, DefaultRate
  <1>6. RequestsOK
    <2>1. seen \in [Requests -> [rate: Nat, balance: Int, base: Baseline]]
      BY NotSeenType DEF Init
    <2>2. 0 \in 0..MaxRestarts
      BY InputsAssumption
    <2> QED BY <2>1, <2>2 DEF Init, RequestsOK, JobsInv, Active, Answers
  <1> QED BY <1>5, <1>6

\* A request arrives: types are kept.
LEMMA ArriveType ==
  ASSUME StoreOK, RequestsOK, NEW r \in Requests, Arrive(r)
  PROVE  StoreOK' /\ RequestsOK'
  <1>1. StoreOK'
    BY StoreStutters DEF Arrive
  <1>2. PICK j \in Jobs :
          /\ job' = [job EXCEPT ![r] = j]
          /\ at' = [at EXCEPT ![r] =
                      IF j.kind = "generate" THEN "rate" ELSE "lock"]
    BY DEF Arrive
  <1>3. RequestsOK'
    BY <1>2 DEF Arrive, RequestsOK, JobsInv, Active
  <1> QED BY <1>1, <1>3

\* A generation reads the price: types are kept.
LEMMA ReadRateType ==
  ASSUME StoreOK, RequestsOK, NEW r \in Requests, ReadRate(r)
  PROVE  StoreOK' /\ RequestsOK'
  <1>1. StoreOK'
    BY StoreStutters DEF ReadRate
  <1>2. PICK rate \in {RatePerPage, DefaultRate} :
           seen' = [seen EXCEPT ![r].rate = rate]
    BY DEF ReadRate
  <1>3. rate \in Nat
    BY <1>2, RateType DEF StoreOK, DefaultRate
  <1>4. seen' \in [Requests -> [rate: Nat, balance: Int, base: Baseline]]
    BY <1>2, <1>3 DEF RequestsOK
  <1>5. RequestsOK'
    BY <1>4 DEF ReadRate, RequestsOK, JobsInv, Active
  <1> QED BY <1>1, <1>5

\* A generation reads the volume baseline: types are kept.
LEMMA ReadVolumeType ==
  ASSUME StoreOK, RequestsOK, NEW r \in Requests, ReadVolume(r)
  PROVE  StoreOK' /\ RequestsOK'
  <1>1. StoreOK'
    BY StoreStutters DEF ReadVolume
  <1>2. job[r] \in Jobs
    BY DEF ReadVolume, RequestsOK, JobsInv, Active
  <1>3. baseline[job[r].account] \in Baseline /\ NotSeen.base \in Baseline
    BY <1>2, JobFields, NotSeenType DEF StoreOK
  <1>4. PICK base \in Baseline : seen' = [seen EXCEPT ![r].base = base]
    BY <1>3 DEF ReadVolume
  <1>5. seen' \in [Requests -> [rate: Nat, balance: Int, base: Baseline]]
    BY <1>4 DEF RequestsOK
  <1>6. RequestsOK'
    BY <1>5 DEF ReadVolume, RequestsOK, JobsInv, Active
  <1> QED BY <1>1, <1>6

\* The balance read under the row lock is an integer.
LEMMA LockedBalanceType ==
  ASSUME StoreOK, NEW a PROVE LockedBalance(a) \in Int
  BY DEF LockedBalance, StoreOK

\* A request takes the wallet lock: types are kept.
LEMMA TakeLockType ==
  ASSUME StoreOK, RequestsOK, NEW r \in Requests, TakeLock(r)
  PROVE  StoreOK' /\ RequestsOK'
  <1>1. StoreOK'
    BY StoreStutters DEF TakeLock
  <1>2. PICK b \in Int : seen' = [seen EXCEPT ![r].balance = b]
    BY LockedBalanceType DEF TakeLock
  <1>3. seen' \in [Requests -> [rate: Nat, balance: Int, base: Baseline]]
    BY <1>2 DEF RequestsOK
  <1>4. lock' \in [Wallets -> Requests \union {NoRequest}]
    BY DEF TakeLock, RequestsOK
  <1>5. RequestsOK'
    BY <1>3, <1>4 DEF TakeLock, RequestsOK, JobsInv, Active
  <1> QED BY <1>1, <1>5

\* A refusal is one of the answers.
LEMMA RefusalType == ASSUME NEW r PROVE Refusal(r) \in Answers
  BY DEF Refusal, Answers

\* A request is refused: types are kept.
LEMMA RefuseType ==
  ASSUME StoreOK, RequestsOK, NEW r \in Requests, Refuse(r)
  PROVE  StoreOK' /\ RequestsOK'
  <1>1. StoreOK'
    BY StoreStutters DEF Refuse
  <1>2. RequestsOK'
    BY RefusalType DEF Refuse, RequestsOK, JobsInv, Active
  <1> QED BY <1>1, <1>2

\* The locking read fails: types are kept.
LEMMA LockFailsType ==
  ASSUME StoreOK, RequestsOK, NEW r \in Requests, LockFails(r)
  PROVE  StoreOK' /\ RequestsOK'
  <1>1. StoreOK'
    BY StoreStutters DEF LockFails
  <1>2. PICK answer \in Answers : reply' = [reply EXCEPT ![r] = answer]
    BY DEF LockFails, Answers
  <1>3. RequestsOK'
    BY <1>2 DEF LockFails, RequestsOK, JobsInv, Active
  <1> QED BY <1>1, <1>3

\* A generation commits: types are kept.
LEMMA CommitGenerationType ==
  ASSUME StoreOK, RequestsOK, NEW r \in Requests, CommitGeneration(r),
         job[r] \in Generations, job[r].account \in Wallets
  PROVE  StoreOK' /\ RequestsOK'
  <1> DEFINE a == job[r].account
  <1>1. a \in Wallets /\ a \in Accounts
    BY AccountsAssumption
  <1>2. Cost(r) \in Nat /\ seen[r].rate \in Nat
    BY CostType, Halves DEF RequestsOK
  <1>3. balance' \in [Wallets -> Int] /\ ledger' \in [Wallets -> Seq(Entry)]
    <2>1. -Cost(r) \in Int
      BY <1>2
    <2> QED BY <2>1, PostEntryType DEF CommitGeneration, EntryTypes
  <1>4. pdfs' \in SUBSET Pdf
    <2> DEFINE pdf == [by |-> r, account |-> a, pages |-> job[r].pages,
                       rate |-> seen[r].rate, cost |-> Cost(r),
                       date |-> job[r].date]
    <2>1. pdf \in Pdf
      BY <1>1, <1>2 DEF Pdf, Generations
    <2>2. pdfs' = pdfs \union {pdf}
      BY DEF CommitGeneration
    <2> HIDE DEF pdf
    <2> QED BY <2>1, <2>2 DEF StoreOK
  <1>5. rotation' \in [Accounts -> Int]
    BY <1>1 DEF CommitGeneration, StoreOK
  <1>6. baseline' \in [Accounts -> Baseline]
    <2>1. seen[r].base \in Baseline /\ job[r].date \in Int
      BY InputsAssumption DEF RequestsOK, Generations
    <2>2. AdvancedBaseline(PublicationType[a], seen[r].base, job[r].date)
            \in Baseline
      BY <2>1, AdvancedType
    <2> HIDE DEF a
    <2>3. PICK new \in Baseline \union {baseline[a]} :
             baseline' = [baseline EXCEPT ![a] = new]
      BY <2>2 DEF CommitGeneration, a
    <2> QED BY <1>1, <2>3 DEF StoreOK
  <1>7. StoreOK'
    BY <1>3, <1>4, <1>5, <1>6 DEF CommitGeneration, StoreOK
  <1>8. RequestsOK'
    BY FinishType DEF CommitGeneration, Answers
  <1> QED BY <1>7, <1>8

\* A recharge commits: types are kept.
LEMMA CommitRechargeType ==
  ASSUME StoreOK, RequestsOK, NEW r \in Requests, CommitRecharge(r),
         job[r] \in Recharges
  PROVE  StoreOK' /\ RequestsOK'
  <1>1. job[r].amount \in Int
    <2>1. job[r].amount \in RechargeAmounts
      BY DEF Recharges
    <2>2. RechargeAmounts \subseteq Int
      BY InputsAssumption
    <2> QED BY <2>1, <2>2
  <1>2. balance' \in [Wallets -> Int] /\ ledger' \in [Wallets -> Seq(Entry)]
    BY <1>1, PostEntryType DEF CommitRecharge, EntryTypes
  <1>3. payments' \in SUBSET Payment
    <2> DEFINE payment == [order |-> job[r].order, by |-> r,
                           account |-> job[r].account,
                           amount |-> job[r].amount]
    <2>1. payment \in Payment
      BY DEF Payment, Recharges
    <2>2. payments' = payments \union {payment}
      BY DEF CommitRecharge
    <2> HIDE DEF payment
    <2> QED BY <2>1, <2>2 DEF StoreOK
  <1>4. StoreOK'
    BY <1>2, <1>3 DEF CommitRecharge, StoreOK
  <1>5. RequestsOK'
    BY FinishType DEF CommitRecharge, Answers
  <1> QED BY <1>4, <1>5

\* An adjustment commits: types are kept.
LEMMA CommitAdjustType ==
  ASSUME StoreOK, RequestsOK, NEW r \in Requests, CommitAdjust(r),
         job[r] \in WalletAdjusts
  PROVE  StoreOK' /\ RequestsOK'
  <1>1. job[r].amount \in Int
    <2>1. job[r].amount \in Adjustments
      BY DEF WalletAdjusts
    <2> QED BY <2>1, InputsAssumption
  <1>2. PICK type \in EntryTypes : PostEntry(r, type, job[r].amount)
    BY DEF CommitAdjust, EntryTypes
  <1>3. balance' \in [Wallets -> Int] /\ ledger' \in [Wallets -> Seq(Entry)]
    BY <1>1, <1>2, PostEntryType
  <1>4. StoreOK'
    BY <1>3 DEF CommitAdjust, StoreOK
  <1>5. RequestsOK'
    BY FinishType DEF CommitAdjust, Answers
  <1> QED BY <1>4, <1>5

\* A transaction is rolled back: types are kept.
LEMMA UnpostedType ==
  ASSUME StoreOK, RequestsOK, NEW r \in Requests,
         RepeatedOrder(r) \/ StatementFails(r) \/ CommitFails(r)
  PROVE  StoreOK' /\ RequestsOK'
  <1>1. StoreOK'
    BY StoreStutters DEF RepeatedOrder, StatementFails, CommitFails
  <1>2. PICK answer \in Answers : Finish(r, answer)
    BY DEF RepeatedOrder, StatementFails, CommitFails, Answers
  <1> QED BY <1>1, <1>2, FinishType

\* An admin sets the price: types are kept.
LEMMA SetPriceType ==
  ASSUME StoreOK, RequestsOK, NEW mils \in PriceInputs, SetPrice(mils)
  PROVE  StoreOK' /\ RequestsOK'
  <1>1. mils \in Nat
    BY InputsAssumption
  <1>2. price' \in Nat
    BY <1>1 DEF SetPrice, ToPaise
  <1>3. StoreOK'
    BY <1>2 DEF SetPrice, StoreOK
  <1>4. RequestsOK'
    BY DEF SetPrice, RequestsOK, JobsInv
  <1> QED BY <1>3, <1>4

\* A restart keeps the types.
LEMMA RestartType ==
  ASSUME StoreOK, RequestsOK, Restart
  PROVE  StoreOK' /\ RequestsOK'
  <1>1. balance' \in [Wallets -> Int]
    <2>1. DemoSeedBalance \in Int
      BY DEF DemoSeedBalance
    <2> QED BY <2>1 DEF Restart, StoreOK
  <1>2. ledger' \in [Wallets -> Seq(Entry)]
    <2>1. ledger[Demo] \o SeedEntries \in Seq(Entry)
      BY SeedType, AccountsAssumption DEF StoreOK
    <2> QED BY <2>1 DEF Restart, StoreOK
  <1>3. StoreOK'
    BY <1>1, <1>2 DEF Restart, StoreOK, DefaultRate
  <1>4. restarts' \in 0..MaxRestarts
    BY InputsAssumption DEF Restart, RequestsOK
  <1>5. RequestsOK'
    BY <1>4 DEF Restart, RequestsOK, JobsInv, Active
  <1> QED BY <1>3, <1>5

-----------------------------------------------------------------------------
\* What the row lock protects.

\* The rate a generation has read is positive.
RatesInv ==
    \A r \in Requests :
        at[r] \in {"volume", "lock", "write"} /\ job[r] \in Generations
        => seen[r].rate > 0

\* A request between its check and its COMMIT holds the wallet row, the
\* balance it checked is the balance of the wallet, and it passed the check.
\* Only a recharge gets that far without a wallet.
Committable(r) ==
    LET a == job[r].account
    IN  IF a \in Wallets
        THEN /\ lock[a] = r
             /\ seen[r].balance = balance[a]
             /\ job[r] \in Generations => Cost(r) <= seen[r].balance
             /\ job[r] \in WalletAdjusts => seen[r].balance + job[r].amount >= 0
        ELSE job[r] \in Recharges

LockInv == \A r \in Requests : at[r] = "write" => Committable(r)

\* The kind of a job says which of the three sets it is in.
LEMMA JobKinds ==
  ASSUME NEW j \in Jobs
  PROVE  /\ j.kind = "generate" <=> j \in Generations
         /\ j.kind = "recharge" <=> j \in Recharges
         /\ j.kind = "adjust" <=> j \in WalletAdjusts
  BY DEF Jobs, Generations, Recharges, WalletAdjusts

\* No page is free: a rate of zero falls back to the default.
LEMMA RatePositive == price \in Nat => RatePerPage > 0
  BY DEF RatePerPage, DefaultRate

\* The product of two positive numbers is positive.
LEMMA ProductPositive ==
  ASSUME NEW m \in Nat \ {0}, NEW n \in Nat, n > 0
  PROVE  m * n > 0
  OBVIOUS

\* A generation that is not refused is for an account with a wallet.
LEMMA CheckedCost ==
  ASSUME StoreOK, RequestsOK, RatesInv, NEW r \in Requests,
         at[r] = "lock", job[r] \in Generations, Refusal(r) = "none"
  PROVE  /\ Cost(r) <= LockedBalance(job[r].account)
         /\ job[r].account \in Wallets
  <1>1. Cost(r) \in Nat
    BY CostType, Halves
  <1>2. Cost(r) > 0
    <2>1. job[r].pages \in Nat \ {0}
      BY InputsAssumption DEF Generations
    <2>2. seen[r].rate \in Nat /\ seen[r].rate > 0
      BY DEF RequestsOK, RatesInv
    <2> QED BY <2>1, <2>2, ProductPositive DEF Cost
  <1>3. job[r].kind = "generate"
    BY DEF Generations
  <1>4. ~(LockedBalance(job[r].account) < Cost(r))
    BY <1>3 DEF Refusal
  <1>5. LockedBalance(job[r].account) \in Int
    BY LockedBalanceType
  <1> HIDE DEF Cost
  <1>6. Cost(r) <= LockedBalance(job[r].account)
    BY <1>1, <1>4, <1>5
  <1> QED BY <1>1, <1>2, <1>6 DEF LockedBalance

\* An adjustment that passed its check leaves no negative balance.
LEMMA CheckedAdjustment ==
  ASSUME StoreOK, RequestsOK, NEW r \in Requests,
         job[r] \in WalletAdjusts, Refusal(r) = "none"
  PROVE  /\ job[r].account \in Wallets
         /\ LockedBalance(job[r].account) + job[r].amount >= 0
  <1>1. job[r].kind = "adjust"
    BY DEF WalletAdjusts
  <1>2. job[r].account \in Wallets
    BY <1>1 DEF Refusal
  <1>3. ~(balance[job[r].account] + job[r].amount < 0)
    BY <1>1, <1>2 DEF Refusal
  <1>4. balance[job[r].account] \in Int /\ job[r].amount \in Int
    BY <1>2, InputsAssumption DEF StoreOK, WalletAdjusts
  <1> QED BY <1>2, <1>3, <1>4 DEF LockedBalance

\* What a step must leave alone for a request that is about to commit.
LEMMA StillCommittable ==
  ASSUME NEW q \in Requests, Committable(q),
         job'[q] = job[q], seen'[q] = seen[q],
         \A w \in Wallets : lock[w] = q => lock'[w] = q /\ balance'[w] = balance[w]
  PROVE  Committable(q)'
  BY DEF Committable, Cost

\* One lemma for each action that reaches, holds or leaves the row lock.

IInv == StoreOK /\ RequestsOK /\ RatesInv /\ LockInv /\ NeverOverdrawn

\* The inductive invariant holds initially.
LEMMA InitInv == Init => IInv
  <1> SUFFICES ASSUME Init PROVE IInv
    OBVIOUS
  <1>1. StoreOK /\ RequestsOK
    BY InitType
  <1>2. RatesInv /\ LockInv
    BY DEF Init, RatesInv, LockInv
  <1>3. NeverOverdrawn
    <2>1. PICK opening \in [Wallets -> InitialBalances] :
             balance = [opening EXCEPT ![Demo] = DemoSeedBalance]
      BY DEF Init
    <2>2. InitialBalances \subseteq Nat /\ DemoSeedBalance \in Nat
      BY InputsAssumption DEF DemoSeedBalance
    <2> HIDE DEF DemoSeedBalance
    <2>3. balance \in [Wallets -> Nat]
      BY <2>1, <2>2
    <2> QED BY <2>3 DEF NeverOverdrawn
  <1> QED BY <1>1, <1>2, <1>3 DEF IInv

\* A request arrives: the invariant is kept.
LEMMA ArriveInv ==
  ASSUME IInv, NEW r \in Requests, Arrive(r)
  PROVE  IInv'
  <1>1. StoreOK' /\ RequestsOK'
    BY ArriveType DEF IInv
  <1>2. PICK j \in Jobs :
          /\ job' = [job EXCEPT ![r] = j]
          /\ at' = [at EXCEPT ![r] =
                      IF j.kind = "generate" THEN "rate" ELSE "lock"]
    BY DEF Arrive
  <1>3. RatesInv'
    BY <1>2, JobKinds DEF Arrive, IInv, RatesInv, RequestsOK
  <1>4. LockInv'
    <2> SUFFICES ASSUME NEW q \in Requests, at'[q] = "write"
                 PROVE  Committable(q)'
      BY DEF LockInv
    <2>1. q # r /\ at[q] = "write" /\ job'[q] = job[q]
      BY <1>2 DEF IInv, RequestsOK
    <2> QED BY <2>1, StillCommittable DEF Arrive, IInv, LockInv, store
  <1>5. NeverOverdrawn'
    BY DEF Arrive, IInv, NeverOverdrawn, store
  <1> QED BY <1>1, <1>3, <1>4, <1>5 DEF IInv

\* A generation reads the price: the invariant is kept.
LEMMA ReadRateInv ==
  ASSUME IInv, NEW r \in Requests, ReadRate(r)
  PROVE  IInv'
  <1>1. StoreOK' /\ RequestsOK'
    BY ReadRateType DEF IInv
  <1>2. PICK rate \in {RatePerPage, DefaultRate} :
           seen' = [seen EXCEPT ![r].rate = rate]
    BY DEF ReadRate
  <1>3. rate > 0
    BY <1>2, RatePositive DEF IInv, StoreOK, DefaultRate
  <1>4. seen'[r].rate = rate /\ \A q \in Requests \ {r} : seen'[q] = seen[q]
    BY <1>2 DEF IInv, RequestsOK
  <1>5. \A q \in Requests \ {r} : at'[q] = at[q]
    BY DEF ReadRate, IInv, RequestsOK
  <1>6. RatesInv'
    BY <1>3, <1>4, <1>5 DEF ReadRate, IInv, RatesInv, RequestsOK
  <1>7. LockInv'
    <2> SUFFICES ASSUME NEW q \in Requests, at'[q] = "write"
                 PROVE  Committable(q)'
      BY DEF LockInv
    <2>1. q # r /\ at[q] = "write"
      BY DEF ReadRate, IInv, RequestsOK
    <2> QED BY <1>4, <2>1, StillCommittable DEF ReadRate, IInv, LockInv, store
  <1>8. NeverOverdrawn'
    BY DEF ReadRate, IInv, NeverOverdrawn, store
  <1> QED BY <1>1, <1>6, <1>7, <1>8 DEF IInv

\* A generation reads the volume baseline: the invariant is kept.
LEMMA ReadVolumeInv ==
  ASSUME IInv, NEW r \in Requests, ReadVolume(r)
  PROVE  IInv'
  <1>1. StoreOK' /\ RequestsOK'
    BY ReadVolumeType DEF IInv
  <1>2. PICK base \in {baseline[job[r].account], NotSeen.base} :
           seen' = [seen EXCEPT ![r].base = base]
    BY DEF ReadVolume
  <1>3. /\ seen'[r].rate = seen[r].rate
        /\ \A q \in Requests \ {r} : seen'[q] = seen[q]
    BY <1>2 DEF IInv, RequestsOK
  <1>4. \A q \in Requests \ {r} : at'[q] = at[q]
    BY DEF ReadVolume, IInv, RequestsOK
  <1>5. RatesInv'
    BY <1>3, <1>4 DEF ReadVolume, IInv, RatesInv, RequestsOK
  <1>6. LockInv'
    <2> SUFFICES ASSUME NEW q \in Requests, at'[q] = "write"
                 PROVE  Committable(q)'
      BY DEF LockInv
    <2>1. q # r /\ at[q] = "write"
      BY DEF ReadVolume, IInv, RequestsOK
    <2> QED BY <1>3, <2>1, StillCommittable DEF ReadVolume, IInv, LockInv, store
  <1>7. NeverOverdrawn'
    BY DEF ReadVolume, IInv, NeverOverdrawn, store
  <1> QED BY <1>1, <1>5, <1>6, <1>7 DEF IInv

\* A request takes the lock and reads the balance under it: the invariant is kept.
LEMMA TakeLockInv ==
  ASSUME IInv, NEW r \in Requests, TakeLock(r)
  PROVE  IInv'
  <1> DEFINE a == job[r].account
  <1>1. StoreOK' /\ RequestsOK'
    BY TakeLockType DEF IInv
  <1>2. /\ at[r] = "lock" /\ at'[r] = "write"
        /\ job[r] \in Jobs /\ job' = job
        /\ \A q \in Requests \ {r} : at'[q] = at[q]
    BY DEF TakeLock, IInv, RequestsOK, JobsInv, Active
  <1>3. /\ seen'[r].rate = seen[r].rate
        /\ seen'[r].balance = LockedBalance(a)
        /\ \A q \in Requests \ {r} : seen'[q] = seen[q]
    BY DEF TakeLock, IInv, RequestsOK
  <1>4. balance' = balance
    BY DEF TakeLock, store
  <1>5. RatesInv'
    BY <1>2, <1>3 DEF IInv, RatesInv
  <1>6. Committable(r)'
    <2>1. CASE a \in Wallets
      <3>1. lock'[a] = r
        BY <2>1 DEF TakeLock
      <3>2. seen'[r].balance = balance'[a]
        BY <1>3, <1>4, <2>1 DEF LockedBalance
      <3>3. job[r] \in Generations => Cost(r)' <= seen'[r].balance
        BY <1>2, <1>3, CheckedCost DEF TakeLock, IInv, Cost
      <3>4. job[r] \in WalletAdjusts => seen'[r].balance + job[r].amount >= 0
        BY <1>3, CheckedAdjustment DEF TakeLock, IInv
      <3> QED BY <1>2, <2>1, <3>1, <3>2, <3>3, <3>4 DEF Committable
    <2>2. CASE a \notin Wallets
      <3>1. job[r] \notin Generations /\ job[r] \notin WalletAdjusts
        BY <1>2, <2>2, CheckedCost, CheckedAdjustment DEF TakeLock, IInv
      <3> QED BY <1>2, <2>2, <3>1 DEF Committable, Jobs
    <2> QED BY <2>1, <2>2
  <1>7. ASSUME NEW q \in Requests, q # r, at'[q] = "write"
        PROVE  Committable(q)'
    <2>1. Committable(q)
      BY <1>2, <1>7 DEF IInv, LockInv
    <2>2. \A w \in Wallets : lock[w] = q => lock'[w] = q
      BY AccountsAssumption DEF TakeLock, LockFree, IInv, RequestsOK
    <2> QED BY <1>2, <1>3, <1>4, <1>7, <2>1, <2>2, StillCommittable
  <1>8. LockInv'
    BY <1>6, <1>7 DEF LockInv
  <1>9. NeverOverdrawn'
    BY <1>4 DEF IInv, NeverOverdrawn
  <1> QED BY <1>1, <1>5, <1>8, <1>9 DEF IInv

\* A request that ends without writing keeps the invariant.
LEMMA AnsweredInv ==
  ASSUME IInv, NEW r \in Requests, Refuse(r) \/ LockFails(r)
  PROVE  IInv'
  <1>1. StoreOK' /\ RequestsOK'
    BY RefuseType, LockFailsType DEF IInv
  <1>2. /\ at' = [at EXCEPT ![r] = "done"]
        /\ UNCHANGED <<balance, lock, job, seen>>
    BY DEF Refuse, LockFails, store
  <1>3. at'[r] = "done" /\ \A q \in Requests \ {r} : at'[q] = at[q]
    BY <1>2 DEF IInv, RequestsOK
  <1>4. RatesInv'
    BY <1>2, <1>3 DEF IInv, RatesInv
  <1>5. LockInv'
    <2> SUFFICES ASSUME NEW q \in Requests, at'[q] = "write"
                 PROVE  Committable(q)'
      BY DEF LockInv
    <2>1. at[q] = "write"
      BY <1>3
    <2> QED BY <1>2, <2>1, StillCommittable DEF IInv, LockInv
  <1>6. NeverOverdrawn'
    BY <1>2 DEF IInv, NeverOverdrawn
  <1> QED BY <1>1, <1>4, <1>5, <1>6 DEF IInv

\* The end of a transaction that changed no wallet but the one it had locked.
LEMMA FinishInv ==
  ASSUME IInv, NEW r \in Requests, NEW answer, Finish(r, answer),
         at[r] = "write",
         \A w \in Wallets : w # job[r].account => balance'[w] = balance[w]
  PROVE  RatesInv' /\ LockInv'
  <1>1. /\ at'[r] = "done" /\ job' = job /\ seen' = seen
        /\ \A q \in Requests \ {r} : at'[q] = at[q]
    BY DEF Finish, IInv, RequestsOK
  <1>2. RatesInv'
    BY <1>1 DEF IInv, RatesInv
  <1>3. LockInv'
    <2> SUFFICES ASSUME NEW q \in Requests, at'[q] = "write"
                 PROVE  Committable(q)'
      BY DEF LockInv
    <2>1. q # r /\ at[q] = "write"
      BY <1>1
    <2>2. Committable(q) /\ Committable(r)
      BY <2>1 DEF IInv, LockInv
    <2>3. ASSUME NEW w \in Wallets, lock[w] = q
          PROVE  lock'[w] = q /\ balance'[w] = balance[w]
      <3>1. w # job[r].account
        BY <2>1, <2>2, <2>3 DEF Committable
      <3> QED BY <2>1, <2>3, <3>1 DEF Finish
    <2> QED BY <1>1, <2>2, <2>3, StillCommittable
  <1> QED BY <1>2, <1>3

\* Posting an entry on the balance that was checked.
LEMMA PostEntrySafe ==
  ASSUME IInv, NEW r \in Requests, at[r] = "write", NEW type, NEW amount \in Int,
         PostEntry(r, type, amount),
         job[r].account \in Wallets => seen[r].balance + amount >= 0
  PROVE  /\ NeverOverdrawn'
         /\ \A w \in Wallets : w # job[r].account => balance'[w] = balance[w]
  BY DEF PostEntry, IInv, NeverOverdrawn

\* A generation debits what it checked under the lock it still holds.
LEMMA CommitGenerationInv ==
  ASSUME IInv, NEW r \in Requests, CommitGeneration(r)
  PROVE  IInv'
  <1>1. at[r] = "write" /\ job[r] \in Generations /\ Committable(r)
    BY JobKinds DEF CommitGeneration, IInv, RequestsOK, JobsInv, LockInv, Active
  <1>2. job[r].account \in Wallets
    <2>1. job[r] \notin Recharges
      BY <1>1 DEF Generations, Recharges
    <2> QED BY <1>1, <2>1 DEF Committable
  <1>3. StoreOK' /\ RequestsOK'
    BY <1>1, <1>2, CommitGenerationType DEF IInv
  <1>4. Cost(r) \in Nat
    BY <1>1, CostType, Halves DEF IInv
  <1>5. seen[r].balance + (-Cost(r)) >= 0 /\ -Cost(r) \in Int
    <2>1. seen[r].balance \in Int
      BY DEF IInv, RequestsOK
    <2>2. Cost(r) <= seen[r].balance
      BY <1>1, <1>2 DEF Committable
    <2> QED BY <1>4, <2>1, <2>2
  <1>6. /\ NeverOverdrawn'
        /\ \A w \in Wallets : w # job[r].account => balance'[w] = balance[w]
    BY <1>1, <1>5, PostEntrySafe DEF CommitGeneration
  <1>7. RatesInv' /\ LockInv'
    BY <1>1, <1>6, FinishInv DEF CommitGeneration
  <1> QED BY <1>3, <1>6, <1>7 DEF IInv

\* A recharge credits a positive amount.
LEMMA CommitRechargeInv ==
  ASSUME IInv, NEW r \in Requests, CommitRecharge(r)
  PROVE  IInv'
  <1>1. at[r] = "write" /\ job[r] \in Recharges /\ Committable(r)
    BY JobKinds DEF CommitRecharge, IInv, RequestsOK, JobsInv, LockInv, Active
  <1>2. StoreOK' /\ RequestsOK'
    BY <1>1, CommitRechargeType DEF IInv
  <1>3. job[r].amount \in Nat
    <2>1. job[r].amount \in RechargeAmounts
      BY <1>1 DEF Recharges
    <2>2. RechargeAmounts \subseteq Nat
      BY InputsAssumption
    <2> QED BY <2>1, <2>2
  <1>4. job[r].account \in Wallets => seen[r].balance + job[r].amount >= 0
    <2> SUFFICES ASSUME job[r].account \in Wallets
                 PROVE  seen[r].balance + job[r].amount >= 0
      OBVIOUS
    <2>1. seen[r].balance = balance[job[r].account]
      BY <1>1 DEF Committable
    <2>2. seen[r].balance \in Int /\ seen[r].balance >= 0
      BY <2>1 DEF IInv, StoreOK, NeverOverdrawn
    <2> QED BY <1>3, <2>2
  <1>5. /\ NeverOverdrawn'
        /\ \A w \in Wallets : w # job[r].account => balance'[w] = balance[w]
    BY <1>1, <1>3, <1>4, PostEntrySafe DEF CommitRecharge
  <1>6. RatesInv' /\ LockInv'
    BY <1>1, <1>5, FinishInv DEF CommitRecharge
  <1> QED BY <1>2, <1>5, <1>6 DEF IInv

\* An adjustment was checked against the balance it changes.
LEMMA CommitAdjustInv ==
  ASSUME IInv, NEW r \in Requests, CommitAdjust(r)
  PROVE  IInv'
  <1>1. at[r] = "write" /\ job[r] \in WalletAdjusts /\ Committable(r)
    BY JobKinds DEF CommitAdjust, IInv, RequestsOK, JobsInv, LockInv, Active
  <1>2. StoreOK' /\ RequestsOK'
    BY <1>1, CommitAdjustType DEF IInv
  <1>3. job[r].amount \in Int
    <2>1. job[r].amount \in Adjustments
      BY <1>1 DEF WalletAdjusts
    <2>2. Adjustments \subseteq Int
      BY InputsAssumption
    <2> QED BY <2>1, <2>2
  <1>4. job[r].account \in Wallets => seen[r].balance + job[r].amount >= 0
    BY <1>1 DEF Committable
  <1>5. PICK type : PostEntry(r, type, job[r].amount)
    BY DEF CommitAdjust
  <1>6. /\ NeverOverdrawn'
        /\ \A w \in Wallets : w # job[r].account => balance'[w] = balance[w]
    BY <1>1, <1>3, <1>4, <1>5, PostEntrySafe
  <1>7. PICK answer : Finish(r, answer)
    BY DEF CommitAdjust
  <1>8. RatesInv' /\ LockInv'
    BY <1>1, <1>6, <1>7, FinishInv
  <1> QED BY <1>2, <1>6, <1>8 DEF IInv

\* A rolled back transaction keeps the invariant.
LEMMA UnpostedInv ==
  ASSUME IInv, NEW r \in Requests,
         RepeatedOrder(r) \/ StatementFails(r) \/ CommitFails(r)
  PROVE  IInv'
  <1>1. StoreOK' /\ RequestsOK'
    BY UnpostedType DEF IInv
  <1>2. at[r] = "write" /\ balance' = balance
    BY DEF RepeatedOrder, StatementFails, CommitFails, store
  <1>3. PICK answer : Finish(r, answer)
    BY DEF RepeatedOrder, StatementFails, CommitFails
  <1>4. RatesInv' /\ LockInv'
    BY <1>2, <1>3, FinishInv
  <1>5. NeverOverdrawn'
    BY <1>2 DEF IInv, NeverOverdrawn
  <1> QED BY <1>1, <1>4, <1>5 DEF IInv

\* A price change keeps the invariant.
LEMMA SetPriceInv ==
  ASSUME IInv, NEW mils \in PriceInputs, SetPrice(mils)
  PROVE  IInv'
  <1>1. StoreOK' /\ RequestsOK'
    BY SetPriceType DEF IInv
  <1>2. UNCHANGED <<balance, lock, at, job, seen>>
    BY DEF SetPrice
  <1> QED BY <1>1, <1>2 DEF IInv, RatesInv, LockInv, Committable, Cost,
                            NeverOverdrawn

\* Nobody is left between a check and a COMMIT, whatever the demo wallet held.
LEMMA RestartInv ==
  ASSUME IInv, Restart
  PROVE  IInv'
  <1>1. StoreOK' /\ RequestsOK'
    BY RestartType DEF IInv
  <1>2. \A r \in Requests : at'[r] \notin Active
    BY DEF Restart, Active
  <1>3. RatesInv' /\ LockInv'
    BY <1>2 DEF RatesInv, LockInv, Active
  <1>4. NeverOverdrawn'
    <2>1. \A w \in Wallets : balance'[w] \in {balance[w], DemoSeedBalance}
      BY DEF Restart, IInv, StoreOK
    <2> QED BY <2>1 DEF IInv, NeverOverdrawn, DemoSeedBalance
  <1> QED BY <1>1, <1>3, <1>4 DEF IInv

\* Every step keeps the inductive invariant.
LEMMA NextInv == IInv /\ [Next]_vars => IInv'
  <1> SUFFICES ASSUME IInv, [Next]_vars PROVE IInv'
    OBVIOUS
  <1>1. CASE UNCHANGED vars
    BY <1>1 DEF vars, store, IInv, StoreOK, RequestsOK, JobsInv, RatesInv,
                LockInv, Committable, Cost, NeverOverdrawn
  <1>2. ASSUME NEW r \in Requests, Arrive(r) PROVE IInv'
    BY <1>2, ArriveInv
  <1>3. ASSUME NEW r \in Requests, Serve(r) PROVE IInv'
    BY <1>3, ReadRateInv, ReadVolumeInv, TakeLockInv, AnsweredInv,
       CommitGenerationInv, CommitRechargeInv, CommitAdjustInv, UnpostedInv
       DEF Serve
  <1>4. ASSUME NEW r \in Requests, Fault(r) PROVE IInv'
    BY <1>4, AnsweredInv, UnpostedInv DEF Fault
  <1>5. ASSUME NEW mils \in PriceInputs, SetPrice(mils) PROVE IInv'
    BY <1>5, SetPriceInv
  <1>6. CASE Restart
    BY <1>6, RestartInv
  <1> QED BY <1>1, <1>2, <1>3, <1>4, <1>5, <1>6 DEF Next

\* The inductive invariant: types, positive rates, what the row lock protects
\* between a handler's check and its COMMIT, and balances that are not negative.
THEOREM Invariance == Spec => []IInv
  BY InitInv, NextInv, PTL DEF Spec

\* Every variable keeps its type: what the handlers compute are balances,
\* rates, rows and volume numbers that the columns can hold.
THEOREM TypeCorrect == Spec => []TypeOK
<1>1. IInv => TypeOK
  BY Halves DEF IInv
<1> QED BY <1>1, Invariance, PTL

\* No wallet is ever below zero, whatever handlers, faults, price changes and
\* restarts interleave: the check and the debit see the same locked balance.
THEOREM Solvent == Spec => []NeverOverdrawn
<1>1. IInv => NeverOverdrawn
  BY DEF IInv
<1> QED BY <1>1, Invariance, PTL

-----------------------------------------------------------------------------
\* Billing implements WalletLedger on the wallets the migrations leave alone.

keptBalance == [w \in Kept |-> balance[w]]
keptLedger == [w \in Kept |-> ledger[w]]

\* The opening entries of a wallet explain its opening balance.
LEMMA OpeningMaps ==
  ASSUME NEW b \in Nat
  PROVE  Wallet!Opened(b, OpeningEntries(b))
  <1>1. CASE b > 0
    <2> DEFINE row == [type |-> "CREDIT", amount |-> b, after |-> b,
                       by |-> NoRequest]
    <2>1. OpeningEntries(b) = <<row>>
      BY <1>1 DEF OpeningEntries
    <2>2. Len(<<row>>) = 1 /\ <<row>>[1] = row
      OBVIOUS
    <2>3. row.amount = b /\ row.after = b
      OBVIOUS
    <2> HIDE DEF row
    <2> QED BY <1>1, <2>1, <2>2, <2>3 DEF Wallet!Opened
  <1>2. CASE b = 0
    BY <1>2 DEF OpeningEntries, Wallet!Opened
  <1> QED BY <1>1, <1>2

\* Initial states map to initial states of the abstract ledger.
LEMMA InitMaps == Init => Wallet!Init
  <1> SUFFICES ASSUME Init PROVE Wallet!Init
    OBVIOUS
  <1>1. PICK opening \in [Wallets -> InitialBalances] :
           /\ balance = [opening EXCEPT ![Demo] = DemoSeedBalance]
           /\ ledger = [w \in Wallets |-> IF w = Demo THEN SeedEntries
                                          ELSE OpeningEntries(opening[w])]
    BY DEF Init
  <1>2. ASSUME NEW w \in Kept
        PROVE  /\ balance[w] = opening[w]
               /\ ledger[w] = OpeningEntries(opening[w])
               /\ opening[w] \in Nat
    BY <1>1, InputsAssumption DEF Kept
  <1>3. ASSUME NEW w \in Kept
        PROVE  Wallet!Opened(balance[w], ledger[w])
    BY <1>2, OpeningMaps
  <1>4. \A w \in Kept : balance[w] \in Int /\ ledger[w] \in Seq(Wallet!Entry)
    <2>1. Wallet!Entry = Entry
      BY DEF Entry, Wallet!Entry
    <2>2. \A w \in Kept : OpeningEntries(opening[w]) \in Seq(Entry)
      BY <1>2, OpeningType
    <2> QED BY <1>2, <2>1, <2>2
  <1> QED BY <1>3, <1>4 DEF Wallet!Init

\* The abstract action, in terms of the mapped variables.
LEMMA PostMaps ==
  ASSUME NEW a, keptBalance'[a] \in Nat,
         keptBalance' = [keptBalance EXCEPT ![a] = keptBalance'[a]],
         NEW type \in EntryTypes, NEW by \in Requests \union {NoRequest},
         keptLedger' = [keptLedger EXCEPT ![a] =
                          Append(@, [type |-> type,
                                     amount |-> keptBalance'[a] - keptBalance[a],
                                     after |-> keptBalance'[a], by |-> by])]
  PROVE  Wallet!Post(a)
  BY DEF Wallet!Post, keptBalance, keptLedger

\* A handler that posts an entry posts it to one wallet of the abstraction,
\* or to one the abstraction does not speak of.
LEMMA PostEntryMaps ==
  ASSUME IInv, NEW r \in Requests, at[r] = "write", NEW type \in EntryTypes,
         NEW amount \in Int, PostEntry(r, type, amount),
         job[r].account \in Wallets => seen[r].balance + amount >= 0
  PROVE  [Wallet!Next]_Wallet!vars
  <1> DEFINE after == seen[r].balance + amount
             row == [type |-> type, amount |-> amount, after |-> after,
                     by |-> r]
  <1>1. /\ balance' = [w \in Wallets |-> IF w = job[r].account THEN after
                                         ELSE balance[w]]
        /\ ledger' = [w \in Wallets |-> IF w = job[r].account
                                        THEN Append(ledger[w], row)
                                        ELSE ledger[w]]
    BY DEF PostEntry
  <1>2. CASE job[r].account \in Kept
    <2>1. PICK a \in Kept : a = job[r].account
      BY <1>2
    <2>2. a \in Wallets
      BY DEF Kept
    <2>3. seen[r].balance = balance[a] /\ balance[a] \in Int
      BY <2>1, <2>2 DEF IInv, LockInv, Committable, StoreOK
    <2>4. after \in Nat /\ amount = after - balance[a]
      BY <2>1, <2>2, <2>3
    <2> HIDE DEF after
    <2>5. keptBalance' = [keptBalance EXCEPT ![a] = keptBalance'[a]]
          /\ keptBalance'[a] = after
      BY <1>1, <2>1, <2>2 DEF keptBalance, Kept
    <2>6. row = [type |-> type, amount |-> keptBalance'[a] - keptBalance[a],
                 after |-> keptBalance'[a], by |-> r]
      BY <2>4, <2>5 DEF keptBalance
    <2> HIDE DEF row
    <2>7. keptLedger' = [keptLedger EXCEPT ![a] = Append(@, row)]
      BY <1>1, <2>1, <2>2 DEF keptLedger, Kept
    <2>8. keptLedger' = [keptLedger EXCEPT ![a] =
                          Append(@, [type |-> type,
                                     amount |-> keptBalance'[a] - keptBalance[a],
                                     after |-> keptBalance'[a], by |-> r])]
      BY <2>6, <2>7
    <2>9. keptBalance'[a] \in Nat
      BY <2>4, <2>5
    <2>10. Wallet!Post(a)
      BY <2>5, <2>8, <2>9, PostMaps
    <2> QED BY <2>10 DEF Wallet!Next
  <1>3. CASE job[r].account \notin Kept
    <2>1. keptBalance' = keptBalance /\ keptLedger' = keptLedger
      BY <1>1, <1>3 DEF keptBalance, keptLedger, Kept
    <2> QED BY <2>1 DEF Wallet!vars, keptBalance, keptLedger
  <1> QED BY <1>2, <1>3

\* A step that leaves the kept wallets alone is a stutter of the abstraction.
LEMMA StutterMaps ==
  ASSUME IInv,
         \A w \in Kept : balance'[w] = balance[w] /\ ledger'[w] = ledger[w]
  PROVE  [Wallet!Next]_Wallet!vars
  <1>1. keptBalance' = keptBalance /\ keptLedger' = keptLedger
    BY DEF keptBalance, keptLedger
  <1> QED BY <1>1 DEF Wallet!vars, keptBalance, keptLedger

\* Every step maps to one entry posted to one wallet, or to a stutter.
LEMMA NextMaps == IInv /\ [Next]_vars => [Wallet!Next]_Wallet!vars
  <1> SUFFICES ASSUME IInv, [Next]_vars PROVE [Wallet!Next]_Wallet!vars
    OBVIOUS
  <1>1. CASE UNCHANGED <<balance, ledger>>
    BY <1>1, StutterMaps
  <1>2. ASSUME NEW r \in Requests, CommitGeneration(r)
        PROVE  [Wallet!Next]_Wallet!vars
    <2>1. at[r] = "write" /\ job[r] \in Generations /\ Committable(r)
      BY <1>2, JobKinds DEF CommitGeneration, IInv, RequestsOK, JobsInv, LockInv,
                            Active
    <2>2. Cost(r) \in Nat /\ seen[r].balance \in Int
      BY <2>1, CostType, Halves DEF IInv, RequestsOK
    <2>3. job[r].account \in Wallets => seen[r].balance + (-Cost(r)) >= 0
      BY <2>1, <2>2 DEF Committable
    <2>4. -Cost(r) \in Int
      BY <2>2
    <2> QED BY <1>2, <2>1, <2>3, <2>4, PostEntryMaps
            DEF CommitGeneration, EntryTypes
  <1>3. ASSUME NEW r \in Requests, CommitRecharge(r)
        PROVE  [Wallet!Next]_Wallet!vars
    <2>1. at[r] = "write" /\ job[r] \in Recharges /\ Committable(r)
      BY <1>3, JobKinds DEF CommitRecharge, IInv, RequestsOK, JobsInv, LockInv,
                            Active
    <2>2. job[r].amount \in Nat
      <3>1. job[r].amount \in RechargeAmounts /\ RechargeAmounts \subseteq Nat
        BY <2>1, InputsAssumption DEF Recharges
      <3> QED BY <3>1
    <2>3. job[r].account \in Wallets => seen[r].balance + job[r].amount >= 0
      BY <2>1, <2>2 DEF Committable, IInv, StoreOK, NeverOverdrawn
    <2> QED BY <1>3, <2>1, <2>2, <2>3, PostEntryMaps
            DEF CommitRecharge, EntryTypes
  <1>4. ASSUME NEW r \in Requests, CommitAdjust(r)
        PROVE  [Wallet!Next]_Wallet!vars
    <2>1. at[r] = "write" /\ job[r] \in WalletAdjusts /\ Committable(r)
      BY <1>4, JobKinds DEF CommitAdjust, IInv, RequestsOK, JobsInv, LockInv,
                            Active
    <2>2. job[r].amount \in Int
      <3>1. job[r].amount \in Adjustments /\ Adjustments \subseteq Int
        BY <2>1, InputsAssumption DEF WalletAdjusts
      <3> QED BY <3>1
    <2>3. job[r].account \in Wallets => seen[r].balance + job[r].amount >= 0
      BY <2>1 DEF Committable
    <2>4. PICK type \in EntryTypes : PostEntry(r, type, job[r].amount)
      BY <1>4 DEF CommitAdjust, EntryTypes
    <2> QED BY <2>1, <2>2, <2>3, <2>4, PostEntryMaps
  <1>5. CASE Restart
    <2>1. \A w \in Kept : balance'[w] = balance[w] /\ ledger'[w] = ledger[w]
      BY <1>5 DEF Restart, IInv, StoreOK, Kept
    <2> QED BY <2>1, StutterMaps
  <1>6. \/ UNCHANGED <<balance, ledger>>
        \/ \E r \in Requests : \/ CommitGeneration(r) \/ CommitRecharge(r)
                               \/ CommitAdjust(r)
        \/ Restart
    BY DEF Next, vars, store, Arrive, Serve, ReadRate, ReadVolume, TakeLock,
           Refuse, RepeatedOrder, Fault, LockFails, StatementFails, CommitFails,
           SetPrice
  <1> QED BY <1>1, <1>2, <1>3, <1>4, <1>5, <1>6

\* The three handlers that touch a wallet row implement the abstract wallet:
\* each COMMIT posts one entry, carrying the balance it leaves, and nothing else
\* moves a balance.
THEOREM Refinement == Spec => ImplementsWalletLedger
  BY Invariance, InitMaps, NextMaps, PTL DEF Spec, ImplementsWalletLedger,
     Wallet!Spec

-----------------------------------------------------------------------------
\* A wallet that changes only by posting entries is explained by them.

WalletTypeOK ==
    /\ keptBalance \in [Kept -> Int]
    /\ keptLedger \in [Kept -> Seq(Wallet!Entry)]

LastAfter(l) == IF l = <<>> THEN 0 ELSE l[Len(l)].after

\* The ledger l accounts for the balance b of one wallet.
Explains(l, b) ==
    /\ b = LastAfter(l)
    /\ \A i \in 1..Len(l) : Wallet!Follows(l, i) /\ l[i].after >= 0

\* An explained wallet is one whose every entry follows from the one before.
LEMMA ExplainsEach ==
  LedgerExplainsBalance <=>
     \A a \in Kept : Explains(keptLedger[a], keptBalance[a])
  BY DEF LedgerExplainsBalance, Wallet!LedgerExplainsBalance, Explains,
         LastAfter, keptBalance, keptLedger

\* A wallet as it is opened.
LEMMA OpenedExplained ==
  ASSUME NEW b \in Int, NEW l \in Seq(Wallet!Entry), Wallet!Opened(b, l)
  PROVE  Explains(l, b)
  <1>1. CASE b = 0 /\ l = <<>>
    BY <1>1 DEF Explains, LastAfter, Wallet!Follows
  <1>2. CASE b > 0 /\ Len(l) = 1 /\ l[1].amount = b /\ l[1].after = b
    <2>1. l # <<>>
      <3> SUFFICES ASSUME l = <<>> PROVE FALSE
        OBVIOUS
      <3>1. Len(l) = 0
        BY EmptySeq
      <3> QED BY <1>2, <3>1
    <2>2. \A i \in 1..Len(l) : i = 1
      BY <1>2
    <2> QED BY <1>2, <2>1, <2>2 DEF Explains, LastAfter, Wallet!Follows
  <1> QED BY <1>1, <1>2 DEF Wallet!Opened

\* Appending an entry that carries the new balance keeps the ledger in step.
LEMMA AppendExplained ==
  ASSUME NEW l \in Seq(Wallet!Entry), NEW b \in Int, Explains(l, b),
         NEW e \in Wallet!Entry, e.after >= 0, e.amount = e.after - b
  PROVE  Explains(Append(l, e), e.after)
  <1> DEFINE m == Append(l, e)
  <1>1. /\ m \in Seq(Wallet!Entry) /\ Len(m) = Len(l) + 1 /\ Len(l) \in Nat
        /\ \A i \in 1..Len(l) : m[i] = l[i]
        /\ m[Len(l) + 1] = e
    OBVIOUS
  <1>2. e.after \in Int /\ e.amount \in Int
    BY DEF Wallet!Entry
  <1>3. \A i \in 1..Len(l) : l[i].after \in Int
    <2>1. \A i \in 1..Len(l) : l[i] \in Wallet!Entry
      OBVIOUS
    <2> QED BY <2>1 DEF Wallet!Entry
  <1> HIDE DEF m
  <1>4. e.after = LastAfter(m)
    BY <1>1 DEF LastAfter
  <1>5. ASSUME NEW i \in 1..Len(m)
        PROVE  Wallet!Follows(m, i) /\ m[i].after >= 0
    <2>1. CASE i \in 1..Len(l)
      <3>1. m[i] = l[i] /\ (i # 1 => m[i - 1] = l[i - 1])
        BY <1>1, <2>1
      <3> QED BY <2>1, <3>1 DEF Explains, Wallet!Follows
    <2>2. CASE i = Len(l) + 1
      <3>1. CASE l = <<>>
        <4>1. b = 0 /\ Len(l) = 0
          BY <3>1 DEF Explains, LastAfter
        <4>2. i = 1 /\ m[i] = e
          BY <1>1, <2>2, <4>1
        <4> QED BY <1>2, <4>1, <4>2 DEF Wallet!Follows
      <3>2. CASE l # <<>>
        <4>1. Len(l) >= 1 /\ m[i - 1] = l[Len(l)] /\ b = l[Len(l)].after
          BY <1>1, <2>2, <3>2 DEF Explains, LastAfter
        <4>2. i # 1 /\ m[i] = e
          BY <1>1, <2>2, <4>1
        <4>3. m[i - 1].after = b
          BY <4>1
        <4> QED BY <1>2, <4>2, <4>3 DEF Wallet!Follows
      <3> QED BY <3>1, <3>2
    <2> QED BY <1>1, <2>1, <2>2
  <1> QED BY <1>4, <1>5 DEF Explains, m

\* The abstract wallet is explained by its ledger: what docs/04 calls the
\* cached balance is at all times the balance of the last ledger row, and the
\* rows add up one after another without a gap.
THEOREM LedgerExplains ==
  Wallet!Spec => [](WalletTypeOK /\ LedgerExplainsBalance)
<1>1. Wallet!Init => WalletTypeOK /\ LedgerExplainsBalance
  <2> SUFFICES ASSUME Wallet!Init
               PROVE  WalletTypeOK /\ LedgerExplainsBalance
    OBVIOUS
  <2>1. WalletTypeOK /\ \A a \in Kept : Wallet!Opened(keptBalance[a], keptLedger[a])
    BY DEF Wallet!Init, WalletTypeOK, keptBalance, keptLedger
  <2>2. \A a \in Kept : keptBalance[a] \in Int /\ keptLedger[a] \in Seq(Wallet!Entry)
    BY <2>1 DEF WalletTypeOK
  <2> QED BY <2>1, <2>2, OpenedExplained, ExplainsEach
<1>2. WalletTypeOK /\ LedgerExplainsBalance /\ [Wallet!Next]_Wallet!vars
        => (WalletTypeOK /\ LedgerExplainsBalance)'
  <2> SUFFICES ASSUME WalletTypeOK, LedgerExplainsBalance,
                      [Wallet!Next]_Wallet!vars
               PROVE  (WalletTypeOK /\ LedgerExplainsBalance)'
    OBVIOUS
  <2>0. ASSUME \A a \in Kept : Explains(keptLedger'[a], keptBalance'[a])
        PROVE  LedgerExplainsBalance'
    BY <2>0 DEF LedgerExplainsBalance, Wallet!LedgerExplainsBalance, Explains,
                LastAfter, keptBalance, keptLedger
  <2>1. CASE UNCHANGED Wallet!vars
    <3>1. keptBalance' = keptBalance /\ keptLedger' = keptLedger
      BY <2>1 DEF Wallet!vars, keptBalance, keptLedger
    <3> QED BY <2>0, <3>1, ExplainsEach DEF WalletTypeOK
  <2>2. ASSUME NEW a \in Kept, Wallet!Post(a)
        PROVE  (WalletTypeOK /\ LedgerExplainsBalance)'
    <3>1. /\ keptBalance'[a] \in Nat
          /\ keptBalance' = [keptBalance EXCEPT ![a] = keptBalance'[a]]
          /\ \E type \in EntryTypes, by \in Requests \union {NoRequest} :
               keptLedger' = [keptLedger EXCEPT ![a] =
                  Append(@, [type |-> type,
                             amount |-> keptBalance'[a] - keptBalance[a],
                             after |-> keptBalance'[a], by |-> by])]
      BY <2>2 DEF Wallet!Post, keptBalance, keptLedger
    <3>2. PICK type \in EntryTypes, by \in Requests \union {NoRequest} :
             keptLedger' = [keptLedger EXCEPT ![a] =
                Append(@, [type |-> type,
                           amount |-> keptBalance'[a] - keptBalance[a],
                           after |-> keptBalance'[a], by |-> by])]
      BY <3>1
    <3> DEFINE e == [type |-> type, amount |-> keptBalance'[a] - keptBalance[a],
                     after |-> keptBalance'[a], by |-> by]
    <3>3. keptBalance[a] \in Int /\ keptLedger[a] \in Seq(Wallet!Entry)
      BY DEF WalletTypeOK
    <3>4. e \in Wallet!Entry /\ e.after >= 0 /\ e.amount = e.after - keptBalance[a]
      BY <3>1, <3>3 DEF Wallet!Entry
    <3>5. /\ e.after = keptBalance'[a]
          /\ keptLedger' = [keptLedger EXCEPT ![a] = Append(@, e)]
      BY <3>2
    <3> HIDE DEF e
    <3>6. Append(keptLedger[a], e) \in Seq(Wallet!Entry)
      BY <3>3, <3>4
    <3>7. WalletTypeOK'
      BY <3>1, <3>5, <3>6 DEF WalletTypeOK
    <3>8. Explains(keptLedger'[a], keptBalance'[a])
      <4>1. keptLedger'[a] = Append(keptLedger[a], e)
        BY <3>5 DEF WalletTypeOK
      <4> QED BY <3>3, <3>4, <3>5, <4>1, ExplainsEach, AppendExplained
    <3>9. ASSUME NEW c \in Kept, c # a
          PROVE  Explains(keptLedger'[c], keptBalance'[c])
      <4>1. keptLedger'[c] = keptLedger[c] /\ keptBalance'[c] = keptBalance[c]
        BY <3>1, <3>5, <3>9 DEF WalletTypeOK
      <4> QED BY <4>1, ExplainsEach
    <3> QED BY <2>0, <3>7, <3>8, <3>9
  <2> QED BY <2>1, <2>2 DEF Wallet!Next
<1> QED BY <1>1, <1>2, PTL DEF Wallet!Spec

\* The ledger of a wallet explains its balance, row by row, in every state the
\* handlers can reach: what WalletLedger promises, carried over the refinement.
THEOREM Explained == Spec => []LedgerExplainsBalance
  BY LedgerExplains, Refinement, PTL DEF ImplementsWalletLedger

-----------------------------------------------------------------------------
\* The ledger, the payments and the archive, request by request.

\* No ledger entry, and no payment and no edition, is request r's.
NoRow(r) ==
    \A w \in Wallets : \A i \in 1..Len(ledger[w]) : ledger[w][i].by # r
NoRecord(r) == \A p \in pdfs \union payments : p.by # r

\* Request r has one entry in all ledgers: in a's, of this amount.
OneRow(r, a, amount) ==
    \E i \in 1..Len(ledger[a]) :
       /\ ledger[a][i].by = r
       /\ ledger[a][i].amount = amount
       /\ \A w \in Wallets : \A j \in 1..Len(ledger[w]) :
             ledger[w][j].by = r => w = a /\ j = i

\* A request that has not ended has written nothing.
Untouched == \A r \in Requests : at[r] # "done" => NoRow(r) /\ NoRecord(r)

Refused(r) ==
    \/ reply[r] \in {"insufficient", "negative", "not found"}
    \/ reply[r] = "error" /\ job[r].kind = "generate"
RefusedWroteNothing == \A r \in Requests : Refused(r) => NoRow(r) /\ NoRecord(r)

\* Editions and charges, payments and recharges.
PdfPaid(p) == p.cost = p.pages * p.rate /\ OneRow(p.by, p.account, -p.cost)
ChargeHasPdf(w, i) ==
    ledger[w][i].type = "GENERATION_CHARGE" /\ ledger[w][i].by # NoRequest
       => \E p \in pdfs : p.by = ledger[w][i].by /\ p.account = w
PaymentPosted(p) == p.account \in Wallets => OneRow(p.by, p.account, p.amount)
RechargeHasPayment(w, i) ==
    ledger[w][i].type = "RECHARGE" /\ ledger[w][i].by # NoRequest
       => \E p \in payments : p.by = ledger[w][i].by /\ p.account = w

Archive ==
    /\ Untouched
    /\ RefusedWroteNothing
    /\ \A p \in pdfs : PdfPaid(p)
    /\ \A p \in payments : PaymentPosted(p)
    /\ \A p, q \in payments : p.order = q.order => p = q
    /\ \A w \in Wallets : \A i \in 1..Len(ledger[w]) :
          ChargeHasPdf(w, i) /\ RechargeHasPayment(w, i)
    /\ IsFiniteSet(pdfs)
    /\ RotationCountsEditions

\* What one row means for the set of a request's entries.
LEMMA OneRowEntries ==
  ASSUME NEW r, NEW a \in Wallets, NEW amount, OneRow(r, a, amount)
  PROVE  \E e \in EntriesBy(r) :
            /\ EntriesBy(r) = {e}
            /\ e[1] = a
            /\ ledger[e[1]][e[2]].amount = amount
  <1>1. PICK i \in 1..Len(ledger[a]) :
           /\ ledger[a][i].by = r
           /\ ledger[a][i].amount = amount
           /\ \A w \in Wallets : \A j \in 1..Len(ledger[w]) :
                 ledger[w][j].by = r => w = a /\ j = i
    BY DEF OneRow
  <1>2. \A e : e \in Positions <=> \E w \in Wallets : \E j \in 1..Len(ledger[w]) :
                                       e = <<w, j>>
    BY DEF Positions
  <1>3. <<a, i>> \in EntriesBy(r)
    BY <1>1, <1>2 DEF EntriesBy
  <1>4. ASSUME NEW e \in EntriesBy(r) PROVE e = <<a, i>>
    <2>0. PICK w \in Wallets : \E j \in 1..Len(ledger[w]) : e = <<w, j>>
      BY <1>2 DEF EntriesBy
    <2>1. PICK j \in 1..Len(ledger[w]) : e = <<w, j>>
      BY <2>0
    <2>2. ledger[w][j].by = r
      BY <2>1 DEF EntriesBy
    <2> QED BY <1>1, <2>1, <2>2
  <1>5. EntriesBy(r) = {<<a, i>>}
    BY <1>3, <1>4
  <1> QED BY <1>1, <1>3, <1>5

\* No row, no entry.
LEMMA NoRowEntries ==
  ASSUME NEW r, NoRow(r)
  PROVE  EntriesBy(r) = {}
  <1>1. \A e \in Positions : \E w \in Wallets : \E j \in 1..Len(ledger[w]) :
                                e = <<w, j>>
    BY DEF Positions
  <1> QED BY <1>1 DEF EntriesBy, NoRow

-----------------------------------------------------------------------------
\* Ledgers only grow.

\* Every entry stays where it is.
Grows ==
    \A w \in Wallets :
       /\ Len(ledger[w]) \in Nat /\ Len(ledger'[w]) \in Nat
       /\ Len(ledger[w]) <= Len(ledger'[w])
       /\ \A i \in 1..Len(ledger[w]) : ledger'[w][i] = ledger[w][i]

\* No new entry is q's.
NoneNewBy(q) ==
    \A w \in Wallets : \A i \in 1..Len(ledger'[w]) :
       i \in 1..Len(ledger[w]) \/ ledger'[w][i].by # q

\* A request's rows are not touched by what others append.
LEMMA RowsStay ==
  ASSUME Grows, NEW q, NoneNewBy(q)
  PROVE  /\ NoRow(q) => NoRow(q)'
         /\ \A a \in Wallets : \A amount : OneRow(q, a, amount) => OneRow(q, a, amount)'
  <1>1. NoRow(q) => NoRow(q)'
    BY DEF Grows, NoneNewBy, NoRow
  <1>2. ASSUME NEW a \in Wallets, NEW amount, OneRow(q, a, amount)
        PROVE  OneRow(q, a, amount)'
    <2>1. PICK i \in 1..Len(ledger[a]) :
             /\ ledger[a][i].by = q
             /\ ledger[a][i].amount = amount
             /\ \A w \in Wallets : \A j \in 1..Len(ledger[w]) :
                   ledger[w][j].by = q => w = a /\ j = i
      BY <1>2 DEF OneRow
    <2>2. i \in 1..Len(ledger'[a]) /\ ledger'[a][i] = ledger[a][i]
      BY DEF Grows
    <2>3. ASSUME NEW w \in Wallets, NEW j \in 1..Len(ledger'[w]), ledger'[w][j].by = q
          PROVE  w = a /\ j = i
      BY <2>1, <2>3 DEF Grows, NoneNewBy
    <2> QED BY <2>1, <2>2, <2>3 DEF OneRow
  <1> QED BY <1>1, <1>2

\* What PostEntry appends.
LEMMA PostGrows ==
  ASSUME StoreOK, RequestsOK, NEW r \in Requests, NEW type \in EntryTypes,
         NEW amount \in Int, PostEntry(r, type, amount)
  PROVE  /\ Grows
         /\ \A w \in Wallets \ {job[r].account} : ledger'[w] = ledger[w]
         /\ job[r].account \in Wallets =>
              LET a == job[r].account  n == Len(ledger[a]) + 1
              IN  /\ Len(ledger'[a]) = n
                  /\ ledger'[a][n].by = r
                  /\ ledger'[a][n].type = type
                  /\ ledger'[a][n].amount = amount
  <1> DEFINE a == job[r].account
             row == [type |-> type, amount |-> amount,
                     after |-> seen[r].balance + amount, by |-> r]
  <1>1. row \in Entry /\ row.by = r /\ row.type = type /\ row.amount = amount
    BY DEF RequestsOK, Entry
  <1>2. ledger' = [w \in Wallets |-> IF w = a THEN Append(ledger[w], row)
                                     ELSE ledger[w]]
    BY DEF PostEntry
  <1> HIDE DEF row, a
  <1>3. \A w \in Wallets : ledger[w] \in Seq(Entry)
    BY DEF StoreOK
  <1>4. ASSUME NEW w \in Wallets
        PROVE  /\ Len(Append(ledger[w], row)) = Len(ledger[w]) + 1
               /\ Len(ledger[w]) \in Nat
               /\ Append(ledger[w], row)[Len(ledger[w]) + 1] = row
               /\ \A i \in 1..Len(ledger[w]) : Append(ledger[w], row)[i] = ledger[w][i]
    BY <1>1, <1>3
  <1>5. Grows
    BY <1>2, <1>4 DEF Grows
  <1> QED BY <1>1, <1>2, <1>4, <1>5 DEF a

\* Two rows at the end of a sequence.
LEMMA TwoMore ==
  ASSUME NEW S, NEW s \in Seq(S), NEW two \in Seq(S), Len(two) = 2
  PROVE  /\ Len(s \o two) = Len(s) + 2 /\ Len(s) \in Nat
         /\ \A i \in 1..Len(s) : (s \o two)[i] = s[i]
         /\ (s \o two)[Len(s) + 1] = two[1]
         /\ (s \o two)[Len(s) + 2] = two[2]
  <1> DEFINE t == s \o two
  <1>1. /\ t \in Seq(S)
        /\ Len(t) = Len(s) + Len(two)
        /\ \A i \in 1 .. Len(s) + Len(two) :
              t[i] = IF i <= Len(s) THEN s[i] ELSE two[i - Len(s)]
    BY ConcatProperties, Zenon
  <1>2. Len(s) \in Nat
    OBVIOUS
  <1> HIDE DEF t
  <1>3. Len(t) = Len(s) + 2
    BY <1>1, <1>2
  <1>4. \A i \in 1..Len(s) : t[i] = s[i]
    BY <1>1, <1>2
  <1>5. t[Len(s) + 1] = two[1] /\ t[Len(s) + 2] = two[2]
    <2>1. (Len(s) + 1) - Len(s) = 1 /\ (Len(s) + 2) - Len(s) = 2
      BY <1>2
    <2>2. t[Len(s) + 1] = two[(Len(s) + 1) - Len(s)]
      BY <1>1, <1>2
    <2>3. t[Len(s) + 2] = two[(Len(s) + 2) - Len(s)]
      BY <1>1, <1>2
    <2> QED BY <2>1, <2>2, <2>3
  <1> QED BY <1>2, <1>3, <1>4, <1>5 DEF t

\* The rows of a restart are nobody's.
LEMMA RestartGrows ==
  ASSUME StoreOK, Restart
  PROVE  /\ Grows
         /\ \A w \in Wallets : \A i \in 1..Len(ledger'[w]) :
               i \in 1..Len(ledger[w]) \/ ledger'[w][i].by = NoRequest
  <1>1. /\ SeedEntries \in Seq(Entry) /\ Len(SeedEntries) = 2
        /\ SeedEntries[1].by = NoRequest /\ SeedEntries[2].by = NoRequest
    BY SeedType DEF SeedEntries
  <1>2. /\ Demo \in Wallets
        /\ \A w \in Wallets : ledger[w] \in Seq(Entry)
        /\ ledger' = [ledger EXCEPT ![Demo] = ledger[Demo] \o SeedEntries]
    BY AccountsAssumption DEF StoreOK, Restart
  <1> DEFINE longer == ledger[Demo] \o SeedEntries
  <1>3. /\ Len(longer) = Len(ledger[Demo]) + 2 /\ Len(ledger[Demo]) \in Nat
        /\ \A i \in 1..Len(ledger[Demo]) : longer[i] = ledger[Demo][i]
        /\ longer[Len(ledger[Demo]) + 1] = SeedEntries[1]
        /\ longer[Len(ledger[Demo]) + 2] = SeedEntries[2]
    BY <1>1, <1>2, TwoMore
  <1>4. \A w \in Wallets : ledger'[w] = IF w = Demo THEN longer ELSE ledger[w]
    BY <1>2 DEF StoreOK
  <1>5. \A w \in Wallets : Len(ledger[w]) \in Nat
    BY <1>2
  <1> HIDE DEF longer
  <1>6. Grows
    BY <1>3, <1>4, <1>5 DEF Grows
  <1>7. ASSUME NEW w \in Wallets, NEW i \in 1..Len(ledger'[w]),
               i \notin 1..Len(ledger[w])
        PROVE  ledger'[w][i].by = NoRequest
    <2>1. w = Demo
      BY <1>4, <1>7
    <2>2. i = Len(ledger[Demo]) + 1 \/ i = Len(ledger[Demo]) + 2
      BY <1>3, <1>4, <1>7, <2>1
    <2> QED BY <1>1, <1>3, <1>4, <2>1, <2>2
  <1> QED BY <1>6, <1>7

-----------------------------------------------------------------------------
\* One lemma for each kind of step.

\* The other requests are where they were and have answered what they had.
OthersStay(r) ==
    \A q \in Requests \ {r} :
       at'[q] = at[q] /\ reply'[q] = reply[q] /\ job'[q] = job[q]

\* A step that writes no row, revives no request and refuses only one that was
\* running.
LEMMA QuietArchive ==
  ASSUME Archive, UNCHANGED <<ledger, payments, pdfs, rotation>>,
         \A q \in Requests : at'[q] # "done" => at[q] # "done",
         \A q \in Requests : Refused(q)' => Refused(q) \/ at[q] # "done"
  PROVE  Archive'
  <1>1. Untouched' /\ RefusedWroteNothing'
    BY DEF Archive, Untouched, RefusedWroteNothing, NoRow, NoRecord
  <1>2. /\ \A p \in pdfs' : PdfPaid(p)'
        /\ \A p \in payments' : PaymentPosted(p)'
    BY DEF Archive, PdfPaid, PaymentPosted, OneRow
  <1>3. /\ \A p, q \in payments' : p.order = q.order => p = q
        /\ IsFiniteSet(pdfs')
        /\ RotationCountsEditions'
    BY DEF Archive, RotationCountsEditions
  <1>4. \A w \in Wallets : \A i \in 1..Len(ledger'[w]) :
           ChargeHasPdf(w, i)' /\ RechargeHasPayment(w, i)'
    BY DEF Archive, ChargeHasPdf, RechargeHasPayment
  <1> QED BY <1>1, <1>2, <1>3, <1>4 DEF Archive

\* What a COMMIT that posts an entry means for the request that made it, for
\* the others, and for every row of a ledger.
LEMMA PostedRows ==
  ASSUME IInv, Archive, NEW r \in Requests, at[r] = "write",
         NEW type \in EntryTypes, NEW amount \in Int, PostEntry(r, type, amount),
         NEW answer \in {"ok", "error"}, Finish(r, answer),
         job[r].kind = "generate" => answer = "ok",
         \A p \in pdfs' : p \in pdfs \/ p.by = r,
         \A p \in payments' : p \in payments \/ p.by = r
  PROVE  /\ Untouched' /\ RefusedWroteNothing'
         /\ NoRecord(r)
         /\ \A q \in Requests \ {r}, a \in Wallets : \A x :
               OneRow(q, a, x) => OneRow(q, a, x)'
         /\ job[r].account \in Wallets => OneRow(r, job[r].account, amount)'
         /\ \A w \in Wallets : \A i \in 1..Len(ledger'[w]) :
               \/ i \in 1..Len(ledger[w]) /\ ledger'[w][i] = ledger[w][i]
               \/ /\ w = job[r].account
                  /\ ledger'[w][i].by = r /\ ledger'[w][i].type = type
  <1>0. PICK a : a = job[r].account
    OBVIOUS
  <1> DEFINE n == Len(ledger[a]) + 1
  <1>1. /\ Grows
        /\ \A w \in Wallets \ {a} : ledger'[w] = ledger[w]
        /\ a \in Wallets => /\ Len(ledger'[a]) = n
                            /\ ledger'[a][n].by = r
                            /\ ledger'[a][n].type = type
                            /\ ledger'[a][n].amount = amount
    BY <1>0, PostGrows DEF IInv
  <1>2. NoRow(r) /\ NoRecord(r)
    BY DEF Archive, Untouched
  <1>3. OthersStay(r) /\ reply'[r] = answer /\ at'[r] = "done" /\ job' = job
    BY DEF Finish, IInv, RequestsOK, OthersStay
  <1>4. \A w \in Wallets : \A i \in 1..Len(ledger'[w]) :
           \/ i \in 1..Len(ledger[w]) /\ ledger'[w][i] = ledger[w][i]
           \/ w = a /\ i = n
    BY <1>1 DEF Grows
  <1>5. ASSUME NEW q \in Requests \ {r} PROVE NoneNewBy(q)
    BY <1>1, <1>4 DEF NoneNewBy
  <1>6. /\ \A q \in Requests \ {r} : NoRow(q) => NoRow(q)'
        /\ \A q \in Requests \ {r}, b \in Wallets : \A x :
              OneRow(q, b, x) => OneRow(q, b, x)'
    BY <1>1, <1>5, RowsStay
  <1>7. \A q \in Requests \ {r} : NoRecord(q) => NoRecord(q)'
    BY DEF NoRecord
  <1>8. Untouched'
    BY <1>3, <1>6, <1>7 DEF Archive, Untouched, OthersStay
  <1>9. RefusedWroteNothing'
    <2> SUFFICES ASSUME NEW q \in Requests, Refused(q)' PROVE NoRow(q)' /\ NoRecord(q)'
      BY DEF RefusedWroteNothing
    <2>1. q # r
      BY <1>3 DEF Refused
    <2>2. Refused(q)
      BY <1>3, <2>1 DEF Refused, OthersStay
    <2> QED BY <1>6, <1>7, <2>1, <2>2 DEF Archive, RefusedWroteNothing
  <1>10. a \in Wallets => OneRow(r, a, amount)'
    <2> SUFFICES ASSUME a \in Wallets PROVE OneRow(r, a, amount)'
      OBVIOUS
    <2>1. n \in 1..Len(ledger'[a])
      BY <1>1 DEF Grows
    <2>2. ASSUME NEW w \in Wallets, NEW j \in 1..Len(ledger'[w]),
                 ledger'[w][j].by = r
          PROVE  w = a /\ j = n
      BY <1>2, <1>4, <2>2 DEF NoRow
    <2> QED BY <1>1, <2>1, <2>2 DEF OneRow
  <1>11. \A w \in Wallets : \A i \in 1..Len(ledger'[w]) :
           \/ i \in 1..Len(ledger[w]) /\ ledger'[w][i] = ledger[w][i]
           \/ w = a /\ ledger'[w][i].by = r /\ ledger'[w][i].type = type
    BY <1>1, <1>4
  <1> QED BY <1>0, <1>2, <1>3, <1>6, <1>8, <1>9, <1>10, <1>11

\* Who wrote an edition and a payment, and for which account.
LEMMA Writers ==
  ASSUME StoreOK
  PROVE  /\ \A p \in pdfs : p.by \in Requests /\ p.account \in Wallets
         /\ \A p \in payments : p.by \in Requests /\ p.account \in Accounts
  BY DEF StoreOK, Pdf, Payment

\* Editions and payments of others stay as good as they were.
LEMMA OthersPaid ==
  ASSUME IInv, Archive, NEW r, NoRecord(r),
         \A q \in Requests \ {r}, a \in Wallets : \A x :
            OneRow(q, a, x) => OneRow(q, a, x)'
  PROVE  /\ \A p \in pdfs : PdfPaid(p)'
         /\ \A p \in payments : PaymentPosted(p)'
  <1>1. /\ \A p \in pdfs : p.by \in Requests \ {r} /\ p.account \in Wallets
        /\ \A p \in payments : p.by \in Requests \ {r}
    BY Writers DEF IInv, NoRecord
  <1>2. ASSUME NEW p \in pdfs PROVE PdfPaid(p)'
    BY <1>1 DEF Archive, PdfPaid
  <1>3. ASSUME NEW p \in payments PROVE PaymentPosted(p)'
    BY <1>1 DEF Archive, PaymentPosted
  <1> QED BY <1>2, <1>3

\* An edition more in the archive of one account.
LEMMA OneMoreEdition ==
  ASSUME IInv, Archive, NEW a \in Accounts, NEW pdf, pdf \notin pdfs,
         pdf.account = a, pdfs' = pdfs \union {pdf},
         rotation' = [rotation EXCEPT ![a] = @ + 1]
  PROVE  IsFiniteSet(pdfs') /\ RotationCountsEditions'
  <1> DEFINE Of(b) == {p \in pdfs : p.account = b}
  <1>1. IsFiniteSet(pdfs) /\ IsFiniteSet(pdfs')
    BY FS_AddElement DEF Archive
  <1>2. \A b \in Accounts : /\ IsFiniteSet(Of(b)) /\ Cardinality(Of(b)) \in Nat
                            /\ rotation[b] = Cardinality(Of(b)) - 1
    <2>1. \A b \in Accounts : IsFiniteSet(Of(b))
      BY <1>1, FS_Subset
    <2> QED BY <2>1, FS_CardinalityType DEF Archive, RotationCountsEditions
  <1>3. ASSUME NEW b \in Accounts
        PROVE  rotation'[b] = Cardinality({p \in pdfs' : p.account = b}) - 1
    <2>1. CASE b = a
      <3>1. {p \in pdfs' : p.account = b} = Of(b) \union {pdf} /\ pdf \notin Of(b)
        BY <2>1
      <3>2. Cardinality(Of(b) \union {pdf}) = Cardinality(Of(b)) + 1
        BY <1>2, <3>1, FS_AddElement
      <3>3. rotation'[b] = rotation[b] + 1
        BY <2>1 DEF IInv, StoreOK
      <3> HIDE DEF Of
      <3>4. Cardinality({p \in pdfs' : p.account = b}) = Cardinality(Of(b)) + 1
        BY <3>1, <3>2
      <3> QED BY <1>2, <3>3, <3>4
    <2>2. CASE b # a
      <3>1. {p \in pdfs' : p.account = b} = Of(b)
        BY <2>2
      <3>2. rotation'[b] = rotation[b]
        BY <2>2 DEF IInv, StoreOK
      <3> HIDE DEF Of
      <3>3. Cardinality({p \in pdfs' : p.account = b}) = Cardinality(Of(b))
        BY <3>1
      <3> QED BY <1>2, <3>2, <3>3
    <2> QED BY <2>1, <2>2
  <1> QED BY <1>1, <1>3 DEF RotationCountsEditions

\* A generation archives what it charges.
LEMMA CommitGenerationArchive ==
  ASSUME IInv, Archive, NEW r \in Requests, CommitGeneration(r)
  PROVE  Archive'
  <1>1. at[r] = "write" /\ job[r] \in Generations /\ Committable(r)
    BY JobKinds DEF CommitGeneration, IInv, RequestsOK, JobsInv, LockInv, Active
  <1>2. PICK a \in Wallets : a = job[r].account
    <2>1. job[r] \notin Recharges
      BY <1>1 DEF Generations, Recharges
    <2> QED BY <1>1, <2>1 DEF Committable
  <1>3. PICK cost \in Nat : cost = Cost(r)
    BY <1>1, CostType, Halves DEF IInv
  <1>4. PICK pdf : pdf = [by |-> r, account |-> a, pages |-> job[r].pages,
                          rate |-> seen[r].rate, cost |-> cost,
                          date |-> job[r].date]
    OBVIOUS
  <1>5. /\ PostEntry(r, "GENERATION_CHARGE", -cost) /\ -cost \in Int
        /\ Finish(r, "ok")
        /\ pdfs' = pdfs \union {pdf} /\ payments' = payments
        /\ rotation' = [rotation EXCEPT ![a] = @ + 1]
    BY <1>2, <1>3, <1>4 DEF CommitGeneration
  <1>6. pdf.by = r /\ pdf.account = a /\ pdf.cost = cost
        /\ cost = pdf.pages * pdf.rate
    BY <1>3, <1>4 DEF Cost
  <1>7. /\ Untouched' /\ RefusedWroteNothing'
        /\ NoRecord(r)
        /\ \A q \in Requests \ {r}, b \in Wallets : \A x :
              OneRow(q, b, x) => OneRow(q, b, x)'
        /\ OneRow(r, a, -cost)'
        /\ \A w \in Wallets : \A i \in 1..Len(ledger'[w]) :
              \/ i \in 1..Len(ledger[w]) /\ ledger'[w][i] = ledger[w][i]
              \/ /\ w = a /\ ledger'[w][i].by = r
                 /\ ledger'[w][i].type = "GENERATION_CHARGE"
    <2>1. /\ \A p \in pdfs' : p \in pdfs \/ p.by = r
          /\ \A p \in payments' : p \in payments \/ p.by = r
      BY <1>5, <1>6
    <2>2. job' = job
      BY <1>5 DEF Finish
    <2> QED BY <1>1, <1>2, <1>5, <2>1, <2>2, PostedRows DEF EntryTypes
  <1>8. /\ \A p \in pdfs' : PdfPaid(p)'
        /\ \A p \in payments' : PaymentPosted(p)'
    BY <1>5, <1>6, <1>7, OthersPaid DEF PdfPaid
  <1>9. ASSUME NEW w \in Wallets, NEW i \in 1..Len(ledger'[w])
        PROVE  ChargeHasPdf(w, i)' /\ RechargeHasPayment(w, i)'
    BY <1>5, <1>6, <1>7, SMTT(30) DEF Archive, ChargeHasPdf, RechargeHasPayment
  <1>10. IsFiniteSet(pdfs') /\ RotationCountsEditions'
    <2>1. pdf \notin pdfs /\ a \in Accounts
      BY <1>6, <1>7, AccountsAssumption DEF NoRecord
    <2> QED BY <1>5, <1>6, <2>1, OneMoreEdition
  <1>11. \A p, q \in payments' : p.order = q.order => p = q
    BY <1>5 DEF Archive
  <1> QED BY <1>7, <1>8, <1>9, <1>10, <1>11 DEF Archive

\* A recharge posts what its payment says, under an order of its own.
LEMMA CommitRechargeArchive ==
  ASSUME IInv, Archive, NEW r \in Requests, CommitRecharge(r)
  PROVE  Archive'
  <1>1. at[r] = "write" /\ job[r] \in Recharges
    BY JobKinds DEF CommitRecharge, IInv, RequestsOK, JobsInv, Active
  <1>2. PICK amount \in Int : amount = job[r].amount
    <2>1. job[r].amount \in RechargeAmounts
      BY <1>1 DEF Recharges
    <2>2. RechargeAmounts \subseteq Int
      BY InputsAssumption
    <2> QED BY <2>1, <2>2
  <1>3. PICK a : a = job[r].account /\ amount = job[r].amount
    BY <1>2
  <1>4. PICK payment : payment = [order |-> job[r].order, by |-> r,
                                  account |-> a, amount |-> amount]
    OBVIOUS
  <1>5. /\ PostEntry(r, "RECHARGE", amount)
        /\ Finish(r, "ok")
        /\ payments' = payments \union {payment}
        /\ pdfs' = pdfs /\ rotation' = rotation
        /\ ~OrderTaken(payment.order)
    BY <1>3, <1>4 DEF CommitRecharge
  <1>6. payment.by = r /\ payment.account = a /\ payment.amount = amount
    BY <1>4
  <1>7. /\ Untouched' /\ RefusedWroteNothing'
        /\ NoRecord(r)
        /\ \A q \in Requests \ {r}, b \in Wallets : \A x :
              OneRow(q, b, x) => OneRow(q, b, x)'
        /\ a \in Wallets => OneRow(r, a, amount)'
        /\ \A w \in Wallets : \A i \in 1..Len(ledger'[w]) :
              \/ i \in 1..Len(ledger[w]) /\ ledger'[w][i] = ledger[w][i]
              \/ /\ w = a /\ ledger'[w][i].by = r
                 /\ ledger'[w][i].type = "RECHARGE"
    <2>1. /\ \A p \in pdfs' : p \in pdfs \/ p.by = r
          /\ \A p \in payments' : p \in payments \/ p.by = r
      BY <1>5, <1>6
    <2>2. job' = job
      BY <1>5 DEF Finish
    <2> QED BY <1>1, <1>3, <1>5, <2>1, <2>2, PostedRows DEF EntryTypes
  <1>8. /\ \A p \in pdfs' : PdfPaid(p)'
        /\ \A p \in payments' : PaymentPosted(p)'
    BY <1>5, <1>6, <1>7, OthersPaid DEF PaymentPosted
  <1>9. ASSUME NEW w \in Wallets, NEW i \in 1..Len(ledger'[w])
        PROVE  ChargeHasPdf(w, i)' /\ RechargeHasPayment(w, i)'
    BY <1>5, <1>6, <1>7 DEF Archive, ChargeHasPdf, RechargeHasPayment
  <1>10. IsFiniteSet(pdfs') /\ RotationCountsEditions'
    BY <1>5 DEF Archive, RotationCountsEditions
  <1>11. \A p, q \in payments' : p.order = q.order => p = q
    BY <1>5 DEF Archive, OrderTaken
  <1> QED BY <1>7, <1>8, <1>9, <1>10, <1>11 DEF Archive

\* An adjustment posts a row that is neither a charge nor a recharge.
LEMMA CommitAdjustArchive ==
  ASSUME IInv, Archive, NEW r \in Requests, CommitAdjust(r)
  PROVE  Archive'
  <1>1. at[r] = "write" /\ job[r] \in WalletAdjusts /\ job[r].kind = "adjust"
    BY JobKinds DEF CommitAdjust, IInv, RequestsOK, JobsInv, Active
  <1>2. job[r].amount \in Int
    <2>1. job[r].amount \in Adjustments /\ Adjustments \subseteq Int
      BY <1>1, InputsAssumption DEF WalletAdjusts
    <2> QED BY <2>1
  <1>3. PICK type \in {"DEBIT", "CREDIT"} : PostEntry(r, type, job[r].amount)
    BY DEF CommitAdjust
  <1>4. PICK answer \in {"ok", "error"} : Finish(r, answer)
    BY DEF CommitAdjust
  <1>5. payments' = payments /\ pdfs' = pdfs /\ rotation' = rotation
    BY DEF CommitAdjust
  <1>6. /\ Untouched' /\ RefusedWroteNothing'
        /\ NoRecord(r)
        /\ \A q \in Requests \ {r}, b \in Wallets : \A x :
              OneRow(q, b, x) => OneRow(q, b, x)'
        /\ \A w \in Wallets : \A i \in 1..Len(ledger'[w]) :
              \/ i \in 1..Len(ledger[w]) /\ ledger'[w][i] = ledger[w][i]
              \/ ledger'[w][i].type = type
    <2>1. type \in EntryTypes
      BY DEF EntryTypes
    <2> QED BY <1>1, <1>2, <1>3, <1>4, <1>5, <2>1, PostedRows
  <1>7. /\ \A p \in pdfs' : PdfPaid(p)'
        /\ \A p \in payments' : PaymentPosted(p)'
    BY <1>5, <1>6, OthersPaid
  <1>8. ASSUME NEW w \in Wallets, NEW i \in 1..Len(ledger'[w])
        PROVE  ChargeHasPdf(w, i)' /\ RechargeHasPayment(w, i)'
    BY <1>5, <1>6 DEF Archive, ChargeHasPdf, RechargeHasPayment
  <1>9. IsFiniteSet(pdfs') /\ RotationCountsEditions'
    BY <1>5 DEF Archive, RotationCountsEditions
  <1>10. \A p, q \in payments' : p.order = q.order => p = q
    BY <1>5 DEF Archive
  <1> QED BY <1>6, <1>7, <1>8, <1>9, <1>10 DEF Archive

\* A restart adds rows that are no request's, and ends requests as killed.
LEMMA RestartArchive ==
  ASSUME IInv, Archive, Restart
  PROVE  Archive'
  <1>1. /\ Grows
        /\ \A w \in Wallets : \A i \in 1..Len(ledger'[w]) :
              i \in 1..Len(ledger[w]) \/ ledger'[w][i].by = NoRequest
    BY RestartGrows DEF IInv
  <1>2. UNCHANGED <<payments, pdfs, rotation, reply, job>>
    BY DEF Restart
  <1>3. \A q \in Requests : NoneNewBy(q)
    BY <1>1, AccountsAssumption DEF NoneNewBy
  <1>4. /\ \A q \in Requests : NoRow(q) => NoRow(q)'
        /\ \A q \in Requests, a \in Wallets : \A x :
              OneRow(q, a, x) => OneRow(q, a, x)'
    BY <1>1, <1>3, RowsStay
  <1>5. \A q \in Requests : NoRecord(q)' <=> NoRecord(q)
    BY <1>2 DEF NoRecord
  <1>6. \A q \in Requests : at'[q] # "done" => at[q] # "done"
    BY DEF Restart, Active
  <1>7. Untouched'
    BY <1>4, <1>5, <1>6 DEF Archive, Untouched
  <1>8. RefusedWroteNothing'
    BY <1>2, <1>4, <1>5 DEF Archive, RefusedWroteNothing, Refused
  <1>9. /\ \A p \in pdfs' : PdfPaid(p)'
        /\ \A p \in payments' : PaymentPosted(p)'
    <2>1. NoRecord(NoRequest)
      BY Writers, AccountsAssumption DEF IInv, NoRecord
    <2> QED BY <1>2, <1>4, <2>1, OthersPaid
  <1>10. ASSUME NEW w \in Wallets, NEW i \in 1..Len(ledger'[w])
        PROVE  ChargeHasPdf(w, i)' /\ RechargeHasPayment(w, i)'
    BY <1>1, <1>2 DEF Grows, Archive, ChargeHasPdf, RechargeHasPayment
  <1>11. IsFiniteSet(pdfs') /\ RotationCountsEditions'
    BY <1>2 DEF Archive, RotationCountsEditions
  <1>12. \A p, q \in payments' : p.order = q.order => p = q
    BY <1>2 DEF Archive
  <1> QED BY <1>7, <1>8, <1>9, <1>10, <1>11, <1>12 DEF Archive

\* No request has written anything yet.
LEMMA InitArchive == Init => Archive
  <1> SUFFICES ASSUME Init PROVE Archive
    OBVIOUS
  <1>1. payments = {} /\ pdfs = {} /\ \A r \in Requests : reply[r] = "none"
    BY DEF Init
  <1>2. ASSUME NEW w \in Wallets, NEW i \in 1..Len(ledger[w])
        PROVE  ledger[w][i].by = NoRequest
    <2>1. PICK opening \in [Wallets -> InitialBalances] :
             ledger = [x \in Wallets |-> IF x = Demo THEN SeedEntries
                                         ELSE OpeningEntries(opening[x])]
      BY DEF Init
    <2>2. ledger[w] = SeedEntries \/ ledger[w] = OpeningEntries(opening[w])
      BY <2>1
    <2> QED BY <1>2, <2>2 DEF SeedEntries, OpeningEntries
  <1>3. Untouched /\ RefusedWroteNothing
    BY <1>1, <1>2, AccountsAssumption
       DEF Untouched, RefusedWroteNothing, Refused, NoRow, NoRecord
  <1>4. RotationCountsEditions
    <2>1. \A a \in Accounts : {p \in pdfs : p.account = a} = {}
      BY <1>1
    <2>2. Cardinality({}) = 0 /\ \A a \in Accounts : rotation[a] = -1
      BY FS_EmptySet DEF Init
    <2> QED BY <2>1, <2>2 DEF RotationCountsEditions
  <1>5. \A w \in Wallets : \A i \in 1..Len(ledger[w]) :
           ChargeHasPdf(w, i) /\ RechargeHasPayment(w, i)
    BY <1>2 DEF ChargeHasPdf, RechargeHasPayment
  <1> QED BY <1>1, <1>3, <1>4, <1>5, FS_EmptySet DEF Archive

\* Every step keeps the archive in step with the ledger.
LEMMA NextArchive == IInv /\ Archive /\ [Next]_vars => Archive'
  <1> SUFFICES ASSUME IInv, Archive, [Next]_vars PROVE Archive'
    OBVIOUS
  <1>1. ASSUME UNCHANGED <<ledger, payments, pdfs, rotation, at, reply, job>>
        PROVE  Archive'
    BY <1>1, QuietArchive DEF Refused
  <1>2. ASSUME NEW r \in Requests,
               \/ Arrive(r) \/ ReadRate(r) \/ ReadVolume(r) \/ TakeLock(r)
               \/ Refuse(r) \/ LockFails(r) \/ RepeatedOrder(r)
               \/ StatementFails(r) \/ CommitFails(r)
        PROVE  Archive'
    <2>1. UNCHANGED <<ledger, payments, pdfs, rotation>> /\ at[r] # "done"
      BY <1>2 DEF Arrive, ReadRate, ReadVolume, TakeLock, Refuse, LockFails,
                  RepeatedOrder, StatementFails, CommitFails, store
    <2>2. OthersStay(r)
      BY <1>2 DEF Arrive, ReadRate, ReadVolume, TakeLock, Refuse, LockFails,
                  RepeatedOrder, StatementFails, CommitFails, Finish, IInv,
                  RequestsOK, OthersStay
    <2>3. /\ \A q \in Requests : at'[q] # "done" => at[q] # "done"
          /\ \A q \in Requests : Refused(q)' => Refused(q) \/ at[q] # "done"
      BY <2>1, <2>2 DEF OthersStay, Refused
    <2> QED BY <2>1, <2>3, QuietArchive
  <1>3. ASSUME NEW r \in Requests,
               CommitGeneration(r) \/ CommitRecharge(r) \/ CommitAdjust(r)
        PROVE  Archive'
    BY <1>3, CommitGenerationArchive, CommitRechargeArchive, CommitAdjustArchive
  <1>4. ASSUME NEW mils \in PriceInputs, SetPrice(mils)
        PROVE  Archive'
    BY <1>1, <1>4 DEF SetPrice
  <1>5. CASE Restart
    BY <1>5, RestartArchive
  <1>6. CASE UNCHANGED vars
    BY <1>1, <1>6 DEF vars, store
  <1> QED BY <1>2, <1>3, <1>4, <1>5, <1>6 DEF Next, Serve, Fault

\* What the ledger, the payments and the archive know of each other.
LEMMA ArchiveHolds == Spec => []Archive
  BY InitArchive, NextArchive, Invariance, PTL DEF Spec

\* Every edition is paid for by one entry of its cost and every charge of a
\* request has its edition, whichever statement fails and whoever else commits.
THEOREM EditionsArePaid == Spec => []ChargesMatchEditions
<1>1. IInv /\ Archive => ChargesMatchEditions
  BY OneRowEntries, Writers
     DEF IInv, Archive, PdfPaid, ChargeHasPdf, ChargesMatchEditions
<1> QED BY <1>1, Invariance, ArchiveHolds, PTL

\* An order is credited once, for the amount of its payment, though the handler
\* ignores every error on the way.
THEOREM PaymentsArePosted == Spec => []PaymentsMatchCredits
<1>1. IInv /\ Archive => PaymentsMatchCredits
  BY OneRowEntries, Writers
     DEF IInv, Archive, PaymentPosted, RechargeHasPayment, PaymentsMatchCredits
<1> QED BY <1>1, Invariance, ArchiveHolds, PTL

\* No early return of a handler leaves a row behind.
THEOREM RefusalsAreClean == Spec => []RefusedLeavesNoTrace
<1>1. Archive => RefusedLeavesNoTrace
  BY NoRowEntries DEF Archive, RefusedWroteNothing, Refused, NoRecord,
     RefusedLeavesNoTrace
<1> QED BY <1>1, ArchiveHolds, PTL

\* The front-page rotation moves once for each edition archived, for any number
\* of concurrent generations, failures and restarts.
THEOREM RotationHolds == Spec => []RotationCountsEditions
<1>1. Archive => RotationCountsEditions
  BY DEF Archive
<1> QED BY <1>1, ArchiveHolds, PTL

-----------------------------------------------------------------------------
\* Volume numbers.

\* The week count of nextVolumeNumber is the nearest one: at most three days
\* are dropped or added, whatever the dates and whichever comes first.
THEOREM WeeksAreRounded ==
  ASSUME NEW days \in Int
  PROVE  /\ RoundWeeks(days) \in Int
         /\ \A weeks \in Int :
               weeks = RoundWeeks(days) <=> 7 * weeks - 3 <= days /\ days <= 7 * weeks + 3
  <1> DEFINE x == 2 * days + 7
             w == x \div 14
  <1>1. x \in Int /\ w \in Int
    OBVIOUS
  <1>2. 14 * w <= x /\ x < 14 * w + 14
    <2> HIDE DEF x
    <2> QED BY <1>1
  <1> HIDE DEF w
  <1>3. \A weeks \in Int : weeks = w <=> 7 * weeks - 3 <= days /\ days <= 7 * weeks + 3
    BY <1>1, <1>2
  <1> QED BY <1>1, <1>3 DEF RoundWeeks, w, x

\* The baseline after an edition.
After(type, base, date) ==
    IF MovesBaseline(type, base, date) THEN AdvancedBaseline(type, base, date) ELSE base

\* A gap is counted as the comment at H 136-141 says: the number of an edition
\* does not depend on whether one before it was generated or skipped: for a
\* daily paper on any dates, for a weekly one if the edition in question is
\* dated whole weeks after the baseline.
THEOREM GapsAreCounted ==
  ASSUME NEW type, NEW base \in Baseline, base.valid,
         NEW first \in Int, NEW second \in Int, first <= second,
         type = "Weekly" => \E weeks \in Int : first = base.date + 7 * weeks
  PROVE  NextVolume(type, After(type, base, first), second) = NextVolume(type, base, second)
  <1>1. base.number \in Int /\ base.date \in Int
    BY DEF Baseline
  <1> DEFINE n == base.number
             d == base.date
             inc(x) == Increment(type, x)
             moved == AdvancedBaseline(type, base, first)
  <1>2. inc(first - d) \in Int /\ inc(second - d) \in Int /\ inc(second - first) \in Int
    BY <1>1 DEF Increment, RoundWeeks
  <1>3. inc(second - d) = inc(first - d) + inc(second - first)
    <2>1. CASE type # "Weekly"
      BY <1>1, <2>1 DEF Increment
    <2>2. CASE type = "Weekly"
      <3>1. PICK weeks \in Int : first = d + 7 * weeks
        BY <2>2
      <3> DEFINE rest == RoundWeeks(second - first)
      <3>2. rest \in Int /\ 7 * rest - 3 <= second - first /\ second - first <= 7 * rest + 3
        BY <1>1, WeeksAreRounded
      <3> HIDE DEF rest
      <3>3. RoundWeeks(first - d) = weeks
        BY <1>1, <3>1, WeeksAreRounded
      <3>4. RoundWeeks(second - d) = weeks + rest
        <4>1. second - d \in Int /\ weeks + rest \in Int
              /\ 7 * (weeks + rest) - 3 <= second - d /\ second - d <= 7 * (weeks + rest) + 3
          BY <1>1, <3>1, <3>2
        <4> QED BY <4>1, WeeksAreRounded
      <3> QED BY <2>2, <3>3, <3>4 DEF Increment, rest
    <2> QED BY <2>1, <2>2
  <1>4. inc(second - first) >= 0
    <2>1. CASE type # "Weekly"
      BY <2>1 DEF Increment
    <2>2. CASE type = "Weekly"
      <3> DEFINE rest == RoundWeeks(second - first)
      <3>1. rest \in Int /\ second - first <= 7 * rest + 3
        BY WeeksAreRounded
      <3> HIDE DEF rest
      <3>2. rest >= 0
        BY <3>1
      <3> QED BY <2>2, <3>2 DEF Increment, rest
    <2> QED BY <2>1, <2>2
  <1>5. CASE inc(first - d) < 1
    <2>1. NextVolume(type, base, first) = n
      BY <1>5 DEF NextVolume
    <2> QED BY <2>1 DEF MovesBaseline, After
  <1>6. CASE ~(inc(first - d) < 1)
    <2> HIDE DEF inc
    <2>1. NextVolume(type, base, first) = n + inc(first - d)
      BY <1>6 DEF NextVolume, inc
    <2>2. After(type, base, first) = moved
      <3>1. n + inc(first - d) # n
        BY <1>1, <1>2, <1>6
      <3> QED BY <2>1, <3>1 DEF After, MovesBaseline, HasVolume
    <2>3. moved.number = n + inc(first - d) /\ moved.date = first
      BY <2>1 DEF AdvancedBaseline
    <2> HIDE DEF moved, n, d
    <2>4. NextVolume(type, moved, second) = n + inc(first - d) + inc(second - first)
      <3>1. NextVolume(type, moved, second) =
              IF inc(second - first) < 1 THEN moved.number
              ELSE moved.number + inc(second - first)
        BY <2>3 DEF NextVolume, inc
      <3>2. inc(second - first) < 1 => inc(second - first) = 0
        BY <1>2, <1>4
      <3> QED BY <1>1, <1>2, <2>3, <3>1, <3>2 DEF n
    <2>5. NextVolume(type, base, second) = n + inc(second - d)
      <3>1. ~(inc(second - d) < 1)
        BY <1>2, <1>3, <1>4, <1>6
      <3> QED BY <3>1 DEF NextVolume, inc, n, d
    <2> QED BY <1>1, <1>2, <1>3, <2>2, <2>4, <2>5 DEF n
  <1> QED BY <1>5, <1>6

\* A baseline that moves moves forward, in number and in date, daily or weekly.
LEMMA AdvanceIsForward ==
  ASSUME NEW type, NEW base \in Baseline, NEW date \in Int,
         MovesBaseline(type, base, date)
  PROVE  /\ AdvancedBaseline(type, base, date).number > base.number
         /\ AdvancedBaseline(type, base, date).date > base.date
  <1>1. base.number \in Int /\ base.date \in Int
    BY DEF Baseline
  <1> DEFINE days == date - base.date
             inc == Increment(type, days)
  <1>2. ~(inc < 1)
    BY DEF MovesBaseline, NextVolume
  <1>3. inc \in Int /\ (inc >= 1 => days >= 1)
    <2>1. days \in Int
      BY <1>1
    <2> HIDE DEF days
    <2>2. RoundWeeks(days) \in Int /\ (RoundWeeks(days) >= 1 => days >= 1)
      BY <2>1 DEF RoundWeeks
    <2> QED BY <2>1, <2>2 DEF Increment
  <1>4. NextVolume(type, base, date) = base.number + inc
    BY <1>2 DEF NextVolume
  <1> HIDE DEF inc
  <1>5. NextVolume(type, base, date) > base.number /\ date > base.date
    BY <1>1, <1>2, <1>3, <1>4
  <1> QED BY <1>5 DEF AdvancedBaseline

\* A generation whose reading of the baseline is still current when it commits
\* never moves it back: what drifts back had read a baseline another replaced.
THEOREM MovesForward == Spec => CurrentReadMovesForward
<1> DEFINE Forward ==
             \A r \in Requests :
                LET a == job[r].account
                IN  (/\ at[r] = "write" /\ at'[r] = "done"
                     /\ baseline'[a] # baseline[a]
                     /\ seen[r].base = baseline[a])
                    => /\ baseline'[a].date > baseline[a].date
                       /\ baseline'[a].number > baseline[a].number
<1>1. IInv /\ [Next]_vars => Forward
  <2> SUFFICES ASSUME IInv, [Next]_vars, NEW r \in Requests,
                      at[r] = "write", at'[r] = "done",
                      baseline'[job[r].account] # baseline[job[r].account],
                      seen[r].base = baseline[job[r].account]
               PROVE  /\ baseline'[job[r].account].date
                            > baseline[job[r].account].date
                      /\ baseline'[job[r].account].number
                            > baseline[job[r].account].number
    OBVIOUS
  <2>1. PICK q \in Requests : CommitGeneration(q)
    BY DEF Next, vars, store, Arrive, Serve, ReadRate, ReadVolume, TakeLock,
           Refuse, CommitRecharge, RepeatedOrder, CommitAdjust, Fault,
           LockFails, StatementFails, CommitFails, SetPrice, Restart
  <2>2. q = r
    BY <2>1 DEF CommitGeneration, Finish, IInv, RequestsOK
  <2>3. PICK a \in Accounts : a = job[r].account
    <3>1. job[r] \in Jobs
      BY DEF IInv, RequestsOK, JobsInv, Active
    <3> QED BY <3>1, JobFields
  <2>4. job[r].date \in Int
    <3>1. job[r] \in Generations
      BY <2>1, <2>2, JobKinds DEF CommitGeneration, IInv, RequestsOK, JobsInv,
                                  Active
    <3>2. job[r].date \in Dates /\ Dates \subseteq Int
      BY <3>1, InputsAssumption DEF Generations
    <3> QED BY <3>2
  <2>5. seen[r].base \in Baseline
    BY DEF IInv, RequestsOK
  <2>6. baseline' =
          [baseline EXCEPT ![a] =
             IF MovesBaseline(PublicationType[a], seen[r].base, job[r].date)
             THEN AdvancedBaseline(PublicationType[a], seen[r].base, job[r].date)
             ELSE @]
    BY <2>1, <2>2, <2>3 DEF CommitGeneration
  <2>7. baseline \in [Accounts -> Baseline]
    BY DEF IInv, StoreOK
  <2>8. /\ MovesBaseline(PublicationType[a], seen[r].base, job[r].date)
        /\ baseline'[a] =
             AdvancedBaseline(PublicationType[a], seen[r].base, job[r].date)
    BY <2>3, <2>6, <2>7
  <2> QED BY <2>3, <2>4, <2>5, <2>8, AdvanceIsForward
<1>2. CurrentReadMovesForward <=> [][Forward]_vars
  BY PTL DEF CurrentReadMovesForward
<1> QED BY <1>1, <1>2, Invariance, PTL DEF Spec
=============================================================================
