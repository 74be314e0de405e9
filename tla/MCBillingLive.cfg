\* Two requests on every kind of account, under fairness.
SPECIFICATION FairSpec
CONSTANTS
    p1 = p1
    demo = demo
    adm = adm
    r1 = r1
    r2 = r2
    r3 = r3
    Accounts <- AllAccounts
    Wallets <- WalletAccounts
    Demo <- demo
    PublicationType <- TypeOfAccount
    Requests <- TwoRequests
    NoRequest = NoRequest
    Orders = {o1, o2}
    RechargeAmounts = {5000}
    Adjustments <- EmptyTheWallet
    PageCounts = {2}
    Dates = {7, 14}
    PriceInputs <- Prices
    InitialBalances <- OneEdition
    InitialBaselines <- PublishedOnDay0
    MayFail = TRUE
    MaxRestarts = 1
INVARIANTS
    TypeOK
    PaymentsMatchCredits
    RefusedLeavesNoTrace
PROPERTIES
    CurrentReadMovesForward
    EveryRequestEnds
