\* Two recharges with one order id, no fault of any kind.
SPECIFICATION Spec
CONSTANTS
    p1 = p1
    demo = demo
    adm = adm
    r1 = r1
    r2 = r2
    r3 = r3
    Accounts <- AllAccounts
    Wallets <- WalletAccounts
    Demo <- demo
    PublicationType <- TypeOfAccount
    Requests <- TwoRequests
    NoRequest = NoRequest
    Orders = {o1}
    RechargeAmounts = {5000}
    Adjustments <- EmptyTheWallet
    PageCounts = {2}
    Dates = {7}
    PriceInputs <- Prices
    InitialBalances <- OneEdition
    InitialBaselines <- PublishedOnDay0
    MayFail = FALSE
    MaxRestarts = 0
INVARIANT
    AnsweredRechargeIsCredited
