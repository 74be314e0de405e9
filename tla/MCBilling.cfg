\* Three concurrent requests: what the row lock protects.
SPECIFICATION Spec
CONSTANTS
    p1 = p1
    demo = demo
    adm = adm
    r1 = r1
    r2 = r2
    r3 = r3
    Accounts <- WalletAccounts
    Wallets <- WalletAccounts
    Demo <- demo
    PublicationType <- TypeOfAccount
    Requests <- ThreeRequests
    NoRequest = NoRequest
    Orders = {o1}
    RechargeAmounts = {5000}
    Adjustments <- EmptyTheWallet
    PageCounts = {2}
    Dates = {7}
    PriceInputs <- HalfPrice
    InitialBalances <- OneEdition
    InitialBaselines <- PublishedOnDay0
    MayFail = TRUE
    MaxRestarts = 1
SYMMETRY Interchangeable
INVARIANTS
    LedgerExplainsBalance
    ChargesMatchEditions
    RotationCountsEditions
PROPERTIES
    ImplementsWalletLedger
