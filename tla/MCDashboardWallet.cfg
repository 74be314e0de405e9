\* The wallet of the dashboard against the abstract wallet, with two tabs.
SPECIFICATION Spec
CONSTANTS
    t1 = t1
    t2 = t2
    Tabs <- TwoTabs
    Runs <- TwoRuns
    FallbackPages = 2
    ProfilePages = 1
    FirstBalance = 3
    MayFail = TRUE
PROPERTY
    ImplementsWalletLedger
CHECK_DEADLOCK FALSE
