\* Two clicks, in one tab or in two, before or after the profile has answered,
\* with a wallet that may not pay for both.
SPECIFICATION FairSpec
CONSTANTS
    t1 = t1
    t2 = t2
    Tabs <- TwoTabs
    Runs <- TwoRuns
    FallbackPages = 2
    ProfilePages = 1
    FirstBalance = 3
    MayFail = TRUE
INVARIANTS
    TypeOK
    PaidRunOpens
    PanelShowsTheChargedRun
PROPERTIES
    PaidContentIsStored
    ClickIsAnswered
CHECK_DEADLOCK FALSE
