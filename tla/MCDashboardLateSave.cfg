\* In one tab, a save that was given up on is served late: violated.
SPECIFICATION Spec
CONSTANTS
    t1 = t1
    t2 = t2
    Tabs <- OneTab
    Runs <- TwoRuns
    FallbackPages = 2
    ProfilePages = 1
    FirstBalance = 3
    MayFail = TRUE
PROPERTY
    ChargedForItsBoxes
CHECK_DEADLOCK FALSE
