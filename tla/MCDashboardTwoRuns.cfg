\* One tab that goes elsewhere and comes back has two runs at once: violated.
SPECIFICATION Spec
CONSTANTS
    t1 = t1
    t2 = t2
    Tabs <- OneTab
    Runs <- TwoRuns
    FallbackPages = 2
    ProfilePages = 1
    FirstBalance = 3
    MayFail = TRUE
INVARIANT
    OneRunAtATime
CHECK_DEADLOCK FALSE
