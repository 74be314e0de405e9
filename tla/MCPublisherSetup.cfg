\* Two publishers share a browser with two tabs; requests may fail.
SPECIFICATION Spec
CONSTANTS
    t1 = t1
    t2 = t2
    a1 = a1
    a2 = a2
    twelve = twelve
    Tabs <- TwoTabs
    Accounts <- TwoAccounts
    Plans <- OnePlan
    Nothing = nothing
    Seeded = seeded
    Default = default
    MayFail = TRUE
    MaxSaves = 3
SYMMETRY Symmetry
INVARIANTS
    TypeOK
    DataStaysWithItsOwner
PROPERTIES
    LockedPlanStays
    BaselineIsKept
CHECK_DEADLOCK FALSE
