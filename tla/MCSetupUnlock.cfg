\* The plan of the settings page against a profile save after an unlock.
SPECIFICATION Spec
CONSTANTS
    t1 = t1
    t2 = t2
    a1 = a1
    a2 = a2
    twelve = twelve
    Tabs <- TwoTabs
    Accounts <- TwoAccounts
    Plans <- OnePlan
    Nothing = nothing
    Seeded = seeded
    Default = default
    MayFail = TRUE
    MaxSaves = 3
INVARIANTS
    SettingsOwnThePlan
CHECK_DEADLOCK FALSE
