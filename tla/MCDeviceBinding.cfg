\* Two browsers, two links, faults, restarts and the gate going on and off.
SPECIFICATION Spec
CONSTANTS
    p1 = p1
    adm = adm
    b1 = b1
    b2 = b2
    b3 = b3
    Accounts <- PublisherAndAdmin
    Admins <- OnlyAdmin
    NoAccount = NoAccount
    Browsers <- TwoBrowsers
    Knows <- TwoAdmins
    AdminSlots = 2
    MayFail = TRUE
    MaxLinks = 2
    MaxRestarts = 1
INVARIANTS
    OneDevicePerLink
    OverfillIsBounded
    TokenMatchesCookie
    GateKeepsAdminWork
PROPERTIES
    CurrentIssueFitsSlots
    LastAdminDeviceNeedsARace
    ImplementsEnrolment
