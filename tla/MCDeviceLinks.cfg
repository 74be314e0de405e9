\* A link expires unspent and is retired instead of a live one.
SPECIFICATION Spec
CONSTANTS
    p1 = p1
    adm = adm
    b1 = b1
    b2 = b2
    b3 = b3
    Accounts <- PublisherAndAdmin
    Admins <- OnlyAdmin
    NoAccount = NoAccount
    Browsers <- ThreeBrowsers
    Knows <- OneAdmin
    AdminSlots = 1
    MayFail = FALSE
    MaxLinks = 3
    MaxRestarts = 0
SYMMETRY Publishers
INVARIANT
    LinksFitSlots
