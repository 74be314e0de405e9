\* Two resets of one password overlap: the document re-served is the older one.
SPECIFICATION Spec
CONSTANTS
    a1 = a1
    a2 = a2
    demo = demo
    u1 = u1
    u2 = u2
    u3 = u3
    first = first
    second = second
    Admins <- TwoAdmins
    Usernames <- Names
    DemoUsername = demo
    Passwords <- TwoPasswords
    DemoPassword = first
    MayFail = FALSE
    MaxRequests = 1
    MaxTransactions = 3
    MaxRestarts = 0
SYMMETRY Symmetry
INVARIANT DownloadIsCurrent
CHECK_DEADLOCK FALSE
