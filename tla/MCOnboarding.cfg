\* Two admins approve, reject, create and reset at the same time, with
\* failures and a restart.
SPECIFICATION Spec
CONSTANTS
    a1 = a1
    a2 = a2
    demo = demo
    u1 = u1
    u2 = u2
    u3 = u3
    first = first
    second = second
    Admins <- TwoAdmins
    Usernames <- Names
    DemoUsername = demo
    Passwords <- TwoPasswords
    DemoPassword = first
    MayFail = TRUE
    MaxRequests = 2
    MaxTransactions = 3
    MaxRestarts = 1
SYMMETRY Symmetry
INVARIANTS
    TypeOK
    AccountMeansApproved
    DuplicatesAreBounded
    StoredDocumentIsCurrent
CHECK_DEADLOCK FALSE
