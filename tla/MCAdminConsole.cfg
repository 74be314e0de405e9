\* One administrator, two accounts and an applicant: the first load and three
\* requests, answered in any order or lost.
SPECIFICATION Spec
CONSTANTS
    a = a
    b = b
    applicant = applicant
    Accounts <- TwoAccounts
    Applicants <- OneApplicant
    None = none
    MayFail = TRUE
    MaxSent = 4
SYMMETRY Symmetry
INVARIANTS
    TypeOK
    HeldIsCurrent
    DisabledControlsComeBack
CHECK_DEADLOCK FALSE
