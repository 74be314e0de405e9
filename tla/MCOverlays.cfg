\* Three visits of a page with three places to scroll to, two saves under way.
SPECIFICATION Spec
CONSTANTS
    Bottom = 2
    MaxSaves = 2
    MaxVisits = 3
INVARIANTS
    TypeOK
    PageIsGivenBack
CHECK_DEADLOCK FALSE
