\* Two sheets at once: the body stays pinned (NeverLeftPinned is violated).
SPECIFICATION Spec
CONSTANTS
    Bottom = 2
    MaxSaves = 2
    MaxVisits = 3
INVARIANT
    NeverLeftPinned
CHECK_DEADLOCK FALSE
