\* Two slots, three texts or pictures and two saves.
SPECIFICATION Spec
CONSTANTS
    Last = 2
    MayFail = TRUE
    MaxEdits = 3
    MaxSaves = 2
INVARIANTS
    TypeOK
    TypedTextStays
    StoredRowsAreOneSave
CHECK_DEADLOCK FALSE
