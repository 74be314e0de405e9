\* Three boxes on two pages, two files being read at a time.
SPECIFICATION SeederSpec
CONSTANTS
    LastPage = 2
    MaxBoxes = 3
    MaxReads = 2
INVARIANTS
    SeederTypeOK
    PicturesStayWithTheirBox
    SlotsFollowThePage
CHECK_DEADLOCK FALSE
