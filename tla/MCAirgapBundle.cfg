SPECIFICATION FairSpec
CONSTANTS
    Downloads = {d1, d2}
    Uploads = {u1, u2}
    Lists <- MCLists
    Absent = Absent
    MaxFaults = 2
INVARIANTS
    TypeOK
    ChartAfterImages
PROPERTIES
    AppearsOnceWhole
    EventuallyReleased
CHECK_DEADLOCK FALSE
