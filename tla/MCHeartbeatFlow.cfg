SPECIFICATION FairSpec
CONSTANTS
    Locations = {0, 1}
    MaxQueued = 2
    MaxHandOuts = 2
INVARIANTS
    TypeOK
PROPERTIES
    BackOnlyIfLate
    LocationSettles
