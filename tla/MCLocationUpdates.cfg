SPECIFICATION FairSpec
CONSTANTS
    NumUpdates = 3
    Refused = {2}
    MaxDelivery = 2
INVARIANTS
    TypeOK
PROPERTIES
    NeverBack
    CompletedIsApplied
    StartsAgain
CHECK_DEADLOCK FALSE
