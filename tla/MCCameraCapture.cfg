SPECIFICATION FairSpec
CONSTANTS
    Commands = {c1, c2, bad}
    Supported = {c1, c2}
    MaxDelivery = 2
INVARIANTS
    TypeOK
    CompletedHasImage
    SessionOrder
PROPERTY EverySentSettled
CHECK_DEADLOCK FALSE
