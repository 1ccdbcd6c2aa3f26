SPECIFICATION FairSpec
CONSTANTS
    r1 = r1
    Requests = {r1}
    Takes = 3
    Invalid <- RefusedPictures
    CapturedAt <- CaptureTimes
    MaxImages = 1
    MaxDelivery = 2
    MaxRestarts = 1
INVARIANTS
    TypeOK
    ListedWasSent
    UploadedUnlessDisplaced
    CompletedIsRecorded
PROPERTIES
    UploadedIsFinal
    EveryMessageSettled
CHECK_DEADLOCK FALSE
