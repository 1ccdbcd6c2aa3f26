SPECIFICATION Spec
CONSTANTS
    r1 = r1
    Requests = {r1}
    Takes = 1
    Invalid = {}
    CapturedAt <- CaptureTimes
    MaxImages = 1
    MaxDelivery = 1
    MaxRestarts = 0
PROPERTY NeverQueuedAgain
CHECK_DEADLOCK FALSE
