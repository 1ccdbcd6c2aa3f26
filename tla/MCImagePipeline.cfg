SPECIFICATION PipelineFairSpec
CONSTANTS
    Commands = {c1}
    Supported = {c1}
    MaxDelivery = 2
    NoImage = NoImage
    FailureThreshold = 1
    MaxFaults = 0
INVARIANT CompletedIsSafe
PROPERTIES
    UploaderRefined
    CompletedIsNotified
CHECK_DEADLOCK FALSE
