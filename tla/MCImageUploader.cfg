SPECIFICATION FairSpec
CONSTANTS
    Images = {i1, i2}
    NoImage = NoImage
    FailureThreshold = 2
    MaxFaults = 1
INVARIANTS
    TypeOK
    NoImageLost
    NotifiedHasBlob
    QueuedOnce
    KnownIsQueued
PROPERTIES
    EventuallyNotified
    RemovedUnlessFaulty
