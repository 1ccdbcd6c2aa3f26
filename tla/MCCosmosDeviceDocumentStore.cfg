SPECIFICATION Spec
CONSTANTS
    Writers = {w1, w2}
    Heartbeats = {h1, h2}
    Located = {h1}
    Images = {1, 2, 3}
    Idle = Idle
    MaxHeartbeats = 1
    MaxImages = 2
    MaxWriteAttempts = 2
    MaxCalls = 4
INVARIANTS
    TypeOK
    ImagesAreNewest
    HeartbeatsAreLast
    GivesUpOnlyWhenOvertaken
PROPERTY Atomic
CHECK_DEADLOCK FALSE
