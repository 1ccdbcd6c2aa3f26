SPECIFICATION FairSpec
CONSTANTS
    Clients = {heartbeat, uploader}
    MaxCalls = 2
    MaxDuplicates = 1
INVARIANTS
    TypeOK
    OwnAnswers
    StaleOnlyWhenLate
PROPERTY RequestsEnd
CHECK_DEADLOCK FALSE
