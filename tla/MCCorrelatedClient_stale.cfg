SPECIFICATION Spec
CONSTANTS
    Clients = {heartbeat}
    MaxCalls = 2
    MaxDuplicates = 0
INVARIANT AnswersMatch
CHECK_DEADLOCK FALSE
