\* The last attempt crashes: the run stays running and cannot be retried.
SPECIFICATION FairSpec
CONSTANTS
    Workers = {w1, w2}
    Nobody = Nobody
    Operators = {o1}
    Generations = 2
    MaxAttempts = 2
    Stalls = FALSE
    LostReplies = FALSE
    AlertApi = FALSE
    MaxTaskOps = 0
    MaxFaults = 1
PROPERTIES
    RunSettles
CHECK_DEADLOCK FALSE
