\* Workers crash or lose a transaction but send their heartbeats in time; the
\* alert is reviewed through its run only.
SPECIFICATION FairSpec
CONSTANTS
    Workers = {w1, w2}
    Nobody = Nobody
    Operators = {o1, o2}
    Generations = 2
    MaxAttempts = 2
    Stalls = FALSE
    LostReplies = FALSE
    AlertApi = FALSE
    MaxTaskOps = 1
    MaxFaults = 2
INVARIANTS
    TypeOK
    RunKept
    OneAgent
PROPERTIES
    DecisionStands
    ReplacedTaskIsInert
    RunSettlesOrTaskDies
CHECK_DEADLOCK FALSE
