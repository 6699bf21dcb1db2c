\* Workers stall past the cutoff and come back, replies to commits are lost, and
\* the alert is reviewed on its own, too.
SPECIFICATION Spec
CONSTANTS
    Workers = {w1, w2}
    Nobody = Nobody
    Operators = {o1}
    Generations = 2
    MaxAttempts = 1
    Stalls = TRUE
    LostReplies = TRUE
    AlertApi = TRUE
    MaxTaskOps = 1
    MaxFaults = 1
INVARIANTS
    TicketsAreApproved
CHECK_DEADLOCK FALSE
