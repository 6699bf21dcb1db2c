\* One piece of work at a time, with two workers or requests and a fault or two.
SPECIFICATION BackgroundSpec
CONSTANTS
    c1 = c1
    c2 = c2
    c3 = c3
    c4 = c4
    k = k
    Items = 2
    DrillRequests = {c1}
    Together = FALSE
    MaxActions = 2
    DrillMaxFaults = 1
    Handlers = {c1, c2}
    TaskAttempts = 3
    DisposalDecisions = 4
    DisposalMaxFaults = 2
    Curators = {c1, c2}
    MaxGaps = 2
    MaxFaqs = 3
    MaxCurations = 3
    GapMaxFaults = 1
    Calls = {c1, c2, c3, c4}
    RowKeys = {k}
    KeyOf <- MCKeyOf
    NoKey = NoKey
    Own = {c1}
    NoCall = NoCall
    Levels = {"REPEATABLE READ", "READ COMMITTED"}
INVARIANTS
    BackgroundTypeOK
    DrillKept
    GapKept
    InsertKept
PROPERTIES
    DisposalKept
    WorkEnds
CHECK_DEADLOCK FALSE
