\* Stalled dispatchers lose their lease while they work, and an operator retries
\* the event while it is dispatched.
SPECIFICATION FairSpec
CONSTANTS
    a = a
    b = b
    d1 = d1
    d2 = d2
    d3 = d3
    o1 = o1
    Subs = {a}
    Dispatchers = {d1, d2}
    Operators = {o1}
    Rank <- MCRank
    SubsOf <- AllSubs
    SubMax <- MCSubMax
    NoOne = NoOne
    NoSub = NoSub
    EventMax = 3
    Stalls = TRUE
    MaxRetries = 1
    MaxFaults = 1
INVARIANTS
    OneRunPerClaim
PROPERTIES
    NoLeaseForever
CHECK_DEADLOCK FALSE
