\* Three dispatchers, two of which may crash or lose their database, but send their
\* heartbeats as long as they are alive; nobody retries by hand.
SPECIFICATION FairSpec
CONSTANTS
    a = a
    b = b
    d1 = d1
    d2 = d2
    d3 = d3
    o1 = o1
    Subs = {a, b}
    Dispatchers = {d1, d2, d3}
    Operators = {}
    Rank <- MCRank
    SubsOf <- AllSubs
    SubMax <- MCSubMax
    NoOne = NoOne
    NoSub = NoSub
    EventMax = 3
    Stalls = FALSE
    MaxRetries = 0
    MaxFaults = 2
INVARIANTS
    TypeOK
    EventsAreKept
PROPERTIES
    NoRerunAfterSuccess
    EventSettles
CHECK_DEADLOCK FALSE
