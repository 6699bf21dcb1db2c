\* A stalled dispatcher and the stale scan disagree about one delivery; nobody
\* retries by hand.
SPECIFICATION Spec
CONSTANTS
    a = a
    b = b
    d1 = d1
    d2 = d2
    d3 = d3
    o1 = o1
    Subs = {a}
    Dispatchers = {d1, d2}
    Operators = {}
    Rank <- MCRank
    SubsOf <- AllSubs
    SubMax <- MCSubMax
    NoOne = NoOne
    NoSub = NoSub
    EventMax = 3
    Stalls = TRUE
    MaxRetries = 0
    MaxFaults = 0
PROPERTIES
    NoRerunAfterSuccess
CHECK_DEADLOCK FALSE
