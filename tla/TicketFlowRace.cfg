\* Two requests at a time, none fails.
SPECIFICATION TicketSpec
CONSTANTS
    Clerks = {c1, c2}
    NoClerk = NoClerk
    MaxTicketEdits = 1
    TicketMaxFaults = 0
INVARIANTS
    FinalResultVisible
CHECK_DEADLOCK FALSE
