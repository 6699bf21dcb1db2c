\* Two calls with one key under the isolation level the application runs with.
SPECIFICATION InsertSpec
CONSTANTS
    c1 = c1
    c2 = c2
    c3 = c3
    c4 = c4
    k = k
    Calls = {c1, c2}
    RowKeys = {k}
    KeyOf <- MCKeyOf
    NoKey = NoKey
    Own = {c1}
    NoCall = NoCall
    Levels = {"REPEATABLE READ"}
INVARIANTS
    CallsReturnARow
CHECK_DEADLOCK FALSE
