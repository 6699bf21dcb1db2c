\* One request at a time and one upset is enough for a dislike to leave level 1 as it was.
SPECIFICATION CacheSpec
CONSTANTS
    Askers = {a1}
    Threshold = 1
    MaxAsks = 1
    MaxUpsets = 1
    MaxOutages = 0
PROPERTIES
    DislikeClearsCaches
CHECK_DEADLOCK FALSE
