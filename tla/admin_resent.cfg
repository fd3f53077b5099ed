CONSTANTS
    MAX_PLAYER_SLOTS = 1
    WatchCount = 3
    FRAMES_PER_WATCH = 0
    People = {p1, p2}
    NoOne = NoOne
    Maps = {m1}
    NoMap = NoMap
    Values = {v1}
    NoValue = NoValue
    MAX_QUEUE_SIZE = 2
    NoChannel = {}
    MaxEvents = 4
    MaxExtras = 0
    MaxSessions = 1
SPECIFICATION Spec
INVARIANT
    WatchesResent
CHECK_DEADLOCK FALSE
