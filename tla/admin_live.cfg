CONSTANTS
    MAX_PLAYER_SLOTS = 1
    WatchCount = 1
    FRAMES_PER_WATCH = 1
    People = {p1}
    NoOne = NoOne
    Maps = {m1}
    NoMap = NoMap
    Values = {v1, v2}
    NoValue = NoValue
    MAX_QUEUE_SIZE = 2
    NoChannel = {0}
    MaxEvents = 4
    MaxExtras = 0
    MaxSessions = 1
SPECIFICATION FairSpec
PROPERTY
    ServerSees
CHECK_DEADLOCK FALSE
