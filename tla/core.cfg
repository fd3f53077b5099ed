CONSTANTS
    MAX_PLAYER_SLOTS = 2
    WatchCount = 2
    FRAMES_PER_WATCH = 1
    People = {p1, p2}
    NoOne = NoOne
    Maps = {m1}
    NoMap = NoMap
    Values = {v1, v2}
    MaxEvents = 5
SPECIFICATION FairSpec
INVARIANTS
    TypeOK
    WatchesOfPlayers
PROPERTIES
    SweepTellsAll
    ValueTold
CHECK_DEADLOCK FALSE
