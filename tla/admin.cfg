CONSTANTS
    MAX_PLAYER_SLOTS = 2
    WatchCount = 1
    FRAMES_PER_WATCH = 0
    People = {p1, p2}
    NoOne = NoOne
    Maps = {m1}
    NoMap = NoMap
    Values = {v1}
    NoValue = NoValue
    MAX_QUEUE_SIZE = 1
    NoChannel = {1}
    MaxEvents = 4
    MaxExtras = 1
    MaxSessions = 2
SPECIFICATION Spec
SYMMETRY Symmetry
INVARIANTS
    TypeOK
    PlayersExact
    ValuesExact
    
    NothingFalse
PROPERTIES
    NewsOfPlayers
    
CHECK_DEADLOCK FALSE
