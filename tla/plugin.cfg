CONSTANTS
    FieldSizes <- Sizes
    Watched <- WatchedNames
    MAX_WATCH_SLOTS = 2
    Schemas <- AllSchemas
    Registries <- AllRegistries
    Values = {0, 1}
    CVAR_PAGE_LENGTH = 1
SPECIFICATION Spec
INVARIANTS
    ConfigRead
    RefusedLeavesNothing
    WatchesRight
    
CHECK_DEADLOCK FALSE
