CONSTANTS
    Senders = {s1}
    Endpoints = {e1}
    NoEndpoint = NoEndpoint
    MaxConns = 2
    MaxHalves = 4
    MaxSends = 0
SPECIFICATION FairSpec
INVARIANTS
    TypeOK
    DispatchInOrder
    StatusExact
    HealthyKept

    
CHECK_DEADLOCK FALSE
