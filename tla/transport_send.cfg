CONSTANTS
    Senders = {s1, s2}
    Endpoints = {}
    NoEndpoint = NoEndpoint
    MaxConns = 2
    MaxHalves = 0
    MaxSends = 3
SPECIFICATION FairSpec
INVARIANT
    PacketsWhole

    
CHECK_DEADLOCK FALSE
