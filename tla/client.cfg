CONSTANTS
    QueueSize = 2
    MaxOut = 3
    MaxIn = 3
    MaxDrops = 1
SPECIFICATION FairSpec
INVARIANTS
    TypeOK
    OutgoingInOrder
    Framing
    RequestsInOrder
    
PROPERTIES
    Recovers
    
CHECK_DEADLOCK FALSE
