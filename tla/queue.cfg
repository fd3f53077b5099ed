CONSTANTS
    Producers = {p1}
    Consumers = {c1, c2}
    Buffers = {b1, b2}
    NoBuffer = NoBuffer
    NoThread = NoThread
    Size = 2
SPECIFICATION FairSpec
INVARIANTS
    TypeOK
    RingOK
    LockOK
    NoLostWakeup
PROPERTIES
    ImplementsFifo
    CallsReturn
