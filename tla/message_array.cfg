CONSTANTS
    MAX_PACKET_SIZE = 14
    PROPERTY_LIMIT = 2
    Keys = {101, 105}
    Numbers = {1, 515}
    Strings <- MCStrings
    OutputMax = 2
    MaxPuts = 3
SPECIFICATION Spec
INVARIANT
    ArraySane
CHECK_DEADLOCK FALSE
