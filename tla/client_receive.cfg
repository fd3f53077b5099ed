CONSTANTS
    QueueSize = 1
    MaxOut = 1
    MaxIn = 1
    MaxDrops = 1
SPECIFICATION WorkerSpec
PROPERTIES
    ReceiveReturns
CHECK_DEADLOCK FALSE
