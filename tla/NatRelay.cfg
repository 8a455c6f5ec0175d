CONSTANTS
    Capacity = 1
    TcpBuffer = 1
    MaxIn = 3
    MaxOut = 3
SPECIFICATION Spec
CHECK_DEADLOCK FALSE
INVARIANTS InOrder EndsNoticed EndDelivers RestIsQuiet
