CONSTANTS
    Capacity = 1
    PtyBuffer = 1
    MaxIn = 4
    MaxOut = 4
SPECIFICATION Spec
CHECK_DEADLOCK FALSE
INVARIANTS InOrder EndKills ExitReported RestIsQuiet
