CONSTANTS
    PipeCapacity = 1
    MaxOutput = 1
    MaxWritten = 2
    Count = 3
    Deadline = 5
    Limit <- MCLimit
    Capacity = 1
    MaxSize = 2
    MaxCommands = 2
    Slots = 2
    MaxData = 3
    Items <- MCItems
    Hidden <- MCHidden
    MaxList = 2
    MaxPart = 2
    MaxFile = 3
SPECIFICATION Spec
CHECK_DEADLOCK FALSE
INVARIANTS CommandCleansUp CommandReplyTrue CommandFlows PingTrue
           ManagerUploadsTrue ManagerTransfersApart ManagerEndDrains
           TransferTrue TransferFlows ReadsTrue RestIsQuiet
