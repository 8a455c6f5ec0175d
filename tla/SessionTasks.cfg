CONSTANTS
    stream = stream
    job = job
    command = command
    apply = apply
    report = report
    Tasks = {stream, job, report}
    Kind <- MCKind
    Capacity = 1
    MaxSessions = 2
SPECIFICATION FairSpec
CHECK_DEADLOCK FALSE
INVARIANTS OverMeansCancelled ResultInOnePlace
PROPERTIES OverEnds WorkerEndNoticed Answered
