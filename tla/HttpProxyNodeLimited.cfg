SPECIFICATION FairSpec
CONSTANTS
    Tasks = {r1, r2}
    Limited = TRUE
    QueueCap = 1
    Subjects = {s1}
    Malformed = {}
    Unpackable = {}
INVARIANTS NodeTypeOK ExitWaitsForWork OverIsSettled
PROPERTIES StatusMovesForward QueuedRequestSettles StopEnds SchedulerInside
CHECK_DEADLOCK FALSE
