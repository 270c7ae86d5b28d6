SPECIFICATION FairSpec
CONSTANTS
    Tasks = {r1, r2, r3}
    Limited = FALSE
    QueueCap = 1
    Subjects = {s1, s2}
    Malformed = {r2}
    Unpackable = {r3}
PROPERTIES QueuedRequestSettles
CHECK_DEADLOCK FALSE
