SPECIFICATION FairSchedSpec
CONSTANTS
    Tasks = {t1, t2, t3}
    Limited = TRUE
    QueueCap = 2
INVARIANTS NoEarlyTaskLost
PROPERTIES FifoLaunchSpec EarlyTaskLaunched StopsWhenCancelled
CHECK_DEADLOCK FALSE
