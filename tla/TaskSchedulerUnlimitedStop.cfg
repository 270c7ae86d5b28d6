SPECIFICATION FairSchedSpec
CONSTANTS
    Tasks = {t1, t2, t3}
    Limited = FALSE
    QueueCap = 2
PROPERTIES StopsWhenCancelled
CHECK_DEADLOCK FALSE
