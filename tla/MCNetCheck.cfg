SPECIFICATION FairSpec
CONSTANTS
    h1 = h1
    a1 = a1
    a2 = a2
    Targets <- OneHost
    Addresses = {a1, a2}
    MaxConcurrency = 1
    MaxRounds = 2
    MaxScrapes = 1
INVARIANTS DialsBounded ProbesWithinRunningRound EachOutcomeInOneWindow
PROPERTIES RoundEnds
CHECK_DEADLOCK FALSE
