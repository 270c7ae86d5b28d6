SPECIFICATION FairSpec
CONSTANTS
    damaku = damaku
    gift = gift
    rank = rank
    u1 = u1
    m1 = m1
    x = x
    y = y
    Events = {damaku, gift, rank}
    Commands = {"Damaku", "OnlineRankV2"}
    CmdOf <- Kinds
    MetasOf <- Said
    Users = {u1}
    Medals = {m1}
    Values = {x, y}
    EventCap = 2
    MetaCap = 1
    MaxEvictions = 1
INVARIANTS TypeOK CountersExact ReadersKnowLatest NoEventCutOff
PROPERTIES QueuedEventHandled OnlyFullChannelHoldsStop
CHECK_DEADLOCK FALSE
