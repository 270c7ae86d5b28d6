SPECIFICATION Spec
CONSTANTS
    Servers = {s1}
    Rooms = {r1, r2}
    RoomsOf <- RoomsOfServers
    Infos = {i1}
    Slots = {1, 2}
    Versions = {1}
    UpdateCap = 1
    TraceLength = 2
    MaxRequests = 3
INVARIANTS TraceOpen SeriesFollowUpdates ExitWaitsForCounted
PROPERTY StopCompletes
CHECK_DEADLOCK FALSE
