SPECIFICATION Spec
CONSTANTS
    Agents = {a1, a2}
    Rooms = {r1}
    AgentCap = 2
    ControlCap = 1
    MaxLives = 2
    MaxStarts = 2
    MaxActions = 1
INVARIANTS TypeOK InitialisedHasListened NobodyKnownIsHeard
PROPERTIES LostStaysLost NobodyStaysRegistered
CHECK_DEADLOCK FALSE
