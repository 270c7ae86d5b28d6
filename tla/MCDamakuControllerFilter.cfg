SPECIFICATION Spec
CONSTANTS
    a1 = a1
    a2 = a2
    u1 = u1
    m1 = m1
    e1 = e1
    Messages = {1, 2, 3, 4, 5, 6, 7, 8, 9}
    Body <- Bodies
    Keys = {u1, m1, e1}
    Agents = {a1, a2}
    Registered = {a1}
    Objects = {o1, o2, o3, o4}
    StreamCap = 1
    EventCap = 1
    RecycleCap = 1
    MaxSent = 4
    MaxEvictions = 1
INVARIANT FirstCopyPasses
CHECK_DEADLOCK FALSE
