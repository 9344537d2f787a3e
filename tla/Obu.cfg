CONSTANTS
    Msgs = {m1, m2, m3}
    MaxEntries = 2
    NoMsg = NoMsg
    Reference = 5
    NoLane = NoLane
    MaxMessages = 2
    ValidTimeInterval = 4
    Life = 6
    MaxDelay = 1
    MaxCalls = 1
    Senders = {s1}
SPECIFICATION Spec
INVARIANTS MessagesSafe LightRight UnitSafe
PROPERTIES AuthRecovers
CHECK_DEADLOCK FALSE
