SPECIFICATION FairSpec
CONSTANTS
    None = None
    Id = {i1, i2, i3}
    MaxInFlight = 2
    MaxNonCalls = 1
    MaxFrames = 3
INVARIANTS
    CallsAccounted
    NoFalseDuplicate
PROPERTIES
    CallsAnswered
CHECK_DEADLOCK FALSE
