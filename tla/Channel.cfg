SPECIFICATION FairSpec
CONSTANTS
    None = None
    Msg = {m1}
    MaxMessageAge = 2
    Tolerance = 1
    Skews <- MCSkews
    MaxTime = 4
    MaxFaults = 3
    MaxRotations = 2
INVARIANTS
    ReceiptOutlivesEnvelope
PROPERTIES
    ImplementsDelivery
    Delivered
CHECK_DEADLOCK FALSE
