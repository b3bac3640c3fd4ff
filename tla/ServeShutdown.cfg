SPECIFICATION FairSpec
CONSTANTS
    Call = {c1, c2}
    Stubborn = {c2}
INVARIANTS
    LogOutlivesWorkers
    NoFalseTimeout
    PeerEndIsClean
    FailureIsReported
PROPERTIES
    TeardownEnds
