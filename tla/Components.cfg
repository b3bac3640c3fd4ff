SPECIFICATION PartSpec
CONSTANTS
    Time = {0, 1, 2, 3, 4, 5}
    Window = 2
    Limits = {1, 2}
    None = None
    Partial = Partial
    p = p
    q = q
    k1 = k1
    k2 = k2
    k3 = k3
    Server = {s1, s2}
    Operator = {o1}
    Review = {r1, r2}
    Large = {r1}
    Cmd = {c1, c2}
    Name = {p, q}
    Key = {k1, k2, k3}
    Offered <- MCOffered
    Cert <- MCCert
    MaxRuns = 3
    MaxStream = 7
    FrameLimits = {1, 2, 3}
    Buffers = {2, 3, 4}
    Classified <- MCClassified
    MaxItems = 2
    MaxEntries = 4
    Sizes = {0, 1, 3}
    ListLimits = {1, 2, 3}
    MemoryBudgets = {2, 3, 4}
SYMMETRY Servers
INVARIANTS
    WindowsApart
    ChargesSurvive
    ApprovedAsShown
    ReviewsStand
    SerialOutcome
    PinsVouched
    ExactFrames
    FailsClosed
    QueriesExact
PROPERTIES
    NeverBeyondLimit
CHECK_DEADLOCK FALSE
