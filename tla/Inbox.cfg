SPECIFICATION Spec
CONSTANTS
    plain = plain
    card = card
    secret = secret
    work = work
    home = home
    in1 = in1
    in2 = in2
    out1 = out1
    None = None
    Damaged = Damaged
    Worker = {w1, w2}
    Request = {}
    Text = {plain}
    OutId = {}
    InId = {in1, in2}
    Inbound <- MCTwo
    Scan <- MCScan
    MaxConcurrent = 1
    Quota = 15
    MaxStarts = 1
    MaxReads = 2
    PageLimit = 1
CONSTRAINT Unreviewed
SYMMETRY Workers
INVARIANTS
    NothingSkipped
CHECK_DEADLOCK FALSE
