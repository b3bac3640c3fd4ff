SPECIFICATION Spec
CONSTANTS
    plain = plain
    card = card
    secret = secret
    work = work
    home = home
    in1 = in1
    in2 = in2
    out1 = out1
    None = None
    Damaged = Damaged
    Worker = {w1, w2}
    Request = {r1}
    Text = {plain, card, secret}
    OutId = {out1, out2}
    InId = {in1}
    Inbound <- MCTrio
    Scan <- MCScan
    MaxConcurrent = 2
    Quota = 16
    MaxStarts = 2
    MaxReads = 0
    PageLimit = 1
CONSTRAINT OneDirection
SYMMETRY Workers
INVARIANTS
    RequestBinds
    InboundBinds
    AnswersStand
    LiveIsReplay
CHECK_DEADLOCK FALSE
