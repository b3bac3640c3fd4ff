SPECIFICATION FairSpec
CONSTANTS
    plain = plain
    card = card
    secret = secret
    work = work
    home = home
    in1 = in1
    in2 = in2
    out1 = out1
    None = None
    Damaged = Damaged
    Worker = {w1, w2}
    Request = {r1}
    Text = {card, secret}
    OutId = {out1}
    InId = {out1}
    Inbound <- MCEcho
    Scan <- MCScan
    MaxConcurrent = 1
    Quota = 12
    MaxStarts = 1
    MaxReads = 0
    PageLimit = 1
INVARIANTS
    Guarded
    ClaimsExact
PROPERTIES
    DrainedIsSilent
    CallsEnd
CHECK_DEADLOCK FALSE
