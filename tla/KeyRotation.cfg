SPECIFICATION Spec
CONSTANTS
    None = None
    Key = {k0,k1,k2}
    FirstKey = k0
    Msg = {m1}
    Quota = 7
SYMMETRY LaterKeys
INVARIANTS
    NeverLockedOut
    PinReachable
    ReceiptsCurrent
    RevocationFinal
    DestructionEvidenced
