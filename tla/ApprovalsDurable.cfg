SPECIFICATION Spec
CONSTANTS
    Server = {s1, s2}
    Operator = {o1}
    Review = {r1, r2}
    Large = {r1}
    None = None
INVARIANTS
    SavedDurably
