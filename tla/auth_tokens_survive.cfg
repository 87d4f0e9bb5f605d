SPECIFICATION Spec
CONSTANTS
    Users = {u1}
    SessionIds = {s1, s2}
    Jtis = {j1}
    Slots = {p1}
    None = None
    SessionTTL = 1
    TokenTTL = 1
    RevokeAllTTL = 1
    Faults = FALSE
    MaxClock = 0
    MaxChanges = 1
SYMMETRY Symmetry
INVARIANTS ChangeRevokesTokens
