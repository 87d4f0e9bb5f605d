SPECIFICATION Spec
CONSTANTS
    Users = {u1, u2}
    SessionIds = {s1, s2}
    Jtis = {j1}
    Slots = {p1, p2}
    None = None
    SessionTTL = 1
    TokenTTL = 1
    RevokeAllTTL = 1
    Faults = TRUE
    MaxClock = 1
    MaxChanges = 2
SYMMETRY Symmetry
INVARIANTS TypeOK LoggedOutRejected ApiLoginLeavesNoSession ChangeEndsSessions
PROPERTIES OnlyOwnerEndsSession SessionsAreCredentials TokensAreCredentials ImplementsAccount
