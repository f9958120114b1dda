SPECIFICATION Spec
CONSTANTS
    Devices = {p1}
    Users = {u1, u2}
    Nobody = Nobody
    NoRecord = NoRecord
    MaxTaps = 3
    MaxFaults = 0
INVARIANTS CurrentUserIsSignedIn
CHECK_DEADLOCK FALSE
