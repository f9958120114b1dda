SPECIFICATION FairSpec
CONSTANTS
    Devices = {p1}
    Users = {u1, u2}
    Nobody = Nobody
    NoRecord = NoRecord
    MaxTaps = 3
    MaxFaults = 0
PROPERTIES LoginLoadsRecord
CHECK_DEADLOCK FALSE
