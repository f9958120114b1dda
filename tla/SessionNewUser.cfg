SPECIFICATION Spec
CONSTANTS
    Devices = {p1, p2}
    Users = {u1}
    Nobody = Nobody
    NoRecord = NoRecord
    MaxTaps = 2
    MaxFaults = 0
PROPERTIES OnboardingKept
CHECK_DEADLOCK FALSE
