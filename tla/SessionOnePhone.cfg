SPECIFICATION Spec
CONSTANTS
    Devices = {p1}
    Users = {u1, u2}
    Nobody = Nobody
    NoRecord = NoRecord
    MaxTaps = 3
    MaxFaults = 2
SYMMETRY Symmetry
INVARIANTS TypeOK RecordOwnerVerified RecordIsOfSignedInUser RecordMatchesDocument
PROPERTIES OnboardingKeptUnlessStale ImplementsAccounts
CHECK_DEADLOCK FALSE
