SPECIFICATION Spec
CONSTANTS
    Users = {u1, u2}
    Nobody = Nobody
    MaxSignIns = 1
    MaxRequests = 2
SYMMETRY Symmetry
INVARIANTS TypeOK OnlyOwnItems ScreensAreOfUser
PROPERTIES BasketChangedByOwner HistoryHasUser
CHECK_DEADLOCK FALSE
