SPECIFICATION Spec
CONSTANTS
    Items = {x1}
    Unpayable = {}
    Nothing = Nothing
    MaxTaps = 5
    MaxFaults = 1
INVARIANTS PaymentHasBasket
CHECK_DEADLOCK FALSE
