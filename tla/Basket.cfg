SPECIFICATION Spec
CONSTANTS
    Phones = {p1, p2}
    Items = {x1, x2}
    NoBasket = NoBasket
    MaxBaskets = 2
    MaxTaps = 4
    MaxFaults = 1
SYMMETRY Symmetry
INVARIANTS TypeOK NoPhantomItems OneBasket NothingLost ListShowsBasket
CHECK_DEADLOCK FALSE
