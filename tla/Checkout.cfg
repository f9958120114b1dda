SPECIFICATION FairSpec
CONSTANTS
    Items = {x1, x2}
    Unpayable = {x2}
    Nothing = Nothing
    MaxTaps = 5
    MaxFaults = 1
INVARIANTS TypeOK AttemptsAccounted HistoryAccounted EmptyListIsDisabled EmptiesWhatWasPaid
PROPERTIES PaymentIsRecorded
CHECK_DEADLOCK FALSE
