SPECIFICATION FairSpec
CONSTANTS
    NotCalled = NotCalled
    MaxIds = 4
INVARIANTS TypeOK ReadsAccounted
PROPERTIES Delivers
CHECK_DEADLOCK FALSE
