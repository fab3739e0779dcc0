SPECIFICATION FairSpec
CONSTANTS
    StreamLen = 3
    TCP_PENDING_LIMIT = 2
    PayloadCap = 2
    InitialCredit = 2
    RxCap = 2
    RxBudget = 1
    ControlCap = 2
    U16Max = 2
    MaxInFlight = 2
    MaxWire = 1
INVARIANTS
    TypeOK
    InOrderOnce
    ReleasedOnlyIfTaken
    NoFlowError
    CreditCovered
PROPERTIES
    ImplementsReliableStream
    EventuallyDelivered
CHECK_DEADLOCK FALSE
