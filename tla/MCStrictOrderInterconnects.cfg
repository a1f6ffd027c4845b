SPECIFICATION FairSpec
CONSTANTS
    AXI_LEN_MAX = 1
    MAX_TRANS_OVERLAP = 3
    DRIVER_CNT = 2
    Requests <- OneBurstOrThree
    NoReq = NoReq
    COMPETING = FALSE
    Directions <- Both
INVARIANTS
    FifosInStep
PROPERTIES
    ReadersSpec
    WritersSpec
    RequestsAreServed
CHECK_DEADLOCK FALSE
