SPECIFICATION FairSpec
CONSTANTS
    AXI_LEN_MAX = 1
    MAX_TRANS_OVERLAP = 3
    DRIVER_CNT = 2
    Requests <- OneBurstOrThree
    NoReq = NoReq
    COMPETING = TRUE
    Directions <- ReadOnly
PROPERTIES
    ReadersSpec
CHECK_DEADLOCK FALSE
