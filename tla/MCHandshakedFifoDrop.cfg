SPECIFICATION FairSpec
CONSTANTS
    DEPTH = 3
    Data = {"a", "b"}
    Undef = Undef
    COUNTER_MOD = 4
    DISCARD_AT_WRAP = FALSE
INVARIANTS
    TypeOK
    PointersAgree
PROPERTIES
    QueueSpec
    CommittedIsDelivered
