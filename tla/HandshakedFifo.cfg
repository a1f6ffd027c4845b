SPECIFICATION FairSpec
CONSTANTS
    DEPTH = 3
    Data = {a, b}
    Undef = Undef
    INIT_DATA <- NoInitData
    COUNTER_MOD = 4
    FIRST_WORD = Undef
INVARIANTS
    TypeOK
    CountsAgree
PROPERTIES
    QueueSpec
    OfferIsStable
    StoredIsDelivered
