SPECIFICATION NumberedSpec
CONSTANTS
    AW = 2
    Data <- Pointers
    Undef = Undef
INVARIANTS
    SeenPointersAreInOrder
PROPERTIES
    QueueSpec
    StoredIsDelivered
