SPECIFICATION Spec
CONSTANTS
    DEPTH = 4
    Addrs = {a, b}
    NoAddr = NoAddr
    STATE_MOD = 2
    WRITE_TO_WRITE_ACK_LATENCY = 1
    WRITE_HISTORY_SIZE = 3
    READ_LATENCY = 2
SYMMETRY Symmetry
CONSTRAINT FewOpen
INVARIANTS
    EachIdOnce
    LatestIsWrittenBack
PROPERTIES
    CountersSpec
