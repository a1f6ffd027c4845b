SPECIFICATION InOrderSpec
CONSTANTS
    DEPTH = 8
    Addrs = {a, b}
    NoAddr = NoAddr
    STATE_MOD = 4
    WRITE_TO_WRITE_ACK_LATENCY = 1
    WRITE_HISTORY_SIZE = 1
    READ_LATENCY = 0
SYMMETRY Symmetry
INVARIANTS
    LatestIsWrittenBack
