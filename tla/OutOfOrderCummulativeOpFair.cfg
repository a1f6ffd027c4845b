SPECIFICATION FairSpec
CONSTANTS
    DEPTH = 4
    Addrs = {a}
    NoAddr = NoAddr
    STATE_MOD = 1
    WRITE_TO_WRITE_ACK_LATENCY = 1
    WRITE_HISTORY_SIZE = 1
    READ_LATENCY = 0
INVARIANTS
    EachIdOnce
PROPERTIES
    IdsComeBack
