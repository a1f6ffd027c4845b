SPECIFICATION FairSpec
CONSTANTS
    Data = {a, b}
    Undef = Undef
    NoPart = NoPart
    OwnId = OwnId
    OtherId = OtherId
    Pipes <- PipesUpTo2
    ITEMS = 3
    COPY_DEPTH = 4
    MAX_FRAME_LEN = 3
    Stages = {"reg", "resizer", "copy", "cdc", "bridge", "crossbar", "lsu_read", "lsu_write"}
    WidthModes = {"hs_up", "hs_down", "axis_up", "axis_down"}
    Masters = {0, 1}
    Slaves = {0, 1, 2}
    Accesses <- SmallAccesses
    MAX_TRANS_OVERLAP = 2
    SLAVE_QUEUE = 2
    BRIDGES = {"to_lite", "to_avalon", "from_avalon", "reorder"}
    Ids = {a, b}
    MAX_LEN = 2
    REQ_DEPTH = 2
    R_DATA_FIFO_DEPTH = 3
    LITE_OVERLAP = 3
    ID_COUNT = 4
    EARLY_ID = FALSE
    AR_STALLS = FALSE
    ReadIds = {0, 1, 2}
    LsuLines = {a, b}
    LSU_ITEMS = 2
    LINE_WORDS = 2
    AlwaysReady = {"hs_up", "cdc"}
INVARIANTS
    ReadsAreShared
    FrameFits
    AnswersMeetRequests
PROPERTIES
    StreamSpec
    FramesAreReplayed
    StagesDeliver
