SPECIFICATION FairSpec
CONSTANTS
    Components = {"fifo_array", "hash_table", "transactional", "xor", "mask", "cache",
                  "upload", "list", "mmu"}
    k1 = k1
    k2 = k2
    k3 = k3
    k4 = k4
    ARRAY_ITEMS = 3
    Data = {a, b}
    Undef = Undef
    MAX_LISTS = 2
    STRAY_ADDR = FALSE
    TABLE_CNT = 2
    TABLE_ITEMS = 2
    Keys = {k1, k2, k3, k4}
    TableData = {a}
    NoItem = NoItem
    Hash <- HashOf
    MAX_LOOKUP_OVERLAP = 4
    MAX_REINSERT = 2
    PIPE = 2
    DELETE_ABSENT = FALSE
    TABLES_STALL = FALSE
    ITEM_WORDS = 2
    Blocks = {0, 1}
    Versions = {v1, v2}
    Version0 = v0
    Disturbances = {}
    WritePorts = {1, 2}
    RamAddrs = {0, 1}
    Bytes = {0, 1}
    HURRIED = FALSE
    MOVED_ON = FALSE
    READ_IN_ACCUMULATE = FALSE
    Lines <- FourLines
    Ways = {0, 1}
    NoTag = NoTag
    Stale = Stale
    SAME_SET_OVERLAP = FALSE
    UP_ITEMS = 4
    BUFF_DEPTH = 3
    TIMEOUT = 3
    ITEMS_IN_BLOCK = 3
    BURST_LEN = 2
    PTR_MOD = 8
    BLOCK_MOD = 4
    NextBlock <- TwoBlocks
    Virts <- SomeVirts
    MAX_OVERLAP = 4
    RootTable <- TwoTables
    BadBase = BadBase
    Unmapped <- UnmappedItem
INVARIANTS
    StructuresAreKept
    ListsAreIntact
    ItemsAreAtomic
    ReadsSeeWrites
    LinesAreKept
PROPERTIES
    MapIsKept
    OperationsEnd
