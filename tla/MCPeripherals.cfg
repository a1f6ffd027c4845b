SPECIFICATION FairSpec
CONSTANTS
    Peripherals = {"uart", "spi", "mdio", "i2c", "ulpi", "usb"}
    p = p
    q = q
    a = a
    b = b
    c = c
    UartWords <- SomeBytes
    BIT_RATE = 33
    OVERSAMPLING = 8
    SAMPLE_TICKS = 4
    SpiWords <- SomeBytes
    SpiSlaves = {0, 1}
    SPI_HALF_PERIOD = 2
    SS_WAIT_CLK_TICKS = 1
    PRE_W = 4
    ADDR_W = 1
    D_W = 4
    MDIO_HALF_PERIOD = 2
    MdioData <- SomeRegisters
    BACK_TO_BACK = FALSE
    CLK_CNT = 0
    STRETCHES = FALSE
    TxPackets <- PacketsOut
    RxPackets <- PacketsIn
    Statuses = {s0}
    Controls = {c0, c1}
    HASTY_CONTROL = FALSE
    EP0_MAX = 2
    EP1_WORDS = 2
    PACKET_NUMBERS = 2
    IN_PACKETS = 1
    DESCR_LEN = 3
    RequestLens = {5}
    Addresses = {1}
    Losses = {"out_data", "out_corrupt", "out_ack", "in_ack"}
    MAX_LOSSES = 2
    PARTIAL_DRAIN = FALSE
    BULK_WHILE_STALLED = FALSE
INVARIANTS
    WordsArrive
    PhyRegistersFollow
    UsbSidesAgree
PROPERTIES
    TransfersEnd
