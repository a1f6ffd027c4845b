---------------------------- MODULE SerialPorts ----------------------------
(* Controllers that put words on a wire bit by bit: UartTx with UartRx on the other end   *)
(* of the wire, SpiMaster, MdioMaster and I2cMasterBitCtrl, one step per clock, with the  *)
(* timers of ClkBuilder.  Bits are 0 and 1, words are sequences in their order on the     *)
(* wire.                                                                                  *)
EXTENDS Integers, Sequences, SequencesExt

CONSTANTS
    UartWords,      \* the bytes that are sent, their first bit first
    BIT_RATE,       \* clocks of a bit of the transmitter: FREQ // BAUD
    OVERSAMPLING,
    SAMPLE_TICKS,   \* clocks of a sample of the receiver: FREQ // BAUD // OVERSAMPLING
    SpiWords,       \* the bytes either side sends, the most significant bit first
    SpiSlaves,
    SPI_HALF_PERIOD,
    SS_WAIT_CLK_TICKS,
    PRE_W, ADDR_W, D_W,   \* of an MDIO frame; ADDR_W bits each for phy and reg
    MDIO_HALF_PERIOD,
    MdioData,       \* the words of D_W bits that are written or that a PHY holds
    BACK_TO_BACK,   \* an MDIO request may follow the last one without a pause
    CLK_CNT,        \* clk_cnt_initVal of the I2C controller
    STRETCHES       \* an I2C slave may hold the clock down

\* initWait has to be a bit of the counter of endOfWord: with its own counter its tick
\* would depend on timersRst and timersRst on it in one clock.
ASSUME SpiTimersShare ==
    /\ \E n \in 0 .. 5 : SPI_HALF_PERIOD = 2 ^ n
    /\ \E n \in 0 .. 5 : SS_WAIT_CLK_TICKS = 2 ^ n
    /\ SS_WAIT_CLK_TICKS < 8

VARIABLES
    tx,          \* UartTx: data, en, its two timers and the register of txd
    rx,          \* UartRx: en, first, RxD_data, its timers, oversampleCntr, RxD_sync
    uart_sent,   \* bytes that were taken and have not come out
    disturbed,   \* a sample of the present bit was disturbed
    spi,         \* SpiMaster: the timer, both clocks, the flags, txReg and rxReg
    spi_cmd,     \* <<>> or the word that is offered, with what its slave replies
    slave,       \* of the SPI: bits it has seen, number of falling edges, clocks of the word
    mdio,        \* MdioMaster: clock, timers, st, is_rx, r_data_vld, tx_reg and rx_reg
    mdio_req,    \* <<>> or the request that is offered
    mdio_cur,    \* the request that is on the wire, <<>> before the first
    phy,         \* of MDIO: ones seen, bits of the frame
    i2c,         \* I2cMasterBitCtrl: st, scl_t, sda_t, filters, al, cmd_stop, dout
    i2c_slave,   \* which lines the slave pulls down
    i2c_cmd,     \* the command at the port
    i2c_due,     \* symbols commanded and not yet on the wires
    i2c_seen     \* <<>> or the symbol that was just seen, and the one that was due

uartVars == <<tx, rx, uart_sent, disturbed>>
spiVars == <<spi, spi_cmd, slave>>
mdioVars == <<mdio, mdio_req, mdio_cur, phy>>
i2cVars == <<i2c, i2c_slave, i2c_cmd, i2c_due, i2c_seen>>
serialVars == <<uartVars, spiVars, mdioVars, i2cVars>>

Bit(b) == IF b THEN 1 ELSE 0

\* A timer counts down and starts again; enableSig stops it, rstSig sets it back.
NextTimer(r, period, en, rst) ==
    IF rst \/ (en /\ r = 0) THEN period - 1 ELSE IF en THEN r - 1 ELSE r

---------------------------------------------------------------------------
(* UART *)

TxTick == tx.en /\ tx.bitTimer = 0
TxLast == TxTick /\ tx.byteTimer = 0

NextTxEn(in) == IF ~tx.en THEN in # <<>> ELSE ~TxLast

\* in is <<>> or <<byte>>.
NextTx(in) ==
    [data |-> IF ~tx.en /\ in # <<>> THEN <<0>> \o in[1] \o <<1>>
              ELSE IF TxTick THEN Append(Tail(tx.data), 1) ELSE tx.data,
     en |-> NextTxEn(in),
     bitTimer |-> NextTimer(tx.bitTimer, BIT_RATE, tx.en, FALSE),
     byteTimer |-> NextTimer(tx.byteTimer, 10, TxTick, FALSE),
     txd |-> IF TxTick THEN tx.data[1] ELSE tx.txd]

SampleTick == rx.en /\ rx.sampleTimer = 0
SampleDone == SampleTick /\ rx.doneTimer = 0
LastBit == SampleDone /\ rx.bitTimer = 0
Oversampled == Bit(rx.ones > (OVERSAMPLING \div 2) - 1)
StartBitWasNotStartbit == rx.first /\ SampleDone /\ Oversampled # 0

\* dataOut.vld and dataOut.data.
RxVld == LastBit /\ rx.data[1] = 0 /\ Oversampled = 1
RxWord == Tail(rx.data)

\* The sample that ends a bit is not counted.
NextOnes == IF SampleDone THEN 0
            ELSE IF SampleTick THEN rx.ones + rx.sync ELSE rx.ones

NextRx(rxd) ==
    [en |-> IF rx.en THEN SampleDone => ~StartBitWasNotStartbit /\ ~LastBit
            ELSE rx.sync = 0,
     first |-> IF SampleDone THEN StartBitWasNotStartbit \/ LastBit ELSE rx.first,
     data |-> IF SampleDone THEN Append(Tail(rx.data), Oversampled) ELSE rx.data,
     sampleTimer |-> NextTimer(rx.sampleTimer, SAMPLE_TICKS, rx.en, ~rx.en),
     doneTimer |-> NextTimer(rx.doneTimer, OVERSAMPLING, SampleTick, ~rx.en),
     bitTimer |-> NextTimer(rx.bitTimer, 10, SampleDone, ~rx.en),
     ones |-> NextOnes,
     sync |-> rxd]

\* Both ends run at one frequency.  flip disturbs the wire for a clock: once in a bit after the
\* start bit, or while no byte is on its way.  No byte is offered while the receiver looks at such a
\* false start: it could take the two together for a start bit that is half a bit early.
UartCycle(in, flip) ==
    /\ flip => ~disturbed /\ IF rx.en THEN ~rx.first /\ ~LastBit ELSE uart_sent = <<>>
    /\ in # <<>> /\ uart_sent = <<>> => ~rx.en /\ rx.sync = 1 /\ ~flip
    /\ disturbed' = (flip \/ (disturbed /\ rx.en /\ ~SampleDone))
    /\ tx' = NextTx(in)
    /\ rx' = NextRx(IF flip THEN 1 - tx.txd ELSE tx.txd)
    /\ uart_sent' = (IF RxVld THEN Tail(uart_sent) ELSE uart_sent) \o (IF tx.en THEN <<>> ELSE in)

UartInit ==
    /\ tx = [data |-> [i \in 1 .. 10 |-> 1], en |-> FALSE, bitTimer |-> BIT_RATE - 1,
             byteTimer |-> 9, txd |-> 1]
    /\ rx = [en |-> FALSE, first |-> TRUE, data |-> [i \in 1 .. 9 |-> 0],
             sampleTimer |-> SAMPLE_TICKS - 1, doneTimer |-> OVERSAMPLING - 1, bitTimer |-> 9,
             ones |-> 0, sync |-> 1]
    /\ uart_sent = <<>>
    /\ disturbed = FALSE

UartNext ==
    /\ \E in \in {<<>>} \cup {<<w>> : w \in UartWords}, flip \in BOOLEAN : UartCycle(in, flip)
    /\ UNCHANGED <<spiVars, mdioVars, i2cVars>>

---------------------------------------------------------------------------
(* SPI *)

SpiEn == ~spi.endOfWordDelayed /\ spi_cmd # <<>>
SpiHalfTick == SpiEn /\ spi.cntr % SPI_HALF_PERIOD = 0
InitWaitDone == SpiEn /\ spi.cntr % (SPI_HALF_PERIOD * SS_WAIT_CLK_TICKS * 2) = 0
TimersRst == ~SpiEn \/ (spi.waitRequired /\ InitWaitDone)
EndOfWord == SpiEn /\ spi.cntr = 0 /\ ~TimersRst

\* The internal clock runs also while the slave gets ready, and its edges tell when to read
\* and to write.
WriteTick == SpiHalfTick /\ spi.clkIntern = 1 /\ ~spi.waitRequired
ReadTick == SpiHalfTick /\ spi.clkIntern = 0 /\ ~spi.waitRequired

NextClkOut == IF ~spi.waitRequired /\ SpiHalfTick THEN 1 - spi.clkOut ELSE spi.clkOut

\* Mutant: the flag stays set between two words.
NextTxInitialized_Stays == WriteTick \/ spi.txInitialized

NextTxInitialized ==
    IF WriteTick /\ ~spi.txInitialized THEN TRUE
    ELSE IF spi.endOfWordDelayed THEN FALSE ELSE spi.txInitialized

NextTxReg ==
    IF ~WriteTick THEN spi.txReg
    ELSE IF spi.txInitialized THEN Append(Tail(spi.txReg), 0) ELSE spi_cmd[1].dout

NextWaitRequired ==
    IF EndOfWord THEN spi_cmd[1].last ELSE spi.waitRequired /\ ~InitWaitDone

Miso == IF slave.falls = 0 THEN 0 ELSE spi_cmd[1].reply[slave.falls]

\* The slave reads on the rising edge of its clock and drives its next bit on the falling one.
SlaveSees ==
    slave' = IF spi.endOfWordDelayed THEN [in |-> <<>>, falls |-> 0]
             ELSE [in |-> IF spi.clkOut < NextClkOut THEN Append(slave.in, spi.txReg[1])
                          ELSE slave.in,
                   falls |-> slave.falls + Bit(spi.clkOut > NextClkOut)]

\* next is the word that is offered when none was or when this one is taken.
SpiCycle(next) ==
    /\ spi_cmd' = IF spi_cmd = <<>> \/ spi.endOfWordDelayed THEN next ELSE spi_cmd
    /\ SlaveSees
    /\ spi' = [cntr |-> NextTimer(spi.cntr, SPI_HALF_PERIOD * 16, SpiEn, TimersRst),
               clkIntern |-> IF SpiHalfTick THEN 1 - spi.clkIntern ELSE spi.clkIntern,
               clkOut |-> NextClkOut,
               waitRequired |-> NextWaitRequired,
               endOfWordDelayed |-> EndOfWord,
               txInitialized |-> NextTxInitialized,
               txReg |-> NextTxReg,
               rxReg |-> IF ReadTick THEN Append(Tail(spi.rxReg), Miso) ELSE spi.rxReg]

\* A frame goes to one slave and its words follow each other at once.
MaySend(cmd) ==
    IF spi_cmd # <<>> /\ ~spi_cmd[1].last THEN cmd # <<>> /\ cmd[1].slave = spi_cmd[1].slave
    ELSE TRUE

SpiCommands == {<<>>} \cup {<<c>> : c \in [slave : SpiSlaves, dout : SpiWords, last : BOOLEAN,
                                           reply : SpiWords]}

SpiInit ==
    /\ spi = [cntr |-> SPI_HALF_PERIOD * 16 - 1, clkIntern |-> 1, clkOut |-> 1,
              waitRequired |-> TRUE, endOfWordDelayed |-> FALSE, txInitialized |-> FALSE,
              txReg |-> [i \in 1 .. 8 |-> 0], rxReg |-> [i \in 1 .. 8 |-> 0]]
    /\ spi_cmd = <<>>
    /\ slave = [in |-> <<>>, falls |-> 0]

SpiNext ==
    /\ \E cmd \in SpiCommands : MaySend(cmd) /\ SpiCycle(cmd)
    /\ UNCHANGED <<uartVars, mdioVars, i2cVars>>

---------------------------------------------------------------------------
(* MDIO *)

READ == <<1, 0>>
WRITE == <<0, 1>>
ADDR_BLOCK_W == 4 + 2 * ADDR_W
FRAME_W == ADDR_BLOCK_W + 2 + D_W
CNTR_MAX == PRE_W + FRAME_W - 1

MdioTick == mdio.half = 0
Rising == MdioTick /\ mdio.clk = 0
Falling == MdioTick /\ mdio.clk = 1
PreambleLast == Falling /\ mdio.timer = PRE_W - 1
AddrBlockLast == Falling /\ mdio.timer = PRE_W + ADDR_BLOCK_W - 1
TurnarroundLastEn == mdio.timer = PRE_W + ADDR_BLOCK_W + 1
DataLast == Rising /\ mdio.timer = CNTR_MAX
ReqRd == mdio.st = "idle" /\ ~mdio.r_data_vld
RdataVld == mdio.st = "idle" /\ mdio.r_data_vld

NextMdioSt ==
    CASE mdio.st = "idle" /\ mdio_req # <<>> /\ ~mdio.r_data_vld -> "pre"
      [] mdio.st = "pre" /\ PreambleLast -> "addr_block"
      [] mdio.st = "addr_block" /\ AddrBlockLast -> "ta"
      [] mdio.st = "ta" /\ TurnarroundLastEn /\ (IF mdio.is_rx THEN Falling ELSE Rising) -> "data"
      [] mdio.st = "data" /\ DataLast -> "idle"
      [] OTHER -> mdio.st

FrameOf(req) == <<0, 1>> \o req.opcode \o req.addr \o <<1, 0>> \o req.wdata

NextTxBits ==
    IF mdio.st = "idle" /\ mdio_req # <<>> THEN FrameOf(mdio_req[1])
    ELSE IF Falling /\ mdio.st \in {"addr_block", "ta", "data"} THEN Append(Tail(mdio.tx_reg), 0)
    ELSE mdio.tx_reg

\* The line is open drain: it is 0 when either side pulls it down.
MasterPulls ==
    /\ mdio.tx_reg[1] = 0
    /\ mdio.st = "addr_block" \/ (mdio.st \in {"ta", "data"} /\ ~mdio.is_rx)
Line == Bit(~MasterPulls /\ ~phy.pulls)

NextRDataVld(rd) ==
    IF mdio.st = "idle" /\ rd THEN FALSE
    ELSE IF AddrBlockLast THEN mdio.is_rx ELSE mdio.r_data_vld

\* The PHY waits for PRE_W ones and a 0; it answers a read after the turnaround.  Its
\* registers hold what reply says.
PhyIsRead == SubSeq(phy.bits, 3, 4) = READ
PhyBit(n) == IF n <= ADDR_BLOCK_W + 1 THEN 1
             ELSE IF n = ADDR_BLOCK_W + 2 THEN 0
             ELSE mdio_cur[1].reply[n - ADDR_BLOCK_W - 2]

PhySees ==
    LET bits == IF Len(phy.bits) = FRAME_W THEN <<>> ELSE phy.bits
        start == Line = 0 /\ phy.ones = PRE_W
        next == Len(bits) + 1
    IN phy' = [ones |-> IF ~Rising THEN phy.ones
                        ELSE IF bits # <<>> \/ Line = 0 THEN 0
                        ELSE IF phy.ones < PRE_W THEN phy.ones + 1 ELSE PRE_W,
               bits |-> IF Rising /\ (bits # <<>> \/ start) THEN Append(bits, Line) ELSE bits,
               pulls |-> IF Falling THEN /\ Len(bits) >= ADDR_BLOCK_W /\ PhyIsRead
                                         /\ PhyBit(next) = 0
                         ELSE phy.pulls]

\* next is the request that is offered when none was or when this one is taken.
MdioCycle(next, rdata_rd) ==
    /\ mdio_req' = IF mdio_req = <<>> \/ ReqRd THEN next ELSE mdio_req
    /\ mdio_cur' = IF ReqRd /\ mdio_req # <<>> THEN mdio_req ELSE mdio_cur
    /\ PhySees
    /\ mdio' = [clk |-> IF MdioTick THEN 1 - mdio.clk ELSE mdio.clk,
                half |-> NextTimer(mdio.half, MDIO_HALF_PERIOD, TRUE, FALSE),
                timer |-> IF mdio.st = "idle" THEN 0
                          ELSE IF Falling THEN (mdio.timer + 1) % (CNTR_MAX + 1) ELSE mdio.timer,
                st |-> NextMdioSt,
                is_rx |-> IF mdio.st = "idle" /\ mdio_req # <<>> THEN mdio_req[1].opcode = READ
                          ELSE mdio.is_rx,
                r_data_vld |-> NextRDataVld(rdata_rd),
                tx_reg |-> NextTxBits,
                rx_reg |-> IF mdio.st = "data" /\ mdio.is_rx /\ Rising
                           THEN Append(Tail(mdio.rx_reg), Line) ELSE mdio.rx_reg]

Requests ==
    {<<r>> : r \in [opcode : {READ, WRITE}, addr : {[i \in 1 .. 2 * ADDR_W |-> i % 2]},
                    wdata : MdioData, reply : MdioData]}

\* Unless BACK_TO_BACK the user offers a request only when the line has been released for a
\* bit: of a preamble that follows a frame at once the PHY sees one bit less.
MdioPause == BACK_TO_BACK \/ (mdio.st = "idle" /\ mdio_req = <<>> /\ phy.ones > 0)

MdioInit ==
    /\ mdio = [clk |-> 0, half |-> MDIO_HALF_PERIOD - 1, timer |-> 0, st |-> "idle",
               is_rx |-> FALSE, r_data_vld |-> FALSE,
               tx_reg |-> [i \in 1 .. FRAME_W |-> 0], rx_reg |-> [i \in 1 .. D_W |-> 0]]
    /\ mdio_req = <<>> /\ mdio_cur = <<>>
    /\ phy = [ones |-> 0, bits |-> <<>>, pulls |-> FALSE]

MdioStep(rdata_rd) ==
    /\ \E next \in {<<>>} \cup (IF MdioPause THEN Requests ELSE {}) : MdioCycle(next, rdata_rd)
    /\ UNCHANGED <<uartVars, spiVars, i2cVars>>

---------------------------------------------------------------------------
(* I2C *)

NOP == [cmd |-> "nop", din |-> 0]
I2cCommands == {NOP, [cmd |-> "start", din |-> 0], [cmd |-> "stop", din |-> 0],
                [cmd |-> "rd", din |-> 0], [cmd |-> "wr", din |-> 0], [cmd |-> "wr", din |-> 1]}
StateCnt(cmd) == IF cmd = "start" THEN 5 ELSE 4

In(cmd, states) == i2c.st[1] = cmd /\ i2c.st[2] \in states

\* A line is 1 when neither the master nor the slave pulls it down.
Scl == Bit(i2c.scl_t = 0 /\ ~i2c_slave.scl)
Sda == Bit(i2c.sda_t = 0 /\ ~i2c_slave.sda)

\* Two registers and then the majority of three samples, which are taken in the clocks in
\* which the shared counter is 0.
Filtered(f) == Bit(f[1] + f[2] + f[3] > 1)
NextFilter(f, path) == IF i2c.filterCntr = 0 THEN <<path[2], f[1], f[2]>> ELSE f
SclIn == Filtered(i2c.sclFilter)
SdaIn == Filtered(i2c.sdaFilter)

StopCond == i2c.lastSda = 0 /\ SdaIn = 1 /\ SclIn = 1
SclSync == i2c.lastScl = 1 /\ SclIn = 0 /\ i2c.scl_t = 0

\* The answer to rd: it is 1 after each rising edge of the clock, whatever the bit is.
NextDout == Bit(i2c.lastScl = 0 /\ SclIn = 1)

\* stateClkEn and slave_wait do not hold up the states; they only time cmd_stop.
NextI2cSt ==
    IF i2c.al THEN <<"idle", 0>>
    ELSE IF i2c.st[1] = "idle"
    THEN IF i2c_cmd.cmd = "nop" THEN i2c.st ELSE <<i2c_cmd.cmd, 0>>
    ELSE IF i2c.st[2] = StateCnt(i2c.st[1]) - 1 THEN <<"idle", 0>>
    ELSE <<i2c.st[1], i2c.st[2] + 1>>

NextSclT ==
    IF i2c.al THEN 0 ELSE
    CASE In("start", 1 .. 3) \/ In("stop", 1 .. 3) \/ In("rd", 1 .. 2) \/ In("wr", 1 .. 2) -> 0
      [] In("start", {4}) \/ In("stop", {0}) \/ In("rd", {0, 3}) \/ In("wr", {0, 3}) -> 1
      [] OTHER -> i2c.scl_t

NextSdaT ==
    IF i2c.al THEN 0 ELSE
    CASE In("start", 0 .. 1) \/ In("stop", {3}) \/ In("rd", 0 .. 3) -> 0
      [] In("start", 2 .. 4) \/ In("stop", 0 .. 2) -> 1
      [] In("wr", 0 .. 3) -> 1 - i2c_cmd.din
      [] OTHER -> i2c.sda_t

CmdAck == ~i2c.al /\ i2c.st \in {<<"start", 4>>, <<"stop", 3>>, <<"rd", 3>>, <<"wr", 3>>}

\* sda_chk is never set, so only a stop that was not commanded counts as lost arbitration.
NextAl == i2c.st[1] = "idle" /\ StopCond /\ ~i2c.cmd_stop

NextSlaveWait == (i2c.scl_t = 0 /\ i2c.delayedScl_t = 1 /\ SclIn = 0)
                 \/ (i2c.slave_wait /\ SclIn = 0)

NextStateClkEn == i2c.clkCntr = 0 \/ SclSync

\* A slave changes SDA while the clock is low, and pulls it down for a bit that is read only.
SlaveMay(pulls) ==
    /\ pulls.scl => STRETCHES /\ Scl = 0
    /\ IF Scl = 1 \/ NextSclT = 0 THEN pulls.sda = i2c_slave.sda
       ELSE pulls.sda => i2c_cmd.cmd = "rd"

BitSymbol(b) == IF b = 0 THEN "0" ELSE "1"

\* The bit of a read is the slave's.
SymbolOf(c) == CASE c.cmd = "start" -> "S" [] c.cmd = "stop" -> "P"
                 [] c.cmd = "rd" -> "rd" [] OTHER -> BitSymbol(c.din)
Meant(symbol) == IF symbol = "rd" THEN BitSymbol(1 - Bit(i2c_slave.sda)) ELSE symbol

\* What a listener on the wires makes of the step from (Scl, Sda) to (scl, sda): a start
\* and a stop at once, a bit when the clock goes down again.
SymbolsOf(scl, sda) ==
    CASE Scl = 1 /\ scl = 1 /\ sda < Sda -> <<"S">>
      [] Scl = 1 /\ scl = 1 /\ sda > Sda -> <<"P">>
      [] Scl = 1 /\ scl = 0 /\ i2c.high -> <<BitSymbol(Sda)>>
      [] OTHER -> <<>>

\* A listener still waits for the symbol of a command that al sends back to its start.
Due ==
    IF i2c.al /\ i2c.st[1] # "idle" THEN Front(i2c_due)
    ELSE IF i2c.st[1] = "idle" /\ NextI2cSt[1] # "idle" THEN Append(i2c_due, SymbolOf(i2c_cmd))
    ELSE i2c_due

\* Only a start is commanded while this master does not hold the bus.
IsLegal(next) ==
    next.cmd \in {"nop", "start"} \/ (IF i2c_cmd = NOP THEN Scl = 0 ELSE i2c_cmd.cmd # "stop")

I2cCycle(next, pulls) ==
    LET symbols == SymbolsOf(Bit(NextSclT = 0 /\ ~pulls.scl), Bit(NextSdaT = 0 /\ ~pulls.sda))
        due == Due
    IN /\ IsLegal(next) /\ SlaveMay(pulls)
       /\ i2c_slave' = pulls
       /\ i2c_cmd' = IF CmdAck \/ i2c_cmd = NOP THEN next ELSE i2c_cmd
       /\ i2c_seen' = IF symbols = <<>> THEN <<>>
                      ELSE symbols \o (IF due = <<>> THEN <<"nothing">> ELSE <<Meant(Head(due))>>)
       /\ i2c_due' = IF symbols = <<>> \/ due = <<>> THEN due ELSE Tail(due)
       /\ i2c' = [st |-> NextI2cSt, scl_t |-> NextSclT, sda_t |-> NextSdaT,
                  high |-> IF Scl = 0 THEN NextSclT = 0 /\ ~pulls.scl
                           ELSE i2c.high /\ symbols = <<>>,
                  sclPath |-> <<Scl, i2c.sclPath[1]>>, sdaPath |-> <<Sda, i2c.sdaPath[1]>>,
                  sclFilter |-> NextFilter(i2c.sclFilter, i2c.sclPath),
                  sdaFilter |-> NextFilter(i2c.sdaFilter, i2c.sdaPath),
                  filterCntr |-> NextTimer(i2c.filterCntr, CLK_CNT + 1, TRUE, FALSE),
                  lastScl |-> SclIn, lastSda |-> SdaIn, dout |-> NextDout,
                  al |-> NextAl,
                  cmd_stop |-> IF i2c.stateClkEn THEN i2c_cmd.cmd = "stop" ELSE i2c.cmd_stop,
                  delayedScl_t |-> i2c.scl_t, slave_wait |-> NextSlaveWait,
                  clkCntr |-> NextTimer(i2c.clkCntr, CLK_CNT + 1, ~i2c.slave_wait, NextStateClkEn),
                  stateClkEn |-> NextStateClkEn]

I2cInit ==
    /\ i2c = [st |-> <<"idle", 0>>, scl_t |-> 0, sda_t |-> 0, high |-> FALSE,
              sclPath |-> <<0, 0>>, sdaPath |-> <<0, 0>>,
              sclFilter |-> <<1, 1, 1>>, sdaFilter |-> <<1, 1, 1>>, filterCntr |-> CLK_CNT,
              lastScl |-> 1, lastSda |-> 1, dout |-> 0, al |-> FALSE, cmd_stop |-> FALSE,
              delayedScl_t |-> 1, slave_wait |-> FALSE, clkCntr |-> CLK_CNT,
              stateClkEn |-> TRUE]
    /\ i2c_slave = [scl |-> FALSE, sda |-> FALSE]
    /\ i2c_cmd = NOP /\ i2c_due = <<>> /\ i2c_seen = <<>>

I2cNext ==
    /\ \E next \in I2cCommands, pulls \in [scl : BOOLEAN, sda : BOOLEAN] : I2cCycle(next, pulls)
    /\ UNCHANGED <<uartVars, spiVars, mdioVars>>

SerialInit == UartInit /\ SpiInit /\ MdioInit /\ I2cInit

---------------------------------------------------------------------------
(* Properties *)

\* A byte comes out of UartRx only as the oldest one that UartTx took, whatever happens to one
\* clock of each bit, and before a third one is taken.
UartBytesArrive ==
    /\ RxVld => uart_sent # <<>> /\ RxWord = Head(uart_sent)
    /\ Len(uart_sent) <= 2

\* When SpiMaster hands over a word the slave has seen the eight bits of the master's and the
\* master has the eight bits of the slave's.
SpiWordsAreExchanged ==
    spi.endOfWordDelayed => slave.in = spi_cmd[1].dout /\ spi.rxReg = spi_cmd[1].reply

\* A frame that a PHY has seen is the one of the request; what was read is what the PHY holds.
MdioFramesMatch ==
    /\ Len(phy.bits) = FRAME_W =>
          /\ SubSeq(phy.bits, 1, ADDR_BLOCK_W) = SubSeq(FrameOf(mdio_cur[1]), 1, ADDR_BLOCK_W)
          /\ mdio_cur[1].opcode = WRITE => phy.bits = FrameOf(mdio_cur[1])
    /\ RdataVld => mdio.rx_reg = mdio_cur[1].reply

\* The wires show the commanded symbols, in their order, and nothing else; the bit of a read is
\* the one of the slave.
I2cShowsCommands == i2c_seen # <<>> => i2c_seen[1] = i2c_seen[2]
===========================================================================
