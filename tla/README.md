# hwtLib in TLA+

hwtLib is a library of synchronous hardware components written in Python on the
`hwt` framework.  A component declares ports and registers, and its `hwImpl`
describes the combinational logic between them; the framework turns it into VHDL or
Verilog.  What has to be right is therefore not the Python that runs but the circuit
it describes: registers that change together at a clock edge, ready/valid handshakes
between components, and environments that may be ready, silent, slow or early in any
combination.  These modules model such circuits, TLC checks small instances of them,
and TLAPS proves some of their properties for every size.

Conventions.  A register is a variable with the name it has in the source (large
components keep theirs in one record), a block of assignments to it is an operator
`NextX`, and one clock edge is one action (`Cycle`, `InEdge`, ...), which changes all
registers together, as the circuit does.  The inputs of a component are bound by `\E` in
its next-state relation.  Combinational signals are operators.  In the datapumps and the
crossbar, which compose several components, an action is one transfer on the
interfaces.  In the USB device it is one clock in which something happens.

## Inventory

| Part (below `src/hwtLib`) | State | Operations and interaction | Hard behaviour | What makes it correct | Modelled |
|---|---|---|---|---|---|
| `mem/fifo.py`, `handshaked/fifo.py` | pointers, `looped`, memory, counters, output register | write, read, both, reset | full and empty look alike but for `looped`; read data are one clock late | bounded queue, counters agree, an offer stays | one reader |
| `mem/fifoDrop.py`, `handshaked/fifoDrop.py` | two write pointers, two flags, three counters | write, commit, discard, read in any combination | three pointers wrapping in one cycle | queue with a speculative tail | yes |
| `mem/fifoAsync.py`, `handshaked/fifoAsync.py`, `handshaked/cdc.py`, `clocking/cdc.py` | pointers or toggles in two clock domains, synchronisers | edges of two clocks | torn samples, late flags | queue across the clocks | yes |
| `handshaked/reg.py`, `resizer.py`, `amba/axis_comp/resizer.py`, `fifoCopy.py` | one or two words, parts of a word, a ring that is read twice | width, latency and replay of streams | back pressure at the same time as data | ordered stream; frames whole | yes |
| `handshaked/streamNode.py`, `joinFair.py` | none; a rotating priority | synchronise masters and slaves, choose a master | conditions per interface | all or nothing | yes |
| `mem/fifoArray.py` | nodes of lists in one memory | insert, append, pop, two at once | an insert and a pop on one list | lists stay apart | yes |
| `mem/cuckooHashTable.py`, `hashTableCore.py` | tables, stash, a state machine | insert with displacement, lookup, delete, clean | displacement in circles, pipelined tables | a map; every insert ends | yes |
| `mem/ramTransactional.py`, `ramXor.py`, `ramCumulativeMask.py` | memories, transactions, pipelines of writes | several words as one item, several write ports, masks | reads that meet writes under way | items are atomic, reads see the last write | yes |
| `amba/axi_comp/lsu` | ring with two flags per item, CAM, RAM of lines | reads that share a read of the memory, writes in any order of confirmation | lookup in the clock of the insertion, backup word | shared answer is the right one, data leave with their address | without the store queue |
| `amba/axi_comp/cache` | tags, lines, pipeline, victim | read, write, flush | a lookup is old when it is used | a lookup leads to the latest data | yes, items whole |
| `amba/axi_comp/oooOp` | ids, pipeline, write history, reorder buffer | read-modify-write over AXI, many at once | reads overtake writes; stalls in any stage | atomic operations, no lost update | mostly |
| `amba/axi_comp/interconnect`, `amba/datapump` | order fifos, splitting registers, error flags | split a request, merge bursts, route words, crossbar | handshakes of different fifos; errors; arbitration while splitting | each driver gets its packets in order; answers belong to requests | mostly |
| `amba/axi_comp/to_axiLite.py`, `avalon` | burst counters, fifos | bridges between buses | room counted ahead, words of two bursts | bursts and beats match | yes |
| `structManipulators` | pointers into memory, pending requests | circular buffer, linked list, page walk over a datapump | wrapping, cut bursts, late errors | places in memory in their order | mostly |
| `peripheral/uart`, `spi`, `mdio`, `i2c` | timers, shift registers | words on wires | timers of different periods, samples with a glitch | the words arrive | yes |
| `peripheral/usb` | link, device core, control endpoint, FIFOs | packets, transactions, requests | the PHY breaks off at any time; lost packets and acknowledges | both sides agree; data once | mostly |
| parsers and deparsers of AXI-Stream frames, `logic`, displays, Ethernet, MI32, IPIF, `xilinx`, `sim`, `examples`, `tests` | | | | | no, see below |

`PROJECT.json` lists the components with their files, the definitions with the lines
they model, and the hazards: what in this code a test would hardly reach, with the
properties that would notice it.

## Modules

Promises

* `BoundedQueue` – a sequence of at most `Capacity` words.
* `SpeculativeQueue` – a queue of committed words and a stash.
* `OrderedStream` – what leaves a stage is what entered it, in order, once.
* `CounterArray` – an array of counters with atomic increments.
* `InOrderReaders`, `InOrderWriters` – every driver gets its packets, whole and in order; every
  driver's words go to their addresses, and its request is acknowledged when the memory
  answers its last burst.

FIFOs

* `FifoPointers` – `Fifo.fifo_pointers`: pointers and `looped`.  Used by three components.
* `Fifo`, `HandshakedFifo` – `mem/fifo.py` and the ports of `handshaked/fifo.py`, of capacity
  DEPTH + 1; refines `BoundedQueue`.
* `HandshakedFifoDrop` – `mem/fifoDrop.py` and the ports around it; refines `SpeculativeQueue`.
* `HsFifoAsync` – `mem/fifoAsync.py` and its ports, with the synchronisers of `clocking/cdc.py`.  The action of an edge
  moves all registers of that clock; the synchroniser samples, bit by bit, either the old or
  the new value of a pointer that changes between two of its samples (`Between`).  It too
  refines `BoundedQueue`.  `NumberedSpec`, for TLC: words numbered by their position, fairness of clocks.
* `HandshakedFifoProofs`, `HandshakedFifoDropProofs`, `HsFifoAsyncProofs` – the proofs.

Streams and buses made of them (`MCStreamStages` chooses one at the start of a behaviour)

* `HandshakedReg` – each latency mode and chains of them.
* `StreamResizers` – `HsResizer` and `Axi4S_resizer` up and down; a word is the sequence of its parts.
* `Axi4SFifoCopy` – the ring of `mem/fifoCopy.py` with the frame counters around it, and `Axi4SRegCopy`.
* `HandshakedCdc` – both state machines and the pulse generators.
* `AxiCrossbar` – the matrix, its groups, address and data crossbars of both directions.
* `AxiAdapters` – `Axi_to_AxiLite`, `Axi4_to_AvalonMm`, `AvalonMm_to_Axi4`, `ReorderBuffer`.
* `AxiLsu` – `AxiReadAggregator`, `AxiWriteAggregator` with its dispatcher, the CAM inside both.
* `StreamNode` – which interfaces of a node transfer, as a function of what each asserts; the
  choice of `HsJoinFair`.
* `StreamStagesProofs` – the proofs about nodes, the load store unit, the replaying fifo, the bridges, the
  reorder buffer and the crossbar.

Memories and structures (`MCMemories` likewise)

* `FifoArray`, `CuckooHashTable`, `RamTransactional`, `RamPorts` (`RamXorSingleClock`,
  `RamCumulativeMask`), `AxiCache`, `StructManipulators` (`ArrayBuff_writer`, `CLinkedListReader`,
  `MMU_2pageLvl` with `ArrayItemGetter`).  `MemoriesProofs` – the proofs about the memory
  of items, the cache, the RAMs with several ports, the hash table, the lists
  and the structures.

Peripherals (`MCPeripherals` likewise)

* `SerialPorts` – `UartTx` and `UartRx` on one wire, `SpiMaster` with its slave, `MdioMaster`
  with a PHY, `I2cMasterBitCtrl` with a slave that answers reads on SDA; with the timers of `clkBuilder.py`.
* `UtmiToUlpi` – the link, its user and a PHY.
* `UsbDevice` – `Usb2DeviceCore`, the endpoint FIFOs, the control endpoint, and a host.
* `PeripheralsProofs` – the proofs about the registers of the link and about the USB device.

Out of order read-modify-write

* `FifoOutOfOrderRead` – the allocator of ids, on top of `FifoPointers`; also used by `AxiLsu`.
* `OutOfOrderCummulativeOp` – dispatch, pipeline, forwarding and write history, with the
  increment of `examples/axi/oooOp/counterArray.py` as operation; refines `CounterArray`.  The memory
  samples a read at any moment between `ar` and `r` (`Sample`) and shows a write to reads at any moment between
  `aw`/`w` and `b` (`Show`), stalls each channel and answers reads in any order; it shows the writes to one
  counter in their order and acknowledges in order, as the component expects, which does not look at `b.id`
  (`axi_comp/sim/ram.py` is one such memory).  `READ_LATENCY` is the largest number of writes that are acknowledged between the
  sample of a read and its transfer on `r`.  `MCOutOfOrderCummulativeOp` – symmetry, a bound on the operations
  under way, and a memory that answers in order.  `OutOfOrderCummulativeOpProofs` – the proofs.

Datapumps

* `AxiDatapumpBase` – `addrHandler` with splitting, and the request side of both
  interconnects: drivers, fair join and the order fifo.
* `RStrictOrderInterconnect`, `WStrictOrderInterconnect` – datapump, interconnect, memory and
  drivers of one direction.  A step is one joint transfer: a driver raises a request (`ROffer`,
  `WOffer`), a burst goes to the memory, and with the last one the request is acknowledged
  and its driver recorded (`RDispatch`, `WDispatch`), a word comes back (`Beat`) or goes out
  (`Word`), the memory answers a burst (`Response`), or an error response is seen while it
  waits (`BadAnswer`, `BadWriteAnswer`).  Clocks without a transfer change nothing but the
  position of the priority, which is therefore arbitrary at each transfer.  The fifos are
  sequences: that `HandshakedFifo` implements a queue is what `ImplementsQueue` proves.
* `MCStrictOrderInterconnects` – a behaviour is one of either direction, fixed at the start.
* `StrictOrderInterconnectsProofs` – the proofs about both directions.

## Runs

| Run | Instance | Shows |
|---|---|---|
| `hs_fifo` | ring of 3 slots (not a power of two: the wrap is explicit), 2 words | `TypeOK`; `CountsAgree` (pointers, flags, counters); `QueueSpec`; `OfferIsStable`; `StoredIsDelivered` |
| `hs_fifo_drop` | ring of 3 slots, 2 words | `TypeOK`; `PointersAgree` (both write pointers, flags and counters describe one ring; the input waits for a full memory only); `QueueSpec`; `CommittedIsDelivered` |
| `hs_fifo_async` | 4 slots, 3 bit pointers | `SeenPointersAreInOrder` (torn samples are never out of order); `QueueSpec`; `StoredIsDelivered` |
| `ooo_counters` | 4 ids of which 2 are in use at a time, 2 counters of one bit, read latency of 2 writes, a history of 3 | `EachIdOnce`; `LatestIsWrittenBack` (no lost update); `CountersSpec` |
| `ooo_ids` | 4 ids, one counter without value, a history of 1 | `EachIdOnce` with all ids in use; `IdsComeBack` |
| `datapumps` | 2 drivers, bursts of 2 words, 3 transfers in flight, requests of 2 and 5 words, either direction | `FifosInStep` (address and data side cut a request alike); `ReadersSpec`, `WritersSpec`; `RequestsAreServed` |
| `stream_stages` | see the constants in its cfg | `StreamSpec` (registers, resizers, cdc, bridges and line writes are ordered streams); `FrameFits`, `FramesAreReplayed` (replaying fifo); `AnswersMeetRequests` (crossbar, bridges, reorder buffer, write aggregator); `ReadsAreShared` (read aggregator); `StagesDeliver` |
| `memories` | two to four items of each kind | `ListsAreIntact`; `MapIsKept`; `ItemsAreAtomic`; `ReadsSeeWrites`; `LinesAreKept`; `StructuresAreKept`; `OperationsEnd` |
| `peripherals` | bytes of two patterns, two packets each way, a host with two losses | `WordsArrive`; `PhyRegistersFollow`; `UsbSidesAgree`; `TransfersEnd` |
| `drop_discard_at_wrap`, `ooo_history`, `read_competing_split` | | counterexamples, see below |

Bounds.  All state spaces are finite: the registers have
the size the constants give them, and what could grow is bounded in the guards of the environment.
Only `ooo_counters` has a state constraint, `FewOpen`, which keeps two operations under way at a time; with three the run
exceeds 1.2 million states.  Two are enough for one to read before the other has written and to be held off for as
long as the memory likes; chains of more are the matter of the proofs.
The rings are the smallest in which every
combination of pointer positions, wrap flags and one-clock-late words occurs, and in
which the depth is not a power of two where the code compares with `MAX_DEPTH`
explicitly.  The asynchronous FIFO needs `AW >= 2`, because the full test inverts two bits;
its words carry their position, because the circuit never looks at a word and what
could go wrong is which word comes out.  Four ids are fewer than the stages of the pipeline plus the
memory, so they run out in `ooo_ids`; two counters are enough for an operation to collide with
one and overtake another; one-bit values tell one lost increment from none.  `ooo_ids`
drops the values because the control of the pipeline does not depend on them except for
collisions, which only select data.  A request of five words is split into three
bursts of which the last is shorter, one of two words just fits, and three transfers
in flight are what such a request needs.  Two requests and two drivers are enough for
every order of neighbours in the order fifos.

The pipes of `stream_stages` are each kind of register alone and before another kind; frames
of up to three words go round a ring of four slots; three parts are the smallest ratio with a
part that is neither first nor last; the accesses of the crossbar include groups that share a
slave, that share none, and that leave a gap in the numbers; bursts have one to three words and fifos room
for two or three, so that each of them fills; the line reads use three ids for two lines.  In
`memories` three of four keys share both of their slots in two tables of two, so that an insertion
cannot succeed and runs into MAX_REINSERT; a cache set has three lines for two ways; a linked list
has blocks of three items, read in bursts of two, so that bursts are cut at the end of a block.
In `peripherals` a bit of the UART has 33 clocks and four of them make a sample, which drifts
as it does with real divisions; the bytes contain a bit between two others and no change at all.
The control transfer has three packets of which the last is not full.  The USB part was
checked with larger instances once: wLength 1 and 9, two addresses, and packet
numbers up to 4 with three packets waiting, without another result.

Deadlock is checked, except for the datapumps: after an error response they close
the address channel for ever, and with nothing left to transfer the system stops.

`CountersSpec` is about what is reported at `dataOut`; after a reset the memory may hold
writes whose completion was never reported, which `CounterArray.Clear` allows.

### Disagreements of code and documentation

Three runs end with a counterexample; the sentence of a comment that each of them refutes is
quoted in `PROJECT.json`.

* `drop_discard_at_wrap` – a discard in the cycle in which the reader leaves the last slot
  restores a `looped` that is cleared in that cycle; the empty FIFO then holds off its
  producer until another discard, or a reset, clears it.
* `ooo_history` – with eight ids a finished write can leave the one-entry history
  before a held-off operation that read too early has passed STATE_LOAD: an update is
  lost, even with a memory that answers in order and samples a read when it answers.  The docstring
  (`outOfOrderCummulativeOp.py:42-48`) expects a history of 3 to 4 items; the default
  of `WRITE_ACK_TO_READ_DATA_LATENCY` is 1.  What is needed for `n` operations under way is
  `READ_LATENCY + min(WRITE_TO_WRITE_ACK_LATENCY + 2, n - 1)`: the proofs show that it is enough for every `n`, and TLC
  finds a lost update with one less.
* `read_competing_split` – the arbiter changes its choice between the parts of a split
  request; a competing request is acknowledged with the last part and gets the data of the other.
  This concerns code shared by the two directions.

Elsewhere the checks show that a comment is wrong without a counterexample to the code, or the code does
less than a comment says:

* `cuckooHashTable.py:46-47` says that a failing insert ends in an infinite loop and reinserts items for
  ever.  The code counts the reinsertions and hands the item left over to `insertRes` with `pop` (`:318-324`,
  `:378`); `OperationsEnd` holds in `memories`, where three keys share both of their slots.
* `masterBitCntrl.py:124` says that a slave may delay the cycle by pulling SCL low.  `stateClkEn` and
  `slave_wait` time only `cmd_stop`, the states go on at every clock (`:265-280`), so a stretched clock loses bits
  (`STRETCHES`), and `clk_cnt_initVal` slows the filters but not the commands (`CLK_CNT`).  `dout`, the answer to
  READ, tells that the clock has risen and not what SDA was (`:195-197`); it is in the model and no property is about it.
* `ramXor.py:129` calls the writes in progress "used for write forwarding on read ports".  The forwarding compares
  them with the address that is on the read port one clock after the read (`:169`), so a read one clock after
  its write returns the old word unless its port stays at the address.

### Situations the passing runs leave out

Some components hold their promise only if their users avoid a situation that the code does not
exclude.  Each has a name; with the other value TLC finds the counterexample that the hazard
at that line describes.

| Constant | Left out | With it |
|---|---|---|
| `DISCARD_AT_WRAP`, `COMPETING` | the findings above | see there |
| `HistoryIsEnough` (`ooo_counters`, proofs) | a write history shorter than the memory and the pipeline need, as the default is | a lost update |
| `INIT_DATA` shorter than DEPTH (`HandshakedFifoProofs`) | a FIFO preset to the last slot: `write_ptr` starts at the last slot instead of 0 with `looped` | the counters wrap around |
| `AlwaysReady` has `hs_up` and `cdc` | a consumer of the upscaling `HsResizer` or of `HandshakedCdc` that is not ready at once | a word is lost, or is offered twice |
| `COPY_DEPTH > MAX_FRAME_LEN` | an `Axi4SFifoCopy` with DEPTH = MAX_FRAME_LEN + 1, which its docstring (`fifoCopy.py:69`) allows | the last word of the longest frame has no slot, and the component waits for ever |
| `STRAY_ADDR` | a first item of a list with any `addr` in `FifoArray` | another list is cut |
| `DELETE_ABSENT`, `TABLES_STALL` | deletion of a key that is not there; tables that refuse a write | another key is lost, or a deleted one stays |
| `Disturbances` | late data of a write, a slow reader, a flush during a read of `RamTransactional` | words of two versions |
| `HURRIED` | two ports that write one RAM address in neighbouring clocks | the later one takes a stale column: a wrong word |
| `MOVED_ON` | a read port that is, while its word comes out, at another address that was just written | the word of that address, or a mixture |
| `READ_IN_ACCUMULATE` | a read of another word in the second clock of an accumulation | the accumulated word instead |
| `SAME_SET_OVERLAP` | a write to a cache set before the last one to it is done | two lines in one way |
| `AR_STALLS` | a write offered while a read waits for room in `AvalonMm` bridge with READ first | an address without acceptance |
| `EARLY_ID` | reuse of an id before its word has left the reorder buffer | the word is overwritten |
| `STRETCHES`, `CLK_CNT > 0` | an I2C slave that holds the clock down; `clk_cnt_initVal` above 0 | bits are lost; a false loss of arbitration |
| `BACK_TO_BACK` | an MDIO request directly after a frame | a preamble of 31 bits |
| `SpiTimersShare` | SPI timers that are not powers of two of one counter | endless loop of combinational signals |
| `HASTY_CONTROL` | a control register changed while one is written to the PHY | the PHY keeps the old value |
| `Losses` | lost tokens and lost IN data | data of one endpoint in another; a packet is not repeated |
| `PARTIAL_DRAIN`, `BULK_WHILE_STALLED` | a packet sent into a FIFO that is partly drained; bulk transactions while a request is refused | lost words; a wrong stall |
| `NoFullLastPacket` | a control transfer whose last packet is full | no status stage |

`MAX_TRANS_OVERLAP` of the datapumps has just room for the longest request: one with more bursts blocks
the pair of interconnect and datapump for ever (`RequestsAreServed` fails with 2 instead of 3).  An `extraCond` of a `StreamNode` blocks only its own
interface.  `Usb2DeviceCore` answers
a PING by looking at the transmit FIFO instead of the receive FIFO; PING is not modelled.

### Fairness

* FIFOs: the clock has edges for ever, and a consumer that is offered a word again and
  again takes it at some time.  Nothing is assumed of the producer, so `StoredIsDelivered`
  holds for the last word too.
* Two clocks: both have edges for ever, without any bound on their ratio.
* Out of order pipeline: the AXI slave serves each channel at some time (`Dispatches`,
  `Answers`, `Writes`, `Finishes`, each weakly fair: valid is not withdrawn on these
  channels, so a possible transfer stays possible), a read that was accepted samples its counter and a write
  that was taken becomes visible (`WF` of `Sample` and `Show`).
* Datapumps: the memory answers (`WF` of `Beat` and of `Response` without error), the drivers
  send their words (`WF` of `Word` for each), and an address is taken when there is one for long
  enough (`WF` of the dispatch of any driver).  Nothing is assumed of whose request is selected: with two drivers and
  a memory that is ready in every second clock the same driver is always first (`joinFair.py:75`).
  `RequestsAreServed` therefore promises a driver that waits to be selected only that somebody is served
  again and again; without this exception TLC shows the starvation.  Once selected, a request ends.
* Crossbar: a master that asks has the priority at some time (`SF` of its dispatch, for the same
  reason), sends what it announced, and a slave goes on when it can.
* Bridges, load store unit, structures in memory: clocks go on, and again and again there is one in
  which everyone around the component is ready (`...Eager`).  Nothing is assumed of the order in
  which partners become ready.
* Serial ports: the clock only; everything else in them is the component's own.
* USB: what has begun on the bus goes on (`WF`), the function reads what it can again and again (`SF`),
  and the host goes on with its control transfers and with OUT packets (`SF`, since the bus is shared
  with other transactions).  Losses are bounded in number (`MAX_LOSSES`), which stands for "not for ever".
* ULPI: no liveness, because the PHY may take the wires in any clock and a write may be broken off
  for ever; the standard gives no bound either.

## Proofs

Eight modules hold theorems; what each assumes beyond the named ASSUMEs on its constants is an explicit
hypothesis of the theorem.  Inductive invariants were checked by TLC on small instances before they
were proved, except where a witness is out of its reach (`ChainsInv`, and the sums in `LiteInv` and
`CrossInv`).

### FIFOs

`HandshakedFifoProofs` begins with lemmas about the ring: the successor of a slot, the number of stored
words as a function of the pointers and `looped`, and how a read, a write, or both change it.
It has the theorems

* `TypeCorrectness` – `Spec => []TypeOK`,
* `CountersAgree` – `Spec => []CountsAgree`,
* `OfferStability` – `Spec => OfferIsStable`,
* `ImplementsQueue` – `Spec => QueueSpec`, without initial data,

for every DEPTH, every set of words and every counter width that holds the capacity.
They assume that INIT_DATA leaves a slot free (`Len(INIT_DATA) <= MAX_DEPTH`), which is
necessary.  The inductive invariant is
`TypeOK /\ CountsAgree`: the counters alone are not inductive, since an enable
must be known to be refused exactly at the states the counters call full and empty, and
`looped` may only be cleared while it is set, which follows from
the equality of counter and pointer distance.  For `ImplementsQueue` the contents are a function
from positions to slots; a step is shown to append, to drop the first, or both.

`HandshakedFifoDropProofs` proves, for every DEPTH, set of words and counter width and with
`~DISCARD_AT_WRAP`,

* `TypeCorrectness` – `Spec => []TypeOK`,
* `PointersStayInStep` – `Spec => []PointersAgree`,
* `ImplementsSpeculativeQueue` – `Spec => QueueSpec`.

The invariant adds to `PointersAgree` on which side of the reader each
pointer is according to its flag, and that no slot in use is unwritten.  The core is `CycleDistances`, which
says how far each end of the ring moves in a clock, for all four inputs at once; `CycleSlots` says
where the word at each position comes from, `CycleQueues` puts both together to what a clock does to the
committed words and the stash, `CycleContents` adds the output register.  The
assumption is used in one place: the reader does not wrap in the clock of a discard.

`HsFifoAsyncProofs` proves, for every address width AW >= 2 and every set of words, without further
assumptions,

* `SeenPointersStayInOrder` – `Spec => []SeenPointersAreInOrder`,
* `ImplementsQueue` – `Spec => QueueSpec`.

The producer of these theorems sends any words; the numbered words of the run are an instance.
The proof starts with Gray codes of any width: different pointers have different codes
(`CodesDiffer`), a step changes exactly one bit, also the step from the last pointer to 0
(`OneBitChanges`), so what is sampled between two neighbours is one of them (`TornSample`), and the
two inverted bits of the full test are half a turn (`FullIsHalfATurn`), both ways.  Bits are `n \div pow2[i] % 2` with
`pow2` a recursive function; that the function exists is proved from tables of finite length
(`TableExists`), and induction over bit positions is the search for a least counterexample
(`Upward`, `Downward`), since the induction theorems of the library cannot be instantiated.
The pointers alone are not enough for an inductive invariant, because "older" means nothing on a ring: `Counted` gives
each code in a register or on a wire the number of words that had been written or read when it left its
side, and says how the eight numbers are ordered, that the writer is at most
DEPTH ahead of the oldest number it knows, and that each flag is on whenever the newest knowledge does not
exclude it.  `CellsInv` says which slots are written.  As a read is allowed only where the reader's
own knowledge shows a word, a slot is never read in the clock that writes it.

### Out of order read-modify-write

`OutOfOrderCummulativeOpProofs` proves, for every number of ids, counters, values and stages,

* `IdsAreUsedOnce` – `Spec => []EachIdOnce`,
* `TheLatestIsWrittenBack` – `Spec => []LatestIsWrittenBack`, with `HistoryIsEnough`:
  `WRITE_HISTORY_SIZE >= READ_LATENCY + WRITE_TO_WRITE_ACK_LATENCY + 2`,
* `ImplementsCounterArray` – `Spec => CountersSpec`, with the same assumption.

The memory samples a read whenever it likes between `ar` and `r` and shows a write whenever it likes before its
acknowledge.  The run `ooo_history` is the reason for the assumption: with a short history an update can be
lost.  `IdInv` says where each id is (free, in a stage, at the memory, in the history).  `DataInv` consists of
`YoungestIsInMemory` (the youngest stage of a counter holds what the memory was given last),
`SampledIsRead` and `StaleIsFollowed` (an answer that is not the latest value was sampled so few acknowledges ago that
the write it has missed is still in a stage STATE_LOAD looks at), `AnswersAreFollowed` and `LoadedIsLatest` (an
operation in any stage either has the latest value of its counter or will meet it in a stage it has not passed
yet).  `SeenInv` says which writes reads see, and `ReportInv` that what was written is what was reported.

### Datapumps

`StrictOrderInterconnectsProofs` proves, for any number of drivers, requests, burst lengths and
transfers in flight,

* `ReadsStayInStep` – `[]ReadFifosInStep`,
* `FifosStayInStep` – `[]FifosInStep` of both directions, with `~COMPETING`,
* `ImplementsInOrderWriters` – `FairSpec => WritersSpec`, with `~COMPETING`.

The invariant says that the bursts under way, read in the order of the order fifo, are a cut of the requests of
the drivers: the n-th word of the data side belongs to the burst that the address side made of
that word.  `~COMPETING` is needed, as the run `read_competing_split` shows.

### Streams

`StreamStagesProofs` proves

* `AckTransfersAll` and `AllOrNothing` – for any set of interfaces of a `StreamNode`, `ack` implies the
  transfer on all interfaces that are not skipped, and a node without conditions transfers on all or none;
* `ReadsStayShared` – `ReadSpec => []ReadsAreShared` for `AxiReadAggregator`, for any finite set of ids and
  any lines: an accepted read is answered, together with those that wait for it;
* `FramesAlwaysFit` – with `COPY_DEPTH > MAX_FRAME_LEN`, `CopySpec => []FrameFits` for the ring of
  `Axi4S_fifoCopy`;
* `FramesStayReplayed` – `CopySpec => FramesAreReplayed`, of the ring of any size and of `Axi4SRegCopy`;
* `AnswersAlwaysMeet` – with `~EARLY_ID` and `~AR_STALLS`, `Spec => []AnswersMeetRequests`, for any finite
  number of masters and slaves of the crossbar, any access of the masters to the slaves, any lengths
  of bursts and lines and any depths.

`InOnePlace` says that an id is loading, shown, waiting for another id, or unused, and that what it
waits for asks for the same line.  That among the reads of a line there is one that no other waits for, which
the next one can wait for, is a pigeonhole argument (`SomeoneIsLast`).  `Frames` says that the words in the ring are the rest of one
frame, kept for its repetition, and of what entered after it, at most one unfinished frame.  The assumption
is sharp: with `COPY_DEPTH = MAX_FRAME_LEN`, which the docstring (`fifoCopy.py:69`) admits, TLC finds a frame
that does not fit, since the ring holds one word less than it has slots.

For the replay, what is stored and what was sent are functions of the words from `rd_ptr` on (`Rest`, `Past`),
and a step changes them as the property says (`WordsGo`): when the frame is over its words are dropped, when it is
repeated the words that were sent become the first of those to send.  That a word that enters meanwhile does not get the
id of the repetition needs `ReplayInv`: while `replace_id` is set, the last word of the frame is still inside.
No relation of depth and length of frames is assumed, since a word that does not fit is not accepted.

`AnswersMeetRequests` is about five components, the crossbar with two parts, each with an invariant of its own;
`AnswersInv` is their conjunction, of which a step changes one part.

* Groups of the crossbar (`RoutedToItsSlave`): nothing is inductive here, it is the algorithm that has to be
  right.  What a master reaches in as many steps as there are masters is closed under sharing a slave, and in every
  closed set with that master (`GroupIsClosed`), so two groups are equal or share no slave, and the port
  of a slave in its group leads back to it (`RoutesLead`).
* Orders of the crossbar: `CrossInv` says that the fifo of a slave holds the masters of all of its unanswered
  requests (`Pending`: with the slave, without all data, in the register), in their order, and the fifo of a master the
  slaves it asked, where these fifos exist.  Where one does not exist its owner has no choice, but the other side
  is still to be found: `AllCounted` counts the requests of a master in `Pending` of its only slave.  `PacketsPass` keeps a packet
  that has begun at the heads of both fifos.
* AXI to AXI-Lite: `LiteInv` says that the beats under way, and those the address side has still to send, are the
  words of the bursts in `req_fifo` and `rem`, as a sum.
* AXI to Avalon: `AvalonInv` says that the free places of the read FIFO, its words, those the slave has
  still to send and those of the read in the address register add up to `R_DATA_FIFO_DEPTH`, and that what is
  left of a write is what the address register says.
* Reorder buffer: `ReorderInv` gives each word its number counted from the one that is due: those in the reader, then in the
  register or in the RAM, each in one of them.
* Write aggregator: `WriteInv` says that addresses on their way and bursts of words are one sequence, except
  that the last word of a burst may be ahead of the only address (`BurstsMatch`); that an item is allocated, waiting, read, or
  unconfirmed (`IdsKept`); and that all words of an item are of the line in its tag (`WordsOfTheirLine`).

Sums over a sequence are stated with a witness, the function of its partial sums (`Counted`, `Weighs`), so
that what changes at either end is a lemma without induction over data.

### Memories

`MemoriesProofs` proves of six components of any size

* `LinesStay` – with `~SAME_SET_OVERLAP`, `CacheSpec => []LinesAreKept`: for any number of sets,
  ways and lines, a lookup leads to the latest data;
* `ReadsSeeTheirWrites` – with `~HURRIED`, `~MOVED_ON` and `~READ_IN_ACCUMULATE`, `PortsSpec =>
  []ReadsSeeWrites` for any finite set of write ports;
* `ItemsStayAtomic` – with `Disturbances = {}`, `TransSpec => []ItemsAreAtomic`: for any number of
  items of any length, a transfer or flush delivers the words of one version of its item, in order;
* `MapStaysAMap` – with `~DELETE_ABSENT` and `~TABLES_STALL`, `CuckooSpec => MapIsKept`, an action
  property: for any number of tables and slots and any hash functions every step is one of a map;
* `StructuresStay` – `StructSpec => []StructuresAreKept`: for any sizes, any list of blocks and any page tables, the
  three components over a datapump go through the structure in memory in its order;
* `ListsStayIntact` – with `~STRAY_ADDR`, `ArraySpec => []ListsAreIntact`, for any number of lists and items.

The assumptions are those of the table above, each of which TLC refutes when it is dropped.  `CacheInv` relates
what each stage of the pipeline knows of its set to the tag memory.  `XorInv` says that the exclusive or of
the memories of all ports is what was written two clocks ago or earlier (`xor_settled`), that a port that writes has
read what the others have at its address, and that a read of the same clock and address has read the same; the proof tells an even from an
odd number of ones instead of computing the fold.  For the memory of items `Sees` has two cases: a write that is ahead of the read on
the same item is the one that the read is to see, and one that is behind leaves what is left to read
untouched; the two never change places because users who share an item advance together.
`FlushesStayInStep` is the reason why a flush reads each old word in the clock that overwrites it,
and `PipeStep` why a word and its flags leave together, through three registers and two.
`CuckooInv` says of the hash table that an item lies in the slot of its hash and no key lies in two
tables (`Tidy`), and for each state of the insert automaton what it knows: `Target` is the decision made from
the lookup result – the one table in which the key lies, or a free slot for it, or the item that has to make
room – which is still true when the insert is done, although the tables were read some clocks
before.  `CuckooParams` takes `MAX_REINSERT > 0` from the assertion (`cuckooHashTable.py:208`) and says that the counter
`lookup_in_progress`, `log2ceil(MAX_LOOKUP_OVERLAP - 1)` bits wide (`:303`), can count: with an overlap
of one more than a power of two it only does because the engines hold few lookups at a time.
For the structures the proof first shows that a `HandshakedFifo` of a ring and an output register is one
sequence of which the front leaves and to which the input is appended (`FifoStepWords`), whatever moves between the
two.  `UploadInv` then says that the words in the buffer are the items of consecutive slots, from
the slot the burst is at (or `buff_offset`) to the next one of the producer, modulo `ITEMS`; that `timeoutCntr` only
reaches 0 with a word at the output, so that no request is empty, is part of it.  `ListInv` keeps the
words that are still to come within what the pointers, the buffer and the block hold; a link is only
asked for when the block is exhausted.  `Aligned` relates six places of the MMU: the addresses in
`pageOffsetFifo` are, in order, those whose leaf items are being read and those whose bases wait in the three registers of
`lvl1Converter`; it holds until `segfaultFlag` is set, after which nothing is translated.  `StructParams` asks
for positive sizes, a buffer that is not larger than the array, `inBlockRemain` wide enough for a block, a list whose
links lead to blocks, and indices that are numbers.
For the lists `ChainsInv` has a witness: disjoint
paths of items, one per list, that follow `next_ptrs` and together cover the valid items;
`ListsAreIntact` follows because the walk over a list meets exactly its path.

### Peripherals

`PeripheralsProofs` proves `RegistersFollow`: for all values, packets and statuses, with
`~HASTY_CONTROL`, the link and its PHY alone (`UlpiSpec`) satisfy `[]PhyRegistersFollow`.
`PhyRegistersFollow` is not inductive: what the PHY takes as a value could go to any register with any value.
`WriteUnderWay` says which write is on the wires in each state of the link, and that the PHY
knows the register as long as the link keeps the wires; an abort loses that knowledge and the
link starts over.

It also proves `UsbSidesStayAgreed`: for packets, FIFOs and descriptors of any size, any requests
and addresses and any number of losses, the device and its host alone (`UsbSpec`) satisfy
`[]UsbSidesAgree` under `UsedAsMeant`, that is the assumptions of the table above:
`~PARTIAL_DRAIN`, `~BULK_WHILE_STALLED`, no IN data lost, and not both tokens and data to the
device lost.  The last one is weaker than what the run assumes: lost tokens do no harm as long as
data arrive, since only a packet that did not arrive leaves the device in `RX_DATA`, where the next
header is taken for that of its data.  Each is necessary: TLC finds a counterexample when one is
dropped (for IN data with three packets in flight and four packet numbers).

The invariant has a part for each direction of the bulk endpoint and one for the control endpoint.
`OutInv`: a packet of the host is due to the function, unless the data bit of the endpoint is ahead
of the number of the packet, which is how the device recognises a repetition; where there is room
for a word there is room for a packet.  `InInv`: the data bit of a packet that was sent is that of
the number the host waits for.  `ControlInv` relates each phase of the host's transfer to the stages
of `descriptor_ep0_fsm`; in the data stage the words read and the word the device is at are one cut
through the descriptor, and the rest is no multiple of the packet size (`NoFullLastPacket`), so that
the last packet is short and both sides leave the stage with it.  `TransactionInv` says in which
states of the core a transaction of each kind can be.  `UsbAssumption` asks for positive sizes, an
even number of packet numbers, and a descriptor whose length fits in the 16 bits of `ep0_trans_len`.

### What is only model-checked

Every liveness property (fairness and ENABLED are out of the prover's reach); the refinements of
`OrderedStream` (their mappings concatenate the words of a pipe of stages) and of `InOrderReaders` (its
mapping selects and folds over sequences), which need induction over data, out of reach
as well; and the invariant `WordsArrive`, which depends on the lengths of the timers (it is not true of all).  No module
declares a RECURSIVE operator.

## Plan

1. Proofs, in this order: `StreamSpec` of single stages; `WordsArrive` for each component, with what it needs
   of the timers.
2. `slave_timeout.py`, the store queue of the lsu, read frames of several words, unaligned requests of
   the datapumps, `rmii_adapter.py` and the bridges to MI32 and IPIF.
3. Speed negotiation and suspend of the USB device.

## Not modelled

* Several readers of one FIFO (READER_CNT); transaction state, operations that cancel
  their write and states of several bus words in `OutOfOrderCummulativeOp`; unaligned requests in the
  datapumps (prevData, waitForShift); the store queue around the aggregators of the lsu;
  `CLinkedListWriter`, `StructReader`, `StructWriter`, writes to the root page table; CRC and PID,
  speed negotiation, suspend, PING and class requests of USB; the reset bit of function_control of ULPI.
* `Axi4S_FifoDrop`, buffers and splits and joins of streams: a modelled component with wires around it, or
  one `StreamNode` per channel.
* `Axi4SlaveTimeout`: as written it answers every read a second time (hazard at
  `slave_timeout.py:56`).
* `VldSyncedCdc` loses words by design when the producer is too fast and promises nothing else.
* Frame parsers and deparsers, joins of frames and stored bursts of AXI-Stream: generators whose
  circuit depends on a data type; TLC could check one instance, which would say little of the generator.
* CRC, BCD, shifters: pure functions, which their tests compare with references.
* Displays, Ethernet, MI32, IPIF: adapters of pins or of buses with one transfer at a time.
* Vendor primitives, simulation agents, examples and tests: no protocol state of their own.  They, with
  the interface declarations, are a large part of the lines of the repository.
