------------------------------- MODULE Fifo -------------------------------
(***************************************************************************)
(* hwtLib.mem.fifo.Fifo with one reader: a ring of DEPTH words, addressed  *)
(* by the pointers of FifoPointers, with an output register and, on        *)
(* request, counters of the stored words and of the free slots.            *)
(*                                                                         *)
(* The component is a synchronous circuit: every register takes its next   *)
(* value on the same clock edge, so one edge is one step, Cycle, and its   *)
(* parameters are the levels of the input signals at that edge.            *)
(* Data words are members of Data; Undef is the value of a memory word or  *)
(* of the output register nothing has been stored to yet.                  *)
(***************************************************************************)
EXTENDS FifoPointers, Sequences

CONSTANTS Data,         \* the words
          Undef,        \* what an unwritten word reads as
          INIT_DATA,    \* words the memory holds at power-up
          FIRST_WORD,   \* INIT_DATA_FIRST_WORD; Undef when it is not specified
          COUNTER_MOD   \* 2 ^ log2ceil(DEPTH + 1), the range of size_reg and space_reg

ASSUME CounterAssumption == COUNTER_MOD \in Nat /\ COUNTER_MOD > DEPTH

ASSUME UndefAssumption == Undef \notin Data

\* handshaked/fifo.py l.66 and the register init values of mem/fifo.py only
\* make sense for init data that fits.
ASSUME InitDataAssumption ==
    /\ INIT_DATA \in Seq(Data)
    /\ Len(INIT_DATA) <= DEPTH
    /\ FIRST_WORD \in Data \cup {Undef}

\* The default of the code: the FIFO starts empty.
NoInitData == <<>>

VARIABLES
    memory,     \* [Slots -> word]
    data,       \* dataOut.data, the registered output of the memory
    size,       \* size_reg
    space       \* space_reg

fifoVars == <<pointerVars, memory, data, size, space>>

---------------------------------------------------------------------------
(* Registers *)

PowerUpWritePtr ==
    IF Len(INIT_DATA) < MAX_DEPTH THEN Len(INIT_DATA) ELSE MAX_DEPTH

FifoInit ==
    /\ write_ptr = PowerUpWritePtr
    /\ read_ptr = 0
    /\ looped = IF Len(INIT_DATA) <= MAX_DEPTH THEN FALSE ELSE TRUE
    /\ size = Len(INIT_DATA)
    /\ space = DEPTH - Len(INIT_DATA)
    /\ memory = [i \in Slots |->
                    IF i < Len(INIT_DATA) THEN INIT_DATA[i + 1] ELSE Undef]
    /\ data = FIRST_WORD

\* The counters wrap around like the bit vectors they are.
Wrap(n) ==
    IF n < 0 THEN n + COUNTER_MOD ELSE IF n >= COUNTER_MOD THEN n - COUNTER_MOD ELSE n

\* size counts up on a write, down on a read; space is its mirror image.
NextSize_IgnoresPass(wr, rd) ==
    IF wr THEN Wrap(size + 1) ELSE IF rd THEN Wrap(size - 1) ELSE size
NextSize(wr, rd) ==
    IF wr = rd THEN size ELSE IF wr THEN Wrap(size + 1) ELSE Wrap(size - 1)
NextSpace(wr, rd) ==
    IF wr = rd THEN space ELSE IF wr THEN Wrap(space - 1) ELSE Wrap(space + 1)

\* The memory and the output register; the word read is the one before the write.
NextMemory(wr_en, word) ==
    IF FifoWrite(wr_en) THEN [memory EXCEPT ![write_ptr] = word] ELSE memory
NextData(rd_en) == IF FifoRead(rd_en) THEN memory[read_ptr] ELSE data

\* A clock edge with dataIn.en = wr_en, dataIn.data = word, dataOut.en = rd_en.
FifoCycle(wr_en, word, rd_en) ==
    /\ PointersCycle(wr_en, rd_en)
    /\ memory' = NextMemory(wr_en, word)
    /\ data' = NextData(rd_en)
    /\ size' = NextSize(FifoWrite(wr_en), FifoRead(rd_en))
    /\ space' = NextSpace(FifoWrite(wr_en), FifoRead(rd_en))

\* The same edge with rst_n active: the pointers, `looped' and the counters return to
\* their power-up values; the memory has no reset, the output register only one when
\* its first word is given.
FifoReset(wr_en, word, rd_en) ==
    /\ write_ptr' = PowerUpWritePtr
    /\ read_ptr' = 0
    /\ looped' = IF Len(INIT_DATA) <= MAX_DEPTH THEN FALSE ELSE TRUE
    /\ memory' = NextMemory(wr_en, word)
    /\ data' = IF FIRST_WORD = Undef THEN NextData(rd_en) ELSE FIRST_WORD
    /\ size' = Len(INIT_DATA)
    /\ space' = DEPTH - Len(INIT_DATA)

---------------------------------------------------------------------------
(* What the registers stand for *)

\* Words between the read and the write pointer.
Count == IF looped THEN DEPTH - read_ptr + write_ptr ELSE write_ptr - read_ptr

\* The slot of the i-th unread word, i counted from 0.
Slot(i) == IF read_ptr + i < DEPTH THEN read_ptr + i ELSE read_ptr + i - DEPTH

\* The unread words, oldest first.
Stored == [i \in 1 .. Count |-> memory[Slot(i - 1)]]

FifoTypeOK ==
    /\ write_ptr \in Slots
    /\ read_ptr \in Slots
    /\ looped \in BOOLEAN
    /\ memory \in [Slots -> Data \cup {Undef}]
    /\ data \in Data \cup {Undef}
    /\ size \in 0 .. COUNTER_MOD - 1
    /\ space \in 0 .. COUNTER_MOD - 1
===========================================================================
