------------------------ MODULE HandshakedFifoDrop ------------------------
(***************************************************************************)
(* hwtLib.mem.fifoDrop.FifoDrop: a Fifo whose writer works on a tentative  *)
(* pointer wr_ptr_tmp (with its own wrap flag looped_tmp) that the reader  *)
(* does not see.  commit publishes it (wr_ptr := wr_ptr_tmp), discard      *)
(* takes it back (wr_ptr_tmp := wr_ptr).  One clock edge is one DropCycle. *)
(*                                                                         *)
(* Around it hwtLib.handshaked.fifoDrop.HandshakedFifoDrop: HandshakedFifo *)
(* with FIFO_CLS = FifoDrop.  The ports of HandshakedFifo are connected by *)
(* the same code (_connect_fifo_in, _connect_fifo_out); dataIn_commit and  *)
(* dataIn_discard go straight to the inner FifoDrop, so commit counts only *)
(* with an accepted word and discard counts at any time.                   *)
(***************************************************************************)
EXTENDS Integers, Sequences

CONSTANTS DEPTH,       \* number of words of the memory
          Data,        \* the words
          Undef,       \* what an unwritten word reads as
          COUNTER_MOD  \* 2 ^ log2ceil(DEPTH + 1), the range of the size registers

ASSUME DepthAssumption == DEPTH \in Nat \ {0}
ASSUME UndefAssumption == Undef \notin Data
ASSUME CounterAssumption == COUNTER_MOD \in Nat /\ COUNTER_MOD > DEPTH

MAX_DEPTH == DEPTH - 1

Slots == 0 .. MAX_DEPTH

VARIABLES
    wr_ptr,      \* end of the committed words, the one the reader sees
    wr_ptr_tmp,  \* end of all the words written
    rd_ptr,
    looped,      \* wr_ptr has wrapped and rd_ptr has not
    looped_tmp,  \* wr_ptr_tmp has wrapped and rd_ptr has not
    memory,
    data,        \* dataOut.data
    stash_size,  \* stash_size_reg: words written and not committed
    size,        \* size_reg: committed words
    space        \* space_reg

dropVars == <<wr_ptr, wr_ptr_tmp, rd_ptr, looped, looped_tmp,
              memory, data, stash_size, size, space>>

\* Arithmetic of size_reg, space_reg and stash_size_reg.
Wrap(n) ==
    IF n < 0 THEN n + COUNTER_MOD ELSE IF n >= COUNTER_MOD THEN n - COUNTER_MOD ELSE n

---------------------------------------------------------------------------
(* Combinational signals *)

InWait  == wr_ptr_tmp = rd_ptr /\ looped_tmp
OutWait_Tentative == wr_ptr_tmp = rd_ptr /\ ~looped_tmp
OutWait == wr_ptr = rd_ptr /\ ~looped

FifoWrite(en) == en /\ (~looped_tmp \/ wr_ptr_tmp # rd_ptr)
FifoRead(rd_en)  == rd_en /\ (looped \/ wr_ptr # rd_ptr)

NextPtr_NoWrap(ptr) == IF ptr = DEPTH THEN 0 ELSE ptr + 1
NextPtr(ptr) == IF ptr = MAX_DEPTH THEN 0 ELSE ptr + 1

---------------------------------------------------------------------------
(* Next values of the registers; en, commit, discard and rd_en are levels  *)

NextWrPtrTmp(en, discard) ==
    IF discard THEN wr_ptr
    ELSE IF FifoWrite(en) THEN NextPtr(wr_ptr_tmp) ELSE wr_ptr_tmp

NextWrPtr(en, commit, discard) ==
    IF ~discard /\ FifoWrite(en) /\ commit THEN NextPtr(wr_ptr_tmp) ELSE wr_ptr

\* The reader leaves the last slot.  Like `en' below, dout.en is not gated.
ReaderWraps(rd_en) == rd_en /\ rd_ptr = MAX_DEPTH

NextLoopedTmp_NoDiscard(en, discard, rd_en) ==
    IF en /\ wr_ptr_tmp = MAX_DEPTH THEN TRUE
    ELSE looped_tmp /\ ~ReaderWraps(rd_en)
NextLoopedTmp(en, discard, rd_en) ==
    IF discard THEN looped
    ELSE IF en /\ wr_ptr_tmp = MAX_DEPTH THEN TRUE
    ELSE looped_tmp /\ ~ReaderWraps(rd_en)

NextLooped(en, commit, discard, rd_en) ==
    IF en /\ commit THEN NextLoopedTmp(en, discard, rd_en)
    ELSE looped /\ ~ReaderWraps(rd_en)

NextStashSize(en, commit, discard) ==
    IF discard THEN 0
    ELSE IF ~FifoWrite(en) THEN stash_size
    ELSE IF commit THEN 0 ELSE Wrap(stash_size + 1)

NextSize(en, commit, rd_en) ==
    LET committing == FifoWrite(en) /\ commit
    IN  IF FifoRead(rd_en)
        THEN IF committing THEN Wrap(size + stash_size) ELSE Wrap(size - 1)
        ELSE IF committing THEN Wrap(size + stash_size + 1) ELSE size

NextSpace(en, discard, rd_en) ==
    IF discard THEN Wrap(space - stash_size)
    ELSE IF ~FifoRead(rd_en) THEN space
    ELSE IF FifoWrite(en) THEN Wrap(space - 1) ELSE Wrap(space + 1)

---------------------------------------------------------------------------
DropInit ==
    /\ wr_ptr = 0
    /\ wr_ptr_tmp = 0
    /\ rd_ptr = 0
    /\ looped = FALSE
    /\ looped_tmp = FALSE
    /\ memory = [i \in Slots |-> Undef]
    /\ data = Undef
    /\ stash_size = 0
    /\ size = 0
    /\ space = DEPTH

NextMemory(en, word) ==
    IF FifoWrite(en) THEN [memory EXCEPT ![wr_ptr_tmp] = word] ELSE memory
NextData(rd_en) == IF FifoRead(rd_en) THEN memory[rd_ptr] ELSE data

\* A clock edge with dataIn.{en, data, commit, discard} and dataOut.en = rd_en.
DropCycle(en, word, commit, discard, rd_en) ==
    /\ rd_ptr' = IF FifoRead(rd_en) THEN NextPtr(rd_ptr) ELSE rd_ptr
    /\ wr_ptr_tmp' = NextWrPtrTmp(en, discard)
    /\ wr_ptr' = NextWrPtr(en, commit, discard)
    /\ looped' = NextLooped(en, commit, discard, rd_en)
    /\ looped_tmp' = NextLoopedTmp(en, discard, rd_en)
    /\ memory' = NextMemory(en, word)
    /\ data' = NextData(rd_en)
    /\ stash_size' = NextStashSize(en, commit, discard)
    /\ size' = NextSize(en, commit, rd_en)
    /\ space' = NextSpace(en, discard, rd_en)

\* The same edge with rst_n active; memory and output register have no reset.
DropReset(en, word, rd_en) ==
    /\ rd_ptr' = 0
    /\ wr_ptr_tmp' = 0
    /\ wr_ptr' = 0
    /\ looped' = FALSE
    /\ looped_tmp' = FALSE
    /\ memory' = NextMemory(en, word)
    /\ data' = NextData(rd_en)
    /\ stash_size' = 0
    /\ size' = 0
    /\ space' = DEPTH

---------------------------------------------------------------------------
(* What the registers stand for *)

\* Words from the read pointer to `end', `wrapped' telling full from empty.
Distance(end, wrapped) == IF wrapped THEN DEPTH - rd_ptr + end ELSE end - rd_ptr

Committed == Distance(wr_ptr, looped)
Written   == Distance(wr_ptr_tmp, looped_tmp)

\* The slot of the i-th word after the read pointer, i counted from 0.
Slot(i) == IF rd_ptr + i < DEPTH THEN rd_ptr + i ELSE rd_ptr + i - DEPTH

CommittedWords == [i \in 1 .. Committed |-> memory[Slot(i - 1)]]
StashedWords   == [i \in 1 .. Written - Committed |-> memory[Slot(Committed + i - 1)]]

\* The exported size port.
OutSizePort == Wrap(size + stash_size)

DropTypeOK ==
    /\ wr_ptr \in Slots /\ wr_ptr_tmp \in Slots /\ rd_ptr \in Slots
    /\ looped \in BOOLEAN /\ looped_tmp \in BOOLEAN
    /\ memory \in [Slots -> Data \cup {Undef}]
    /\ data \in Data \cup {Undef}
    /\ stash_size \in 0 .. COUNTER_MOD - 1
    /\ size \in 0 .. COUNTER_MOD - 1
    /\ space \in 0 .. COUNTER_MOD - 1

---------------------------------------------------------------------------
(* HandshakedFifoDrop *)

CONSTANT DISCARD_AT_WRAP  \* may discard coincide with the reader leaving the last slot

ASSUME DiscardAssumption == DISCARD_AT_WRAP \in BOOLEAN

VARIABLES
    out_vld,    \* dataOut.vld
    in_xfer,    \* <<word, commit>> accepted at dataIn in the last cycle, or <<>>
    out_xfer,   \* <<word>> handed over at dataOut in the last cycle, or <<>>
    discarded,  \* dataIn_discard was asserted in the last cycle
    clk,        \* parity of the clock: an edge that changes no register is a step too
    rst         \* the reset was active in the last cycle

vars == <<dropVars, out_vld, in_xfer, out_xfer, discarded, clk, rst>>

CAPACITY == DEPTH + 1

NoTransfer == <<>>

---------------------------------------------------------------------------
InRd == ~InWait

FifoInEn(vld) == vld /\ InRd

OutEn(rd) == (rd \/ ~out_vld) /\ ~OutWait

NextOutVld_RdOnly(rd) == IF rd THEN ~OutWait ELSE out_vld
NextOutVld(rd) == IF rd \/ ~out_vld THEN ~OutWait ELSE out_vld

\* The exported size; see _connect_size_and_space.
OutSize == IF out_vld THEN OutSizePort + 1 ELSE OutSizePort

\* The exported space.
OutSpace == IF out_vld THEN space ELSE space + 1

Init ==
    /\ DropInit
    /\ out_vld = FALSE
    /\ in_xfer = NoTransfer
    /\ out_xfer = NoTransfer
    /\ discarded = FALSE
    /\ clk = FALSE
    /\ rst = FALSE

Cycle(vld, word, commit, discard, rd) ==
    /\ DropCycle(FifoInEn(vld), word, commit, discard, OutEn(rd))
    /\ out_vld' = NextOutVld(rd)
    /\ in_xfer' = IF vld /\ InRd THEN <<word, commit>> ELSE NoTransfer
    /\ out_xfer' = IF out_vld /\ rd THEN <<data>> ELSE NoTransfer
    /\ discarded' = discard
    /\ clk' = ~clk
    /\ rst' = FALSE

\* A clock edge with the reset active: no port transfers anything.
Reset(vld, word, rd) ==
    /\ DropReset(FifoInEn(vld), word, OutEn(rd))
    /\ out_vld' = FALSE
    /\ in_xfer' = NoTransfer
    /\ out_xfer' = NoTransfer
    /\ discarded' = FALSE
    /\ clk' = ~clk
    /\ rst' = TRUE

\* The producer: `only one from "commit", "discard" can be 1 at the same time'
\* (mem/fifoDrop.py), and the restriction of this model on discard.
ProducerMayDrive(commit, discard, rd) ==
    /\ ~(commit /\ discard)
    /\ discard /\ ReaderWraps(OutEn(rd)) => DISCARD_AT_WRAP

Next ==
    \/ \E vld, commit, discard, rd \in BOOLEAN, word \in Data :
          /\ ProducerMayDrive(commit, discard, rd)
          /\ Cycle(vld, word, commit, discard, rd)
    \/ \E vld, rd \in BOOLEAN, word \in Data : Reset(vld, word, rd)

Spec == Init /\ [][Next]_vars

\* The clock runs, and a consumer that is shown a word takes one again and again.
ReadyCycle ==
    \E vld, commit, discard \in BOOLEAN, word \in Data :
        /\ ProducerMayDrive(commit, discard, TRUE)
        /\ Cycle(vld, word, commit, discard, TRUE)

FairSpec == Spec /\ WF_vars(Next) /\ SF_vars(ReadyCycle /\ out_vld)

---------------------------------------------------------------------------
(* Properties *)

\* Words the consumer is served from: the output register, then the committed ones.
Contents == (IF out_vld THEN <<data>> ELSE <<>>) \o CommittedWords

\* Type invariant of the registers.
TypeOK ==
    /\ DropTypeOK
    /\ out_vld \in BOOLEAN /\ discarded \in BOOLEAN
    /\ clk \in BOOLEAN /\ rst \in BOOLEAN
    /\ in_xfer \in {NoTransfer} \cup (Data \X BOOLEAN)
    /\ out_xfer \in {NoTransfer} \cup {<<d>> : d \in Data}

\* The input is held off only when the memory really is full: what discard and
\* the reader have released can be written again.
WaitMeansFull == InWait => OutSizePort = DEPTH

\* Two write pointers, two wrap flags and two counters describe the same ring:
\* the committed end is never ahead of the tentative one, the tentative one never
\* laps the reader, size_reg / stash_size_reg count what the pointers enclose, and the
\* input waits for a full memory only.
PointersAgree ==
    /\ 0 <= Committed /\ Committed <= Written /\ Written <= DEPTH
    /\ size = Committed
    /\ size + stash_size = Written
    /\ WaitMeansFull

\* The output register and the pointers implement the speculative queue; in
\* particular no word reaches the consumer before its commit, none after its
\* discard, and a discard takes back nothing that was committed.
queue == INSTANCE SpeculativeQueue WITH q <- Contents, stash <- StashedWords

QueueSpec == queue!Spec

\* A committed word is not kept forever.
CommittedIsDelivered ==
    Contents # <<>> ~> (out_xfer # NoTransfer \/ rst)

===========================================================================
