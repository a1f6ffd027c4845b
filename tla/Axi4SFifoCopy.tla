--------------------------- MODULE Axi4SFifoCopy ---------------------------
(***************************************************************************)
(* amba/axis_comp/fifoCopy.py: a FIFO of frames that can send the frame    *)
(* that just ended once more.  Axi4SFifoCopy does so by mem/fifoCopy.py, a *)
(* ring whose slots are not released before the frame is, with the output  *)
(* register of HandshakedFifo behind it; Axi4SRegCopy, for frames of one   *)
(* word, by a register that feeds itself.  A word is [d, last, id]; the    *)
(* frame is sent again under another id.                                   *)
(***************************************************************************)
EXTENDS HandshakedReg

CONSTANTS
    COPY_DEPTH,     \* slots of the ring, DEPTH - 1
    MAX_FRAME_LEN,
    OwnId, OtherId  \* the id a frame comes with, and the one it is replayed with

ASSUME CopyAssumption ==
    COPY_DEPTH \in Nat \ {0} /\ MAX_FRAME_LEN \in Nat \ {0}

VARIABLES
    copy_mode,      \* "fifo", "reg"
    wr_ptr,         \* next slot to write
    rd_ptr,         \* first slot of the frame that is read
    rd_ptr_tmp,     \* next slot to read
    memory,
    copy_vld,       \* out_vld: the output register holds a word
    copy_data,      \* the output register
    replace_id,     \* dataOut shows OtherId
    again_xfer,     \* a frame ended at dataOut in the last cycle and is to be sent again
    copy_reg,       \* reg of Axi4SRegCopy
    frame_len       \* words of the frame that enters: the producer ends it in time

copyVars == <<copy_mode, wr_ptr, rd_ptr, rd_ptr_tmp, memory, copy_vld, copy_data, replace_id,
              again_xfer, copy_reg, frame_len>>

Slots == 0 .. COPY_DEPTH - 1
NoWord == [d |-> Undef, last |-> FALSE, id |-> OwnId]

CopyInit ==
    /\ wr_ptr = 0 /\ rd_ptr = 0 /\ rd_ptr_tmp = 0
    /\ memory = [s \in Slots |-> NoWord]
    /\ copy_vld = FALSE
    /\ copy_data = NoWord
    /\ replace_id = FALSE
    /\ again_xfer = FALSE
    /\ copy_reg = PowerUp(<<>>)
    /\ frame_len = 0

\* What the producer may offer: a frame ends with its MAX_FRAME_LENth word at the latest.
CopyInputs ==
    {[d |-> d, last |-> l, id |-> OwnId] :
        d \in Data, l \in IF copy_mode = "reg" \/ frame_len = MAX_FRAME_LEN - 1 THEN {TRUE}
                          ELSE BOOLEAN}

NextFrameLen(xfer) ==
    IF xfer = <<>> THEN frame_len ELSE IF xfer[1].last THEN 0 ELSE frame_len + 1

---------------------------------------------------------------------------
(* mem/fifoCopy.py.  jump and copy are dataOut_copy_frame: vld with data 0 and 1. *)

NextSlot(s) == IF s = COPY_DEPTH - 1 THEN 0 ELSE s + 1

CopyInWait == NextSlot(wr_ptr) = rd_ptr
CopyOutWait_KeepsOne(copy) == ~copy /\ wr_ptr \in {rd_ptr_tmp, NextSlot(rd_ptr_tmp)}
CopyOutWait(copy) == ~copy /\ wr_ptr = rd_ptr_tmp

NextRdPtrTmp(read, copy) ==
    IF ~read THEN rd_ptr_tmp ELSE NextSlot(IF copy THEN rd_ptr ELSE rd_ptr_tmp)

NextRdPtr_Never(jump) == rd_ptr
NextRdPtr_WithRead(jump) == IF jump THEN NextSlot(rd_ptr_tmp) ELSE rd_ptr
NextRdPtr(jump) == IF jump THEN rd_ptr_tmp ELSE rd_ptr

FifoCopyCycle(in, write, read, jump, copy) ==
    /\ wr_ptr' = IF write THEN NextSlot(wr_ptr) ELSE wr_ptr
    /\ memory' = IF write THEN [memory EXCEPT ![wr_ptr] = in[1]] ELSE memory
    /\ rd_ptr_tmp' = NextRdPtrTmp(read, copy)
    /\ rd_ptr' = NextRdPtr(jump)
    /\ copy_data' = IF read THEN memory[IF copy THEN rd_ptr ELSE rd_ptr_tmp] ELSE copy_data

---------------------------------------------------------------------------
(* Axi4SFifoCopy._connect_fifo_in, _connect_fifo_out *)

CopyOutWord == IF replace_id THEN [copy_data EXCEPT !.id = OtherId] ELSE copy_data

\* again is dataOut_copy_frame, which the consumer drives with the last word of a frame.
FifoCycle(in, rd, again) ==
    LET ends == copy_vld /\ rd /\ copy_data.last
        jump == ends /\ ~again
        copy == ends /\ again
        read == (rd \/ ~copy_vld) /\ ~CopyOutWait(copy)
        write == in # <<>> /\ ~CopyInWait
    IN /\ FifoCopyCycle(in, write, read, jump, copy)
       /\ copy_vld' = IF rd \/ ~copy_vld THEN ~CopyOutWait(copy) ELSE copy_vld
       /\ replace_id' = IF ends THEN again ELSE replace_id
       /\ in_xfer' = IF write THEN in ELSE <<>>
       /\ out_xfer' = IF copy_vld /\ rd THEN <<CopyOutWord>> ELSE <<>>
       /\ again_xfer' = copy
       /\ UNCHANGED copy_reg

(* Axi4SRegCopy: while the register sends itself again it does not accept a word.  The id *)
(* is chosen by dataOut_copy_frame alone, which is used only while a word is offered.     *)

CopyEn(again) == again /\ OutVld(copy_reg)

RegCopyCycle(in, rd, again) ==
    LET own == OutWord(copy_reg)
        word == IF CopyEn(again) THEN <<own>> ELSE in
        fed == [i \in 1 .. Len(word) |-> IF again THEN [word[i] EXCEPT !.id = OtherId] ELSE word[i]]
        in_rd == InRd("latency", copy_reg, rd)
    IN /\ copy_reg' = NextLatency(copy_reg, fed, rd)
       /\ in_xfer' = IF in_rd /\ ~CopyEn(again) THEN in ELSE <<>>
       /\ out_xfer' = IF OutVld(copy_reg) /\ rd THEN <<own>> ELSE <<>>
       /\ again_xfer' = (CopyEn(again) /\ rd)
       /\ UNCHANGED <<wr_ptr, rd_ptr, rd_ptr_tmp, memory, copy_vld, copy_data, replace_id>>

CopyCycle(in, rd, again) ==
    /\ copy_mode = "reg" /\ again => OutVld(copy_reg)
    /\ IF copy_mode = "fifo" THEN FifoCycle(in, rd, again) ELSE RegCopyCycle(in, rd, again)
    /\ frame_len' = NextFrameLen(in_xfer')
    /\ UNCHANGED copy_mode

CopySpec ==
    /\ copy_mode \in {"fifo", "reg"} /\ CopyInit
    /\ [][\E in \in {<<>>} \cup {<<word>> : word \in CopyInputs}, rd, again \in BOOLEAN :
              CopyCycle(in, rd, again)]_copyVars

---------------------------------------------------------------------------
(* What is inside. *)

\* The slots from a up to b.
Ring(a, b) ==
    LET n == (b - a + COPY_DEPTH) % COPY_DEPTH
    IN [i \in 1 .. n |-> memory[(a + i - 1) % COPY_DEPTH]]

Shown(word) == IF replace_id THEN [word EXCEPT !.id = OtherId] ELSE word

\* The words of the rest of the frame that is being sent, which carry the id it is sent with.
ShownRest(words) ==
    [i \in 1 .. Len(words) |->
        IF \A j \in 1 .. i - 1 : ~words[j].last THEN Shown(words[i]) ELSE words[i]]

\* Still to be sent, when no further copy is asked for.
CopyContents ==
    IF copy_mode = "reg" THEN Held(copy_reg)
    ELSE ShownRest((IF copy_vld THEN <<copy_data>> ELSE <<>>) \o Ring(rd_ptr_tmp, wr_ptr))

\* Sent of the frame that has not ended.
CopySent ==
    IF copy_mode = "reg" THEN <<>>
    ELSE LET n == ((rd_ptr_tmp - rd_ptr + COPY_DEPTH) % COPY_DEPTH) - (IF copy_vld THEN 1 ELSE 0)
         IN [i \in 1 .. n |-> Shown(memory[(rd_ptr + i - 1) % COPY_DEPTH])]

CopyCapacity == IF copy_mode = "reg" THEN 1 ELSE COPY_DEPTH - 1
---------------------------------------------------------------------------
(* Properties *)

\* The FIFO never waits for itself: full, with nothing left to send, because the slots of
\* the frame are released only with its last word, which is still outside.  It takes
\* COPY_DEPTH > MAX_FRAME_LEN, that is, one slot more than the `DEPTH > axis.MAX_FRAME_LEN'
\* of fifoCopy.py: with that depth the last word of the longest frame has no place.
FrameFits == ~(copy_mode = "fifo" /\ CopyInWait /\ CopyContents = <<>>)

Renamed(words) == [i \in 1 .. Len(words) |-> [words[i] EXCEPT !.id = OtherId]]

\* What leaves is the oldest word; a frame that is to be sent again follows its own end as
\* it was, under the other id and before everything that came in behind it; and what is
\* sent is remembered until its frame ends for good (fifoCopy.py: `copy last frame or work
\* as a regular fifo').
FramesAreReplayed ==
    [][LET all == CopyContents \o in_xfer' IN
       IF out_xfer' = <<>> THEN CopyContents' = all /\ CopySent' = CopySent
       ELSE LET w == out_xfer'[1]
                frame == IF copy_mode = "reg" THEN <<w>> ELSE Append(CopySent, w)
            IN /\ CopyContents # <<>> /\ w = Head(all)
               /\ CopyContents' = (IF again_xfer' THEN Renamed(frame) ELSE <<>>) \o Tail(all)
               /\ CopySent' = IF w.last THEN <<>> ELSE frame]_copyVars
===========================================================================
