-------------------------- MODULE HandshakedFifo --------------------------
(***************************************************************************)
(* hwtLib.handshaked.fifo.HandshakedFifo: the Fifo of mem/fifo.py behind   *)
(* two ready/valid ports.  The inner Fifo answers a read one clock later,  *)
(* so its output register holds one more word and out_vld says whether it  *)
(* does.  DEPTH is the depth of the inner Fifo: f.DEPTH = self.DEPTH - 1,  *)
(* hence CAPACITY words in all.                                            *)
(***************************************************************************)
EXTENDS Fifo

VARIABLES
    out_vld,   \* dataOut.vld, the word in `data' is valid
    in_xfer,   \* <<w>>: w was accepted at dataIn in the last cycle
    out_xfer,  \* <<w>>: w was handed over at dataOut in the last cycle
    clk,       \* parity of the clock: an edge that changes no register is a step too
    rst        \* the reset was active in the last cycle

vars == <<fifoVars, out_vld, in_xfer, out_xfer, clk, rst>>

CAPACITY == DEPTH + 1

\* handshaked/fifo.py: when INIT_DATA has DEPTH words the first one goes to the
\* output register and the rest to the inner Fifo.
InitialWords ==
    IF FIRST_WORD = Undef THEN INIT_DATA ELSE <<FIRST_WORD>> \o INIT_DATA

---------------------------------------------------------------------------
(* _connect_fifo_in, _connect_fifo_out *)

InRd == ~WriteWait

FifoInEn(vld) == vld /\ InRd

OutEn(rd) == (rd \/ ~out_vld) /\ ~ReadWait

NextOutVld_RdOnly(rd) == IF rd THEN ~ReadWait ELSE out_vld
NextOutVld_Eager(rd) == ~ReadWait
NextOutVld(rd) == IF rd \/ ~out_vld THEN ~ReadWait ELSE out_vld

\* _connect_size_and_space
OutSize  == IF out_vld THEN size + 1 ELSE size
OutSpace == IF out_vld THEN space ELSE space + 1

---------------------------------------------------------------------------
Init ==
    /\ FifoInit
    /\ out_vld = IF FIRST_WORD = Undef THEN FALSE ELSE TRUE
    /\ in_xfer = <<>>
    /\ out_xfer = <<>>
    /\ clk = FALSE
    /\ rst = FALSE

\* One clock edge: the producer drives vld and word, the consumer drives rd.
Cycle(vld, word, rd) ==
    /\ FifoCycle(FifoInEn(vld), word, OutEn(rd))
    /\ out_vld' = NextOutVld(rd)
    /\ in_xfer' = IF vld /\ InRd THEN <<word>> ELSE <<>>
    /\ out_xfer' = IF out_vld /\ rd THEN <<data>> ELSE <<>>
    /\ clk' = ~clk
    /\ rst' = FALSE

\* A clock edge with the reset active: no port transfers anything.
Reset(vld, word, rd) ==
    /\ FifoReset(FifoInEn(vld), word, OutEn(rd))
    /\ out_vld' = IF FIRST_WORD = Undef THEN FALSE ELSE TRUE
    /\ in_xfer' = <<>>
    /\ out_xfer' = <<>>
    /\ clk' = ~clk
    /\ rst' = TRUE

Next ==
    \E vld, rd \in BOOLEAN, word \in Data :
        Cycle(vld, word, rd) \/ Reset(vld, word, rd)

Spec == Init /\ [][Next]_vars

\* A cycle in which the consumer is ready.
ReadyCycle == \E vld \in BOOLEAN, word \in Data : Cycle(vld, word, TRUE)

\* The clock runs, and a consumer that is shown a word takes one again and again.
Fairness == WF_vars(Next) /\ SF_vars(ReadyCycle /\ out_vld)

FairSpec == Spec /\ Fairness

---------------------------------------------------------------------------
(* Properties *)

\* The words inside, oldest first: the output register, then the ring.
Contents == (IF out_vld THEN <<data>> ELSE <<>>) \o Stored

\* Type invariant of the registers of both parts.
TypeOK ==
    /\ FifoTypeOK
    /\ {out_vld, clk, rst} \subseteq BOOLEAN
    /\ in_xfer \in {<<>>} \cup {<<d>> : d \in Data}
    /\ out_xfer \in {<<>>} \cup {<<d>> : d \in Data}

\* The registers three different pieces of logic keep apart (the pointers with
\* `looped', size_reg, space_reg) agree on how many words are stored, whatever
\* the order of reads and writes; the exported size and space always add up to
\* the capacity.
CountsAgree ==
    /\ looped => write_ptr <= read_ptr
    /\ ~looped => read_ptr <= write_ptr
    /\ size = Count
    /\ OutSize + OutSpace = CAPACITY

\* The handshaked FIFO implements the bounded queue: the refinement mapping
\* rebuilds the queue from the registers, so a lost, duplicated, reordered or
\* overwritten word at dataOut is a step the queue does not have.
queue == INSTANCE BoundedQueue WITH q <- Contents

QueueSpec == queue!Spec

\* Ready/valid rule at dataOut (connect_fifo_out): a word that is offered and
\* not taken is still offered, unchanged, after the clock edge.
OfferIsStable ==
    [][out_vld /\ out_xfer' = <<>> /\ ~rst' => out_vld' /\ data' = data]_vars

\* A stored word is not kept forever: with a running clock and a consumer that
\* keeps coming back, a non-empty FIFO hands a word over or is reset, also when
\* the producer has nothing more to send.
StoredIsDelivered == Contents # <<>> ~> (out_xfer # <<>> \/ rst)
===========================================================================
