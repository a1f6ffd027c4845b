--------------------------- MODULE FifoPointers ---------------------------
(***************************************************************************)
(* Fifo.fifo_pointers of hwtLib/mem/fifo.py with one reader: a write       *)
(* pointer, a read pointer and the flag `looped' that tells a full ring    *)
(* from an empty one when the pointers are equal.  Fifo uses it for its    *)
(* memory, FifoOutOfOrderRead for items it does not store.                 *)
(***************************************************************************)
EXTENDS Integers

CONSTANT DEPTH   \* number of items of the ring

ASSUME DepthAssumption == DEPTH \in Nat \ {0}

MAX_DEPTH == DEPTH - 1

Slots == 0 .. MAX_DEPTH

VARIABLES
    write_ptr,  \* slot the next item is written to
    read_ptr,   \* slot the next item is read from
    looped      \* the writer has wrapped and the reader has not

pointerVars == <<write_ptr, read_ptr, looped>>

---------------------------------------------------------------------------
WriteWait == write_ptr = read_ptr /\ looped
ReadWait  == write_ptr = read_ptr /\ ~looped

FifoWrite(wr_en) == wr_en /\ (~looped \/ write_ptr # read_ptr)
FifoRead(rd_en)  == rd_en /\ (looped \/ write_ptr # read_ptr)

NextPtr_NoWrap(ptr) == IF ptr = DEPTH THEN 0 ELSE ptr + 1
NextPtr(ptr) == IF ptr = MAX_DEPTH THEN 0 ELSE ptr + 1

\* `looped' looks at the raw enables, not at fifo_write / fifo_read.
NextLooped_AtZero(wr_en, rd_en) ==
    \/ wr_en /\ write_ptr = 0
    \/ looped /\ ~(rd_en /\ read_ptr = MAX_DEPTH)
NextLooped(wr_en, rd_en) ==
    \/ wr_en /\ write_ptr = MAX_DEPTH
    \/ looped /\ ~(rd_en /\ read_ptr = MAX_DEPTH)

\* A clock edge with the enables wr_en and rd_en.
PointersCycle(wr_en, rd_en) ==
    /\ write_ptr' = IF FifoWrite(wr_en) THEN NextPtr(write_ptr) ELSE write_ptr
    /\ read_ptr' = IF FifoRead(rd_en) THEN NextPtr(read_ptr) ELSE read_ptr
    /\ looped' = NextLooped(wr_en, rd_en)
===========================================================================
