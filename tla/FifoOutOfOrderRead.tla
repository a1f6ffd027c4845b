------------------------ MODULE FifoOutOfOrderRead ------------------------
(***************************************************************************)
(* hwtLib.amba.axi_comp.lsu.fifo_oooread.FifoOutOfOrderRead: a ring of     *)
(* item numbers.  write_confirm allocates the item at the write pointer,   *)
(* read_execute hands out the item at the read pointer, read_confirm       *)
(* returns any handed out item, in any order.  The component stores no     *)
(* data, only the pointers and two flags per item.                         *)
(***************************************************************************)
EXTENDS FifoPointers

VARIABLES
    item_valid,      \* the item is allocated
    item_write_lock  \* the item must not be updated any more

itemVars == <<pointerVars, item_valid, item_write_lock>>

---------------------------------------------------------------------------
OooFifoInit ==
    /\ write_ptr = 0
    /\ read_ptr = 0
    /\ looped = FALSE
    /\ item_valid = [i \in Slots |-> FALSE]
    /\ item_write_lock = [i \in Slots |-> FALSE]

\* The slot the write pointer has come round to may still be in use.
WriteConfirmRd_IgnoresValid == ~WriteWait
WriteConfirmRd == ~WriteWait /\ ~item_valid[write_ptr]

ReadExecuteVld == ~ReadWait

\* confirmed is the set of the item returned in this cycle, or the empty one.
NextItemValid_ForgetsConfirm(wr_en, confirmed) ==
    [i \in Slots |-> item_valid[i] \/ (wr_en /\ write_ptr = i)]
NextItemValid(wr_en, confirmed) ==
    [i \in Slots |-> i \notin confirmed /\ (item_valid[i] \/ (wr_en /\ write_ptr = i))]

\* An allocated item is locked when the reader stands at it or is stepping onto it.
NextItemWriteLock(wr_en, read_req, confirmed) ==
    [i \in Slots |->
        /\ i \notin confirmed
        /\ ~(wr_en /\ write_ptr = i)
        /\ IF read_ptr = i \/ (read_req /\ NextPtr(read_ptr) = i)
           THEN item_valid[i] ELSE item_write_lock[i]]

\* A clock edge with write_confirm.vld, read_execute.rd and the confirmed items.
OooFifoCycle(write_vld, read_rd, confirmed) ==
    LET write_req == write_vld /\ WriteConfirmRd
        read_req == read_rd /\ ~ReadWait
        write_en == FifoWrite(write_req)
    IN  /\ PointersCycle(write_req, read_req)
        /\ item_valid' = NextItemValid(write_en, confirmed)
        /\ item_write_lock' = NextItemWriteLock(write_en, read_req, confirmed)

OooFifoReset ==
    /\ write_ptr' = 0
    /\ read_ptr' = 0
    /\ looped' = FALSE
    /\ item_valid' = [i \in Slots |-> FALSE]
    /\ item_write_lock' = [i \in Slots |-> FALSE]

---------------------------------------------------------------------------
\* Items allocated and not handed out yet.
Waiting ==
    {i \in Slots : IF looped THEN i >= read_ptr \/ i < write_ptr
                             ELSE i >= read_ptr /\ i < write_ptr}

\* Items handed out and not returned.
HandedOut == {i \in Slots : item_valid[i]} \ Waiting
===========================================================================
