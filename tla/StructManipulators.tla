------------------------- MODULE StructManipulators -------------------------
(***************************************************************************)
(* hwtLib.structManipulators, the components that go through structures in *)
(* memory over a datapump: ArrayBuff_writer fills a circular buffer,       *)
(* CLinkedListReader reads the items of a list of blocks, MMU_2pageLvl     *)
(* with its ArrayItemGetter translates addresses.  An action is one clock. *)
(*                                                                         *)
(* A word of data is the place it belongs to: an item of the writer is the *)
(* number of its slot, a word of the memory is its address.                *)
(***************************************************************************)
EXTENDS Naturals, Sequences

CONSTANTS
    UP_ITEMS,          \* ArrayBuff_writer: ITEMS, slots of the circular buffer
    BUFF_DEPTH,
    TIMEOUT,
    ITEMS_IN_BLOCK,    \* CLinkedListReader: a block ends with the address of the next one
    BURST_LEN,         \* BUFFER_CAPACITY \div 2
    PTR_MOD,           \* 2 ** PTR_WIDTH
    BLOCK_MOD,         \* 2 ** (width of inBlockRemain)
    NextBlock,         \* of each block of the list, which starts with block 0
    Virts,             \* MMU: addresses that are asked, [l1, l2]
    MAX_OVERLAP,
    RootTable,         \* base of a leaf table for each l1, or BadBase
    BadBase,
    Unmapped           \* <<base, index>> of the leaf items that are not valid

ASSUME StructParams ==
    /\ {UP_ITEMS, BUFF_DEPTH, TIMEOUT, ITEMS_IN_BLOCK, BURST_LEN, PTR_MOD, BLOCK_MOD} \subseteq Nat
    /\ TIMEOUT > 1 /\ BUFF_DEPTH > 1 /\ BUFF_DEPTH <= UP_ITEMS
    /\ ITEMS_IN_BLOCK < BLOCK_MOD /\ BURST_LEN > 0 /\ PTR_MOD > 0
    /\ 0 \in DOMAIN NextBlock /\ DOMAIN NextBlock \subseteq Nat
    /\ NextBlock \in [DOMAIN NextBlock -> DOMAIN NextBlock]
    /\ \A v \in Virts : v.l2 \in Nat

VARIABLES
    \* ArrayBuff_writer
    st, buff, buff_offset, remaining, sizeOfitems, lastWordCntr, timeoutCntr,
    uploadedCntr,      \* modulo UP_ITEMS
    next_slot,         \* environment: of the item the producer has next
    up_burst,          \* environment: <<>> or [at, left], the burst that is written
    \* CLinkedListReader
    downloadPending, baseIndex, inBlockRemain, rdPtr, wrPtr,
    dataFifo,
    list_pos,          \* environment: [block, off] of the item that is to come next
    dl,                \* environment: <<>> or [at, left, id], the burst that is read
    \* MMU_2pageLvl
    read_pending, readData, readDataOverflow,   \* of lvl1Converter
    lvl2indxFifo, pageOffsetFifo, itemSubIndexFifo,
    segfaultFlag,
    mem_reads,         \* environment: requests of leaf items
    translated         \* what left at physOut in the last clock

upVars == <<st, buff, buff_offset, remaining, sizeOfitems, lastWordCntr, timeoutCntr,
            uploadedCntr, next_slot, up_burst>>
listVars == <<downloadPending, baseIndex, inBlockRemain, rdPtr, wrPtr, dataFifo, list_pos, dl>>
mmuVars == <<read_pending, readData, readDataOverflow, lvl2indxFifo, pageOffsetFifo,
             itemSubIndexFifo, segfaultFlag, mem_reads, translated>>
structVars == <<upVars, listVars, mmuVars>>

---------------------------------------------------------------------------
(* HandshakedFifo: a ring and an output register (see HandshakedFifo.tla). *)

NewFifo == [ring |-> <<>>, out |-> <<>>]
FifoSize(f) == Len(f.ring) + Len(f.out)
FifoRd(f, depth) == Len(f.ring) < depth - 1

\* in: <<>> or the word that is stored, takes: the word at the output is taken.
FifoStep(f, in, takes) ==
    IF f.out # <<>> /\ ~takes THEN [f EXCEPT !.ring = @ \o in]
    ELSE IF f.ring = <<>> THEN [out |-> <<>>, ring |-> in]
    ELSE [out |-> <<f.ring[1]>>, ring |-> Tail(f.ring) \o in]

---------------------------------------------------------------------------
(* ArrayBuff_writer *)

BeginReq == FifoSize(buff) = BUFF_DEPTH \/ timeoutCntr = 0
EndOfLenBlock == remaining <= FifoSize(buff)
SizeTmp == IF EndOfLenBlock THEN remaining ELSE FifoSize(buff)

NextRemaining_NoEnd(starts) ==
    IF ~starts THEN remaining
    ELSE IF remaining = FifoSize(buff) THEN UP_ITEMS
    ELSE (remaining + UP_ITEMS - FifoSize(buff)) % UP_ITEMS
NextRemaining(starts) ==
    IF ~starts THEN remaining
    ELSE IF EndOfLenBlock THEN UP_ITEMS
    ELSE remaining - FifoSize(buff)

\* The producer offers an item, the datapump takes a request and a word, or acknowledges.
UploadCycle(vld, req_rd, w_rd, ack) ==
    LET starts == st = "waitOnInput" /\ BeginReq /\ req_rd
        w_ack  == w_rd /\ buff.out # <<>>
        sends  == st = "waitOnDataTx" /\ w_ack
        item   == IF vld /\ FifoRd(buff, BUFF_DEPTH) THEN <<next_slot>> ELSE <<>>
        acked  == st = "waitOnAck" /\ ack
    IN
    /\ st' = CASE starts -> "waitOnDataTx"
               [] sends /\ lastWordCntr = 1 -> "waitOnAck"
               [] acked -> "waitOnInput"
               [] OTHER -> st
    /\ buff' = FifoStep(buff, item, sends)
    /\ buff_offset' = IF ~starts THEN buff_offset
                      ELSE IF EndOfLenBlock THEN 0 ELSE buff_offset + FifoSize(buff)
    /\ remaining' = NextRemaining(starts)
    /\ sizeOfitems' = IF starts THEN SizeTmp ELSE sizeOfitems
    /\ timeoutCntr' = IF starts THEN TIMEOUT - 1
                      ELSE IF ~BeginReq /\ buff.out # <<>> /\ st = "waitOnInput"
                           THEN timeoutCntr - 1 ELSE timeoutCntr
    /\ lastWordCntr' = IF starts THEN SizeTmp
                       ELSE IF lastWordCntr # 0 /\ w_ack THEN lastWordCntr - 1 ELSE lastWordCntr
    /\ uploadedCntr' = IF acked THEN (uploadedCntr + sizeOfitems) % UP_ITEMS ELSE uploadedCntr
    /\ next_slot' = IF item # <<>> THEN (next_slot + 1) % UP_ITEMS ELSE next_slot
    /\ up_burst' = IF starts THEN <<[at |-> buff_offset, left |-> SizeTmp]>>
                   ELSE IF acked THEN <<>>
                   ELSE IF sends THEN <<[at |-> up_burst[1].at + 1, left |-> up_burst[1].left - 1]>>
                   ELSE up_burst

\* A burst is acknowledged after its last word.
Acks == IF up_burst # <<>> /\ st = "waitOnAck" THEN BOOLEAN ELSE {FALSE}

UploadNext ==
    \E vld, req_rd, w_rd \in BOOLEAN : \E ack \in Acks : UploadCycle(vld, req_rd, w_rd, ack)

UploadEager == \E vld \in BOOLEAN : UploadCycle(vld, TRUE, TRUE, TRUE \in Acks)

UploadInit ==
    /\ st = "waitOnInput" /\ buff = NewFifo /\ buff_offset = 0 /\ remaining = UP_ITEMS
    /\ sizeOfitems = 0 /\ lastWordCntr = 0 /\ timeoutCntr = TIMEOUT - 1 /\ uploadedCntr = 0
    /\ next_slot = 0 /\ up_burst = <<>>

---------------------------------------------------------------------------
(* CLinkedListReader *)

BlockAddr(block) == block * (ITEMS_IN_BLOCK + 1)
SizeByPtrs == (wrPtr + PTR_MOD - rdPtr) % PTR_MOD
ConstraingSpace == IF inBlockRemain < SizeByPtrs THEN inBlockRemain ELSE SizeByPtrs
ConstrainedByInBlockRemain == SizeByPtrs % BLOCK_MOD >= inBlockRemain

BufferHasSpace == FifoSize(dataFifo) < BURST_LEN + 1

\* The request of this clock: its words, its id and what it leaves of the block.
ListRequest ==
    IF ConstraingSpace > BURST_LEN
    THEN [id |-> "ID", words |-> BURST_LEN, remain |-> inBlockRemain - BURST_LEN]
    ELSE IF ConstrainedByInBlockRemain /\ inBlockRemain < BURST_LEN
    THEN [id |-> "ID_LAST", words |-> ConstraingSpace + 1, remain |-> ITEMS_IN_BLOCK]
    ELSE [id |-> "ID", words |-> ConstraingSpace, remain |-> inBlockRemain - ConstraingSpace]

NextOf(burst) == [at |-> burst.at + 1, left |-> burst.left - 1, id |-> burst.id]

\* The datapump takes the request and answers its words; the consumer takes an item and
\* the software moves wrPtr.
ListCycle(req_rd, r_vld, rd, new_items) ==
    LET asks   == ~downloadPending /\ BufferHasSpace /\ wrPtr # rdPtr /\ req_rd
        takes  == r_vld /\ downloadPending /\ FifoRd(dataFifo, 2 * BURST_LEN)
        last   == takes /\ dl[1].left = 1
        isLink == last /\ dl[1].id = "ID_LAST"
        q      == ListRequest
    IN
    /\ downloadPending' = ((downloadPending \/ asks) /\ ~last)
    /\ baseIndex' = IF ~takes THEN baseIndex
                    ELSE IF isLink THEN BlockAddr(NextBlock[list_pos.block]) ELSE baseIndex + 1
    /\ inBlockRemain' = IF asks THEN q.remain ELSE inBlockRemain
    /\ rdPtr' = IF takes /\ ~isLink THEN (rdPtr + 1) % PTR_MOD ELSE rdPtr
    /\ wrPtr' = (wrPtr + new_items) % PTR_MOD
    /\ dataFifo' = FifoStep(dataFifo, IF takes /\ ~isLink THEN <<"item">> ELSE <<>>,
                            rd /\ dataFifo.out # <<>>)
    /\ dl' = IF asks THEN <<[at |-> baseIndex, left |-> q.words, id |-> q.id]>>
             ELSE IF last THEN <<>>
             ELSE IF takes THEN <<NextOf(dl[1])>> ELSE dl
    /\ list_pos' = IF ~takes THEN list_pos
                   ELSE IF isLink THEN [block |-> NextBlock[list_pos.block], off |-> 0]
                   ELSE [list_pos EXCEPT !.off = @ + 1]

\* The ring of the list never gets full, since then it would look empty.
ListNext ==
    \E req_rd, r_vld, rd \in BOOLEAN, new_items \in {0, 1, 3} :
        /\ r_vld => dl # <<>>
        /\ SizeByPtrs + new_items < PTR_MOD
        /\ ListCycle(req_rd, r_vld, rd, new_items)

ListEager == ListCycle(TRUE, dl # <<>>, TRUE, 0)

ListInit ==
    /\ downloadPending = FALSE /\ baseIndex = BlockAddr(0) /\ inBlockRemain = ITEMS_IN_BLOCK
    /\ rdPtr = 0 /\ wrPtr = 0 /\ dataFifo = NewFifo
    /\ list_pos = [block |-> 0, off |-> 0] /\ dl = <<>>

---------------------------------------------------------------------------
(* MMU_2pageLvl, with lvl2get: two leaf items are in a word of the memory *)

LeafOf(word, sub) == <<word[1], 2 * word[2] + sub>>
SubFifoDepth == MAX_OVERLAP
IndxFifoDepth == MAX_OVERLAP \div 2

\* A translation is asked, the memory takes a request and answers one, a result is taken.
MmuCycle(virt, req_rd, r_vld, phys_rd) ==
    LET \* lvl2get.item and pageOffsetFifo leave together
        itemVld  == r_vld /\ itemSubIndexFifo.out # <<>>
        itemTaken == itemVld /\ pageOffsetFifo.out # <<>> /\ phys_rd
        item     == LeafOf(mem_reads[1], itemSubIndexFifo.out[1])
        bad      == itemVld /\ item \in Unmapped
        \* a base of the first level and its index go to lvl2get
        indexRd  == req_rd /\ FifoRd(itemSubIndexFifo, SubFifoDepth)
        basePops == readData # <<>> /\ lvl2indxFifo.out # <<>> /\ indexRd
        asks     == basePops /\ ~segfaultFlag
        \* RamAsAddrDataRdVld
        dataRd   == lvl2indxFifo.out # <<>> /\ indexRd
        rEn      == (readDataOverflow = <<>> \/ dataRd) /\ (readData = <<>> \/ dataRd)
        accepts  == /\ virt # <<>> /\ rEn
                    /\ FifoRd(lvl2indxFifo, IndxFifoDepth) /\ FifoRd(pageOffsetFifo, MAX_OVERLAP)
        baseBad  == readData = <<BadBase>>
    IN
    /\ read_pending' = IF accepts THEN <<RootTable[virt[1].l1]>> ELSE <<>>
    /\ readData' = IF read_pending # <<>>
                   THEN IF readData = <<>> \/ dataRd THEN read_pending ELSE readData
                   ELSE IF dataRd THEN readDataOverflow ELSE readData
    /\ readDataOverflow' = IF read_pending # <<>>
                           THEN IF readData = <<>> \/ dataRd THEN <<>> ELSE read_pending
                           ELSE IF dataRd THEN <<>> ELSE readDataOverflow
    /\ lvl2indxFifo' = FifoStep(lvl2indxFifo, IF accepts THEN <<virt[1].l2>> ELSE <<>>, basePops)
    /\ pageOffsetFifo' = FifoStep(pageOffsetFifo, IF accepts THEN virt ELSE <<>>, itemTaken)
    /\ itemSubIndexFifo' = FifoStep(itemSubIndexFifo,
                                    IF asks THEN <<lvl2indxFifo.out[1] % 2>> ELSE <<>>, itemTaken)
    /\ mem_reads' = (IF itemTaken THEN Tail(mem_reads) ELSE mem_reads)
                    \o (IF asks THEN <<<<readData[1], lvl2indxFifo.out[1] \div 2>>>> ELSE <<>>)
    /\ segfaultFlag' = (segfaultFlag \/ bad \/ baseBad)
    /\ translated' = IF itemTaken /\ ~segfaultFlag /\ ~bad
                     THEN <<[virt |-> pageOffsetFifo.out[1], phys |-> item]>> ELSE <<>>

MmuNext ==
    \E virt \in {<<>>} \cup {<<v>> : v \in Virts}, req_rd, r_vld, phys_rd \in BOOLEAN :
        (r_vld => mem_reads # <<>>) /\ MmuCycle(virt, req_rd, r_vld, phys_rd)

MmuEager == MmuCycle(<<>>, TRUE, mem_reads # <<>>, TRUE)

MmuInit ==
    /\ read_pending = <<>> /\ readData = <<>> /\ readDataOverflow = <<>>
    /\ lvl2indxFifo = NewFifo /\ pageOffsetFifo = NewFifo /\ itemSubIndexFifo = NewFifo
    /\ segfaultFlag = FALSE /\ mem_reads = <<>> /\ translated = <<>>

StructInit == UploadInit /\ ListInit /\ MmuInit

\* The three have nothing in common.
StructNext ==
    \/ UploadNext /\ UNCHANGED <<listVars, mmuVars>>
    \/ ListNext /\ UNCHANGED <<upVars, mmuVars>>
    \/ MmuNext /\ UNCHANGED <<upVars, listVars>>

StructSpec == StructInit /\ [][StructNext]_structVars

---------------------------------------------------------------------------
(* Properties *)

\* The word that is sent belongs to the slot the burst is at, also after the buffer has
\* wrapped, w.last comes with the last word of the request, and uploadedCntr is the slot of
\* the first item that is not acknowledged yet.
ItemsGoToTheirSlots ==
    /\ st = "waitOnDataTx" =>
           /\ lastWordCntr = up_burst[1].left
           /\ up_burst[1].left <= FifoSize(buff)
           /\ buff.out # <<>> => buff.out[1] = up_burst[1].at
    /\ (uploadedCntr + (IF st = "waitOnInput" THEN 0 ELSE sizeOfitems)) % UP_ITEMS = buff_offset
    /\ buff_offset + remaining = UP_ITEMS

\* The reader asks for the next words of the list: items of one block and then its link, as
\* many as are there and as fit into the buffer, and not more than a burst.
ListIsReadInOrder ==
    /\ baseIndex = BlockAddr(list_pos.block) + list_pos.off
    /\ downloadPending = (dl # <<>>)
    /\ dl # <<>> =>
           LET items == dl[1].left - (IF dl[1].id = "ID_LAST" THEN 1 ELSE 0) IN
           /\ dl[1].at = baseIndex /\ dl[1].left <= BURST_LEN
           /\ items <= SizeByPtrs
           /\ FifoSize(dataFifo) + items <= 2 * BURST_LEN
           /\ IF dl[1].id = "ID_LAST" THEN list_pos.off + items = ITEMS_IN_BLOCK
              ELSE list_pos.off + items + inBlockRemain = ITEMS_IN_BLOCK

\* A result is the leaf item of its own address, and none is given for a page that is not
\* mapped.
TranslationsMatch ==
    translated # <<>> =>
        LET t == translated[1] IN
        /\ RootTable[t.virt.l1] # BadBase
        /\ t.phys = <<RootTable[t.virt.l1], t.virt.l2>>
        /\ t.phys \notin Unmapped

\* The components that work over a datapump: items are written to their slots, a list is read
\* in its order, and addresses are translated by their own table items.
StructuresAreKept == ItemsGoToTheirSlots /\ ListIsReadInOrder /\ TranslationsMatch
===========================================================================
