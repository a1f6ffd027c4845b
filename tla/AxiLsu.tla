------------------------------- MODULE AxiLsu -------------------------------
(***************************************************************************)
(* hwtLib.amba.axi_comp.lsu: AxiReadAggregator, which lets a read of a     *)
(* line that is being read wait for the data of the first read, and        *)
(* AxiWriteAggregator with its AxiWriteAggregatorWriteDispatcher, which    *)
(* keeps the words of writes in a RAM until they are confirmed, in the     *)
(* items of a FifoOutOfOrderReadFiltered.  An action is one clock.         *)
(*                                                                         *)
(* The write aggregator looks for an item to merge a write with, but       *)
(* write_pre_lookup_res has only items that are locked and data_insert     *)
(* uses only items that are not, so cam_found is never set: the model has  *)
(* no merging.  The frames of the read aggregator have one word (its       *)
(* frame_buff is Axi4SRegCopy).  A word carries the line it is of in place *)
(* of its data.                                                            *)
(***************************************************************************)
EXTENDS HandshakedReg, FiniteSets

CONSTANTS
    LsuLines,          \* addresses of cache lines
    ReadIds,           \* of the read aggregator
    LSU_ITEMS,         \* items of the write aggregator, 2 ** ID_WIDTH
    LINE_WORDS         \* BUS_WORDS_IN_CACHE_LINE

ASSUME LsuAssumption == IsFiniteSet(ReadIds) /\ LsuLines # {}
ASSUME ItemsAssumption == LSU_ITEMS \in Nat \ {0} /\ LINE_WORDS \in Nat \ {0}

VARIABLES
    \* AxiReadAggregator
    s_ar_tmp,          \* <<>> or the request with its matches: addr_cam_out_reg moves with it
    last_cam_insert_match, addr_cam, item_vld,
    waiting_transaction_vld, waiting_transaction_id,
    frame_buff,        \* <<>> or a word
    loading,           \* environment: the reads of the memory
    asked_line,        \* environment: the line of the last request of an id
    \* AxiWriteAggregator
    w_in_reg,          \* vld, addr and word
    w_in_first, push_offset, data_ram, tag_cam,
    write_ptr, read_ptr, looped, item_valid, item_write_lock,
    \* AxiWriteAggregatorWriteDispatcher
    a_tmp,             \* <<>> or an address
    pop_offset,
    ram_dout,          \* the word that was read in the last clock, <<>> without read_pending
    read_data, read_data_backup,
    \* environment
    w_line,            \* line of the burst that is written
    lone_aws, lone_ws, \* addresses without all of their words, bursts without address
    unconfirmed

readVars == <<s_ar_tmp, last_cam_insert_match, addr_cam, item_vld, waiting_transaction_vld,
              waiting_transaction_id, frame_buff, loading, asked_line>>
itemVars == <<write_ptr, read_ptr, looped, item_valid, item_write_lock>>
writeVars == <<w_in_reg, w_in_first, push_offset, data_ram, tag_cam, itemVars, a_tmp, pop_offset,
               ram_dout, read_data, read_data_backup, w_line, lone_aws, lone_ws, unconfirmed>>
lsuVars == <<readVars, writeVars>>

OooFifo == INSTANCE FifoOutOfOrderRead WITH DEPTH <- LSU_ITEMS

IfSet(cond, x) == IF cond THEN {x} ELSE {}

---------------------------------------------------------------------------
(* AxiReadAggregator *)

\* The reads of the same line that the request in s_ar_tmp can wait for: found in the CAM
\* when it came, or asked just before it.
MatchRes_NoLast ==
    IF s_ar_tmp = <<>> THEN {}
    ELSE (item_vld \cap s_ar_tmp[1].cam) \ waiting_transaction_vld
MatchRes ==
    IF s_ar_tmp = <<>> THEN {}
    ELSE (item_vld \cap (s_ar_tmp[1].cam \cup last_cam_insert_match)) \ waiting_transaction_vld

ParentTransactionId == CHOOSE i \in MatchRes : TRUE

BlockingAccess(ar) ==
    ar # <<>> /\ (ar[1].id \in item_vld \/ (s_ar_tmp # <<>> /\ s_ar_tmp[1].id = ar[1].id))

ArAck(m_ar_rd) == s_ar_tmp # <<>> /\ (MatchRes = {} => m_ar_rd)

\* The word at dataOut is the last of the read that the request in s_ar_tmp matches.
DataCopyOverride(r_rd) ==
    frame_buff # <<>> /\ r_rd /\ MatchRes # {} /\ frame_buff[1].id = ParentTransactionId

\* frame_buff sends its word once more, for the read that waits for it.
CopyFrame(r_rd) ==
    \/ DataCopyOverride(r_rd)
    \/ frame_buff # <<>> /\ frame_buff[1].id \in waiting_transaction_vld

NextFrameBuff(answer, r_rd) ==
    IF frame_buff # <<>> /\ ~r_rd THEN frame_buff
    ELSE IF CopyFrame(r_rd)
         THEN <<[frame_buff[1] EXCEPT !.id = IF DataCopyOverride(r_rd) THEN s_ar_tmp[1].id
                                             ELSE waiting_transaction_id[@]]>>
    ELSE answer

\* The master offers a request, the memory takes one and answers one, the master takes a word.
ReadCycle(ar, m_ar_rd, answer, r_rd) ==
    LET ar_ack  == ArAck(m_ar_rd)
        accepts == ar # <<>> /\ ~BlockingAccess(ar) /\ (s_ar_tmp = <<>> \/ ar_ack)
        shares  == ar_ack /\ MatchRes # {}
        started == IfSet(ar_ack, s_ar_tmp[1].id)
        ended   == IfSet(frame_buff # <<>> /\ r_rd, frame_buff[1].id)
    IN
    /\ s_ar_tmp' = IF accepts
                   THEN <<[id |-> ar[1].id, line |-> ar[1].line,
                           cam |-> {i \in item_vld : addr_cam[i] = ar[1].line}]>>
                   ELSE IF ar_ack THEN <<>> ELSE s_ar_tmp
    /\ last_cam_insert_match' =
           IfSet(/\ ar # <<>> /\ ~BlockingAccess(ar)
                 /\ s_ar_tmp # <<>> /\ s_ar_tmp[1].line = ar[1].line, s_ar_tmp[1].id)
    /\ addr_cam' = IF s_ar_tmp = <<>> THEN addr_cam
                   ELSE [addr_cam EXCEPT ![s_ar_tmp[1].id] = s_ar_tmp[1].line]
    /\ item_vld' = (item_vld \cup started) \ ended
    /\ waiting_transaction_vld' =
           (waiting_transaction_vld \cup IfSet(shares, ParentTransactionId)) \ ended
    /\ waiting_transaction_id' =
           IF shares THEN [waiting_transaction_id EXCEPT ![ParentTransactionId] = s_ar_tmp[1].id]
           ELSE waiting_transaction_id
    /\ frame_buff' = NextFrameBuff(answer, r_rd)
    /\ loading' =
           (loading \ (IF CopyFrame(r_rd) \/ (frame_buff # <<>> /\ ~r_rd) THEN {}
                       ELSE {answer[i] : i \in 1 .. Len(answer)}))
           \cup IfSet(ar_ack /\ ~shares, [id |-> s_ar_tmp[1].id, line |-> s_ar_tmp[1].line])
    /\ asked_line' = IF accepts THEN [asked_line EXCEPT ![ar[1].id] = ar[1].line] ELSE asked_line

Offered1(words) == {<<>>} \cup {<<w>> : w \in words}

ReadNext(m_ar_rd, r_rd) ==
    \E ar \in Offered1([id : ReadIds, line : LsuLines]), answer \in Offered1(loading) :
        ReadCycle(ar, m_ar_rd, answer, r_rd)

\* Everyone is ready, and the memory answers when it can.
ReadEager ==
    \E ar \in Offered1([id : ReadIds, line : LsuLines]), answer \in Offered1(loading) :
        (loading # {} => answer # <<>>) /\ ReadCycle(ar, TRUE, answer, TRUE)

ReadInit ==
    /\ s_ar_tmp = <<>> /\ last_cam_insert_match = {} /\ item_vld = {}
    /\ addr_cam = [i \in ReadIds |-> CHOOSE l \in LsuLines : TRUE]
    /\ waiting_transaction_vld = {} /\ waiting_transaction_id = [i \in ReadIds |-> i]
    /\ frame_buff = <<>> /\ loading = {} /\ asked_line = addr_cam

ReadSpec == ReadInit /\ [][\E m_ar_rd, r_rd \in BOOLEAN : ReadNext(m_ar_rd, r_rd)]_readVars

---------------------------------------------------------------------------
(* AxiWriteAggregator: words enter w_in_reg, and an item of data_ram when it is free *)

NoWrite == [line |-> Undef, last |-> FALSE]
Offsets == 0 .. LINE_WORDS - 1

InRegPasses == w_in_reg.vld /\ OooFifo!WriteConfirmRd
InsertsLast == InRegPasses /\ push_offset = LINE_WORDS - 1

\* s.aw with the first word, s.b with the last one; the other words keep the address.
NextInReg(word, b_rd) ==
    IF word # <<>> /\ (word[1].last => b_rd) /\ (~w_in_reg.vld \/ InRegPasses)
    THEN [vld |-> TRUE, word |-> word[1],
          addr |-> IF w_in_first THEN word[1].line ELSE w_in_reg.addr]
    ELSE [w_in_reg EXCEPT !.vld = @ /\ ~InRegPasses]

(* AxiWriteAggregatorWriteDispatcher *)

RAck(w_rd) == read_data = <<>> \/ w_rd
BusAck(aw_rd, w_rd) == RAck(w_rd) /\ (aw_rd \/ pop_offset # 0)
Pops(aw_rd, w_rd) == BusAck(aw_rd, w_rd) /\ OooFifo!ReadExecuteVld

NextATmp(aw_rd, w_rd) ==
    IF Pops(aw_rd, w_rd) /\ pop_offset = 0
    THEN <<[id |-> read_ptr, line |-> tag_cam[read_ptr]]>>
    ELSE IF aw_rd THEN <<>> ELSE a_tmp

NextReadData(w_rd) ==
    IF ~RAck(w_rd) THEN read_data ELSE IF ram_dout # <<>> THEN ram_dout ELSE read_data_backup

NextBackup(w_rd) ==
    IF RAck(w_rd) THEN <<>> ELSE IF ram_dout # <<>> THEN ram_dout ELSE read_data_backup

Next1(offset, moves) == IF moves THEN (offset + 1) % LINE_WORDS ELSE offset

\* The memory takes an address or the last word of a burst; what is complete will be confirmed.
MemoryTakes(aws, ws, confirmed) ==
    /\ lone_aws' = IF aws # <<>> /\ ws # <<>> THEN Tail(aws) ELSE aws
    /\ lone_ws' = IF aws # <<>> /\ ws # <<>> THEN Tail(ws) ELSE ws
    /\ unconfirmed' = (unconfirmed \ confirmed)
                      \cup (IF aws # <<>> /\ ws # <<>> THEN {aws[1].id} ELSE {})

\* The master offers a word and takes an answer, the memory takes an address and a word and
\* confirms a write.
WriteCycle(word, b_rd, aw_rd, w_rd, confirmed) ==
    LET pops == Pops(aw_rd, w_rd) IN
    /\ w_in_reg' = NextInReg(word, b_rd)
    /\ in_xfer' = IF word # <<>> /\ (word[1].last => b_rd) /\ (~w_in_reg.vld \/ InRegPasses)
                  THEN word ELSE <<>>
    /\ w_in_first' = IF in_xfer' # <<>> THEN word[1].last ELSE w_in_first
    /\ w_line' = IF in_xfer' # <<>> THEN word[1].line ELSE w_line
    /\ push_offset' = Next1(push_offset, InRegPasses)
    /\ data_ram' = IF InRegPasses
                   THEN [data_ram EXCEPT ![write_ptr][push_offset] = w_in_reg.word.line]
                   ELSE data_ram
    /\ tag_cam' = IF InsertsLast THEN [tag_cam EXCEPT ![write_ptr] = w_in_reg.addr] ELSE tag_cam
    /\ OooFifo!OooFifoCycle(InsertsLast, pops /\ pop_offset = LINE_WORDS - 1, confirmed)
    /\ a_tmp' = NextATmp(aw_rd, w_rd)
    /\ pop_offset' = Next1(pop_offset, pops)
    /\ ram_dout' = IF pops THEN <<[line |-> data_ram[read_ptr][pop_offset],
                                   last |-> pop_offset = LINE_WORDS - 1]>> ELSE <<>>
    /\ read_data' = NextReadData(w_rd)
    /\ read_data_backup' = NextBackup(w_rd)
    /\ out_xfer' = IF w_rd THEN read_data ELSE <<>>
    /\ MemoryTakes(IF aw_rd THEN lone_aws \o a_tmp ELSE lone_aws,
                   IF w_rd /\ read_data # <<>> /\ read_data[1].last
                   THEN Append(lone_ws, read_data[1].line) ELSE lone_ws, confirmed)

\* The next words of the burst of the master, or a new burst.
WriteWords ==
    LET last == Next1(push_offset, w_in_reg.vld) = LINE_WORDS - 1
    IN  [line : IF w_in_first THEN LsuLines ELSE {w_line}, last : {last}]

WriteNext(b_rd, aw_rd, w_rd) ==
    \E word \in Offered1(WriteWords), confirmed \in {{}} \cup {{i} : i \in unconfirmed} :
        WriteCycle(word, b_rd, aw_rd, w_rd, confirmed)

WriteEager ==
    \E word \in Offered1(WriteWords), confirmed \in {{}} \cup {{i} : i \in unconfirmed} :
        /\ unconfirmed # {} => confirmed # {}
        /\ ~w_in_first => word # <<>>
        /\ WriteCycle(word, TRUE, TRUE, TRUE, confirmed)

WriteInit ==
    /\ w_in_reg = [vld |-> FALSE, addr |-> CHOOSE l \in LsuLines : TRUE, word |-> NoWrite]
    /\ w_in_first = TRUE /\ push_offset = 0 /\ pop_offset = 0
    /\ data_ram = [s \in OooFifo!Slots |-> [o \in Offsets |-> CHOOSE l \in LsuLines : TRUE]]
    /\ tag_cam = [s \in OooFifo!Slots |-> CHOOSE l \in LsuLines : TRUE]
    /\ OooFifo!OooFifoInit
    /\ a_tmp = <<>> /\ ram_dout = <<>> /\ read_data = <<>> /\ read_data_backup = <<>>
    /\ w_line = CHOOSE l \in LsuLines : TRUE
    /\ lone_aws = <<>> /\ lone_ws = <<>> /\ unconfirmed = {}

---------------------------------------------------------------------------
LsuInit == ReadInit /\ WriteInit

\* The words inside the write aggregator, oldest first.
ItemWords(slot, from, to) ==
    [i \in 1 .. to - from |-> [line |-> data_ram[slot][from + i - 1],
                               last |-> from + i = LINE_WORDS]]

WriteContents ==
    LET n == Cardinality(OooFifo!Waiting)
        items[i \in 0 .. n] ==
            IF i = 0 THEN <<>>
            ELSE items[i - 1] \o ItemWords((read_ptr + i - 1) % LSU_ITEMS,
                                           IF i = 1 THEN pop_offset ELSE 0, LINE_WORDS)
    IN  read_data \o read_data_backup \o ram_dout \o items[n]
        \o ItemWords(write_ptr, 0, push_offset)
        \o (IF w_in_reg.vld THEN <<w_in_reg.word>> ELSE <<>>)

WriteCapacity == LSU_ITEMS * LINE_WORDS + 3

---------------------------------------------------------------------------
(* Properties *)

\* A read that was accepted is in one place: on its way from the memory, in frame_buff, or
\* waiting for one other read of its line; and a line is not read twice at the same time.
ReadsAreShared ==
    LET loads   == {r.id : r \in loading}
        shown   == {frame_buff[i].id : i \in 1 .. Len(frame_buff)}
        waiting == {waiting_transaction_id[p] : p \in waiting_transaction_vld}
    IN
    /\ item_vld = loads \cup shown \cup waiting
    /\ Cardinality(item_vld) =
           Cardinality(loading) + Len(frame_buff) + Cardinality(waiting_transaction_vld)
    /\ \A p \in waiting_transaction_vld :
           p \in item_vld /\ asked_line[p] = asked_line[waiting_transaction_id[p]]
    /\ \A i \in 1 .. Len(frame_buff) : frame_buff[i].line = asked_line[frame_buff[i].id]
    /\ \A q, r \in loading : q.line = r.line => q = r

\* The address that goes with a burst is the one of its words, and no id is used again
\* before its write was confirmed.
WritesMeetTheirAddress ==
    /\ lone_aws # <<>> /\ read_data # <<>> => read_data[1].line = lone_aws[1].line
    /\ lone_ws # <<>> /\ a_tmp # <<>> => a_tmp[1].line = lone_ws[1]
    /\ \A i \in 1 .. Len(a_tmp) :
           a_tmp[i].id \notin unconfirmed \cup {lone_aws[k].id : k \in 1 .. Len(lone_aws)}
===========================================================================
