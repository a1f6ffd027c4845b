---------------------------- MODULE AxiAdapters ----------------------------
(***************************************************************************)
(* Bridges between a bus with several transactions under way and a simpler *)
(* one, and the buffer that puts answers back in order: Axi_to_AxiLite     *)
(* (amba/axi_comp/to_axiLite.py), Axi4_to_AvalonMm (avalon/axiToMm.py),    *)
(* AvalonMm_to_Axi4 (avalon/mmToAxi.py) and ReorderBuffer                  *)
(* (amba/axi_comp/oooOp/reorder_buffer.py).  An action is one clock.  The  *)
(* HandshakedFifos inside are bounded queues whose output may be late, the *)
(* registers at the ports are left to HandshakedReg.                       *)
(*                                                                         *)
(* To OrderedStream the words of a bridge enter with the request for them, *)
(* and leave with the answer.                                              *)
(***************************************************************************)
EXTENDS HandshakedReg

CONSTANTS
    Ids,                \* of AXI requests
    MAX_LEN,            \* bound: the longest burst, in words minus one
    BRIDGES,            \* of "to_lite", "to_avalon", "from_avalon", "reorder"
    REQ_DEPTH,          \* MAX_TRANS_OVERLAP of Axi_to_AxiLite
    R_DATA_FIFO_DEPTH,
    LITE_OVERLAP,       \* bound: beats that the simpler bus has not answered
    ID_COUNT,           \* 2 ** ID_WIDTH of the reorder buffer
    EARLY_ID,           \* its producer reuses an id before its last word was read
    AR_STALLS           \* reads wait for room while writes are offered, READ first

ASSUME AdapterAssumption ==
    MAX_LEN \in Nat /\ R_DATA_FIFO_DEPTH \in Nat /\ ID_COUNT \in Nat \ {0}

VARIABLES
    bridge,
    \* Axi_to_AxiLite: the address side and the response side of one direction
    len_rem,            \* <<>> without len_rem_vld
    req_fifo,
    rem,                \* <<>> without rem_vld, otherwise id_tmp and rem
    lite_beats,         \* environment: beats the AxiLite slave has to answer
    \* Axi4_to_AvalonMm
    rw_priority,
    addr_tmp,           \* <<>> without vld
    r_size_fifo, r_data_fifo,
    word_cntr,          \* wordIndexCntr, <<>> without vld
    r_data_fifo_capacity,
    avalon_words,       \* environment: words the slave has to send
    w_left,             \* environment: words of the write that was accepted
    \* AvalonMm_to_Axi4
    w_last_cntr,        \* <<>> without w_last_cntr_vld
    burst_left,         \* environment: words the Avalon master has to write
    \* ReorderBuffer, whose words are numbered in the order of their ids
    dataIn_reg, item_occ, storage, out_cntr,
    read_words,         \* words on their way through the reader of the RAM
    sent,               \* environment: words that were given to it since the one due
    due                 \* environment: number of the word that leaves next

liteVars == <<len_rem, req_fifo, rem, lite_beats>>
avalonVars == <<rw_priority, addr_tmp, r_size_fifo, r_data_fifo, word_cntr,
                r_data_fifo_capacity, avalon_words, w_left>>
reorderVars == <<dataIn_reg, item_occ, storage, out_cntr, read_words, sent, due>>
masterVars == <<w_last_cntr, burst_left>>
adapterVars == <<bridge, liteVars, avalonVars, masterVars, reorderVars>>

Requests == [id : Ids, len : 0 .. MAX_LEN]

\* The marks of the words of a burst: which is the last.
Burst(len) == [i \in 1 .. len + 1 |-> i = len + 1]

---------------------------------------------------------------------------
(* Axi_to_AxiLite, its read or its write side: they differ in that only the b of the last *)
(* beat is shown to the master.                                                           *)

\* The words of a request in order.
WordsOf(req) == [i \in 1 .. req.len + 1 |-> [id |-> req.id, last |-> i = req.len + 1]]

\* gen_addr_logic: the first beat of a request passes when the queue has room for it.
Starts(req, addr_rd) == len_rem = <<>> /\ req # <<>> /\ addr_rd /\ Len(req_fifo) < REQ_DEPTH

NextLenRem(req, addr_rd) ==
    IF len_rem # <<>> /\ addr_rd THEN IF len_rem[1] = 0 THEN <<>> ELSE <<len_rem[1] - 1>>
    ELSE IF Starts(req, addr_rd) /\ req[1].len # 0 THEN <<req[1].len - 1>>
    ELSE len_rem

\* gen_b_or_r_logic: a beat is answered; the one of the last beat ends the request.
Passes(in_vld, out_rd) == rem # <<>> /\ in_vld /\ out_rd
LastPasses(in_vld, out_rd) == Passes(in_vld, out_rd) /\ rem[1].rem = 0
LoadsRem(in_vld, out_rd) == rem = <<>> \/ LastPasses(in_vld, out_rd)

NextRem(in_vld, out_rd, vld) ==
    IF LoadsRem(in_vld, out_rd)
    THEN IF vld THEN <<[id |-> Head(req_fifo).id, rem |-> Head(req_fifo).len]>> ELSE <<>>
    ELSE IF Passes(in_vld, out_rd) THEN <<[rem[1] EXCEPT !.rem = @ - 1]>>
    ELSE rem

\* The master offers req, the slave takes an address (addr_rd), answers (in_vld), the
\* master takes what is at r or b, the queue shows its word.
LiteCycle(req, addr_rd, in_vld, out_rd, vld) ==
    LET starts == Starts(req, addr_rd)
        passes == Passes(in_vld, out_rd)
        popped == IF vld /\ LoadsRem(in_vld, out_rd) THEN Tail(req_fifo) ELSE req_fifo
        beats  == lite_beats + (IF starts \/ (len_rem # <<>> /\ addr_rd) THEN 1 ELSE 0)
    IN
    /\ vld => req_fifo # <<>>
    /\ in_vld => lite_beats > 0
    /\ beats <= LITE_OVERLAP
    /\ len_rem' = NextLenRem(req, addr_rd)
    /\ req_fifo' = IF starts THEN Append(popped, req[1]) ELSE popped
    /\ rem' = NextRem(in_vld, out_rd, vld)
    /\ lite_beats' = IF passes THEN beats - 1 ELSE beats
    /\ in_xfer' = IF starts THEN WordsOf(req[1]) ELSE <<>>
    /\ out_xfer' = IF passes THEN <<[id |-> rem[1].id, last |-> rem[1].rem = 0]>> ELSE <<>>

LiteNext(out_rd) ==
    \E req \in {<<>>} \cup {<<r>> : r \in Requests}, addr_rd, in_vld, vld \in BOOLEAN :
        LiteCycle(req, addr_rd, in_vld, out_rd, vld)

\* A clock in which everyone is ready.
LiteEager ==
    \E req \in {<<>>} \cup {<<r>> : r \in Requests} :
        LiteCycle(req, lite_beats < LITE_OVERLAP, lite_beats > 0, TRUE, req_fifo # <<>>)

LiteInit == len_rem = <<>> /\ req_fifo = <<>> /\ rem = <<>> /\ lite_beats = 0

LiteContents ==
    LET words[i \in 0 .. Len(req_fifo)] ==
            IF i > 0 THEN words[i - 1] \o WordsOf(req_fifo[i])
            ELSE IF rem = <<>> THEN <<>> ELSE WordsOf([id |-> rem[1].id, len |-> rem[1].rem])
    IN words[Len(req_fifo)]

---------------------------------------------------------------------------
(* Axi4_to_AvalonMm *)

IsWrite == addr_tmp # <<>> /\ addr_tmp[1].is_w
IsLastWord == addr_tmp[1].len = 0

WillBeIdle(wait, w_vld, b_rd) ==
    addr_tmp = <<>> \/ (~wait /\ (IsWrite => IsLastWord /\ w_vld /\ b_rd))

\* The write channel: a word passes; the last one together with the answer.
WordPasses(wait, w_vld, b_rd) == IsWrite /\ ~wait /\ w_vld /\ (IsLastWord => b_rd)

ArEn(ar, aw, wait, w_vld, b_rd) ==
    /\ ar # <<>> /\ WillBeIdle(wait, w_vld, b_rd)
    /\ r_data_fifo_capacity > ar[1] /\ Len(r_size_fifo) < R_DATA_FIFO_DEPTH
    /\ rw_priority = "WRITE" => ~(IsWrite /\ ~IsLastWord) /\ ~(aw # <<>> /\ w_vld)

\* With READ first the write address waits for a read that is offered, ...
AwReady(ar, wait, w_vld, b_rd) ==
    /\ WillBeIdle(wait, w_vld, b_rd) /\ w_vld
    /\ rw_priority = "READ" => ar = <<>>

\* ... but the register loads it unless the read is accepted.
LoadsAw(ar, aw, wait, w_vld, b_rd) ==
    /\ aw # <<>> /\ w_vld /\ WillBeIdle(wait, w_vld, b_rd)
    /\ ~ArEn(ar, aw, wait, w_vld, b_rd)

NextAddr(ar, aw, wait, w_vld, b_rd) ==
    IF ArEn(ar, aw, wait, w_vld, b_rd) THEN <<[len |-> ar[1], is_w |-> FALSE]>>
    ELSE IF LoadsAw(ar, aw, wait, w_vld, b_rd) THEN <<[len |-> aw[1], is_w |-> TRUE]>>
    ELSE IF WordPasses(wait, w_vld, b_rd) /\ ~IsLastWord
         THEN <<[addr_tmp[1] EXCEPT !.len = @ - 1]>>
    ELSE IF ~wait /\ (IsWrite => w_vld /\ b_rd) THEN <<>>
    ELSE addr_tmp

NextCapacity(ack, ar_en, len) ==
    IF ack /\ ar_en THEN r_data_fifo_capacity - len
    ELSE IF ack THEN r_data_fifo_capacity + 1
    ELSE IF ar_en THEN r_data_fifo_capacity - 1 - len
    ELSE r_data_fifo_capacity

\* wordIndexCntr
LoadsSize(ack) == word_cntr = <<>> \/ (ack /\ word_cntr[1] = 0)

NextWordCntr(ack, size_vld) ==
    IF LoadsSize(ack)
    THEN IF size_vld THEN <<Head(r_size_fifo)>> ELSE <<>>
    ELSE IF ack THEN <<word_cntr[1] - 1>> ELSE word_cntr

\* The master offers ar and aw (a length or none), a word of data, takes r and b; the slave
\* waits or not and sends a word of read data; the queue of lengths shows its word.
AvalonCycle(ar, aw, w_vld, r_rd, b_rd, wait, sends, size_vld) ==
    LET ack    == r_data_fifo # <<>> /\ word_cntr # <<>> /\ r_rd
        ar_en  == ArEn(ar, aw, wait, w_vld, b_rd)
        reads  == addr_tmp # <<>> /\ ~IsWrite /\ ~wait
        data   == IF ack THEN Tail(r_data_fifo) ELSE r_data_fifo
        sizes  == IF size_vld /\ LoadsSize(ack) THEN Tail(r_size_fifo) ELSE r_size_fifo
    IN
    /\ size_vld => r_size_fifo # <<>>
    /\ sends => avalon_words # <<>>
    /\ addr_tmp' = NextAddr(ar, aw, wait, w_vld, b_rd)
    /\ r_data_fifo' = IF sends THEN Append(data, Head(avalon_words)) ELSE data
    /\ r_size_fifo' = IF ar_en THEN Append(sizes, ar[1]) ELSE sizes
    /\ word_cntr' = NextWordCntr(ack, size_vld)
    /\ r_data_fifo_capacity' = NextCapacity(ack, ar_en, IF ar = <<>> THEN 0 ELSE ar[1])
    /\ avalon_words' = (IF sends THEN Tail(avalon_words) ELSE avalon_words)
                       \o (IF reads THEN Burst(addr_tmp[1].len) ELSE <<>>)
    /\ in_xfer' = IF ar_en THEN Burst(ar[1]) ELSE <<>>
    /\ out_xfer' = IF ack THEN <<word_cntr[1] = 0>> ELSE <<>>
    /\ w_left' = IF aw # <<>> /\ AwReady(ar, wait, w_vld, b_rd) THEN aw[1] + 1
                 ELSE IF WordPasses(wait, w_vld, b_rd) /\ w_left > 0 THEN w_left - 1 ELSE w_left
    /\ UNCHANGED rw_priority

Lengths == {<<>>} \cup {<<n>> : n \in 0 .. MAX_LEN}

\* With READ first, a write is not offered while a read waits, unless AR_STALLS.
WriteMayCome(ar, aw, wait, w_vld, b_rd) ==
    AR_STALLS \/ ~(rw_priority = "READ" /\ ar # <<>> /\ LoadsAw(ar, aw, wait, w_vld, b_rd))

AvalonNext(r_rd, b_rd, wait) ==
    \E ar, aw \in Lengths, w_vld, sends, size_vld \in BOOLEAN :
        \* inputs that make no difference have one value
        /\ ~IsWrite => b_rd /\ (aw = <<>> => ~w_vld)
        /\ addr_tmp = <<>> => ~wait
        /\ word_cntr = <<>> => r_rd
        /\ WriteMayCome(ar, aw, wait, w_vld, b_rd)
        /\ AvalonCycle(ar, aw, w_vld, r_rd, b_rd, wait, sends, size_vld)

AvalonEager ==
    \E ar, aw \in Lengths :
        /\ WriteMayCome(ar, aw, FALSE, TRUE, TRUE)
        /\ AvalonCycle(ar, aw, TRUE, TRUE, TRUE, FALSE, avalon_words # <<>>, r_size_fifo # <<>>)

AvalonInit ==
    /\ rw_priority \in IF bridge = "to_avalon" THEN {"READ", "WRITE"} ELSE {"READ"}
    /\ addr_tmp = <<>> /\ r_size_fifo = <<>> /\ r_data_fifo = <<>> /\ word_cntr = <<>>
    /\ r_data_fifo_capacity = R_DATA_FIFO_DEPTH
    /\ avalon_words = <<>> /\ w_left = 0

\* The words of reads under way.
AvalonContents ==
    r_data_fifo \o avalon_words
    \o (IF addr_tmp = <<>> \/ IsWrite THEN <<>> ELSE Burst(addr_tmp[1].len))

---------------------------------------------------------------------------
(* AvalonMm_to_Axi4: writes *)

\* A word is written when w is ready and, if it is the first of its burst, aw too.
FirstWord == w_last_cntr = <<>>
Writes(write, aw_rd, w_rd) == write /\ w_rd /\ (FirstWord => aw_rd)

NextWLast(write, burst, aw_rd, w_rd) ==
    IF ~Writes(write, aw_rd, w_rd) THEN w_last_cntr
    ELSE IF FirstWord THEN IF burst > 1 THEN <<burst - 2>> ELSE <<>>
    ELSE IF w_last_cntr[1] = 0 THEN <<>> ELSE <<w_last_cntr[1] - 1>>

\* The Avalon master goes on with its burst or begins one of `burst' words; an entering
\* word is marked with the address it needs and its end, a leaving one with aw and w.last.
MasterCycle(write, burst, aw_rd, w_rd) ==
    LET left == IF burst_left = 0 THEN burst ELSE burst_left IN
    /\ w_last_cntr' = NextWLast(write, burst, aw_rd, w_rd)
    /\ IF Writes(write, aw_rd, w_rd)
       THEN /\ burst_left' = left - 1
            /\ in_xfer' = <<[first |-> burst_left = 0, last |-> left = 1]>>
            /\ out_xfer' = <<[first |-> FirstWord, last |-> IF FirstWord THEN burst = 1
                                                            ELSE w_last_cntr[1] = 0]>>
       ELSE burst_left' = burst_left /\ in_xfer' = <<>> /\ out_xfer' = <<>>

MasterNext ==
    \E write, aw_rd, w_rd \in BOOLEAN, burst \in 1 .. MAX_LEN + 1 :
        MasterCycle(write, burst, aw_rd, w_rd)

MasterInit == w_last_cntr = <<>> /\ burst_left = 0

---------------------------------------------------------------------------
(* ReorderBuffer.  A word is its number modulo 2 * ID_COUNT. *)

IdOf(word) == word % ID_COUNT
Numbered(n) == (due + n) % (2 * ID_COUNT)

\* Every word in the register is written, also one that waits for its item.
Stored == IF dataIn_reg = <<>> THEN storage
          ELSE [storage EXCEPT ![IdOf(dataIn_reg[1])] = dataIn_reg[1]]
Occupies == dataIn_reg # <<>> /\ IdOf(dataIn_reg[1]) \notin item_occ

\* A clock: a word is offered or not, the reader of the RAM takes an address or not, its
\* oldest word leaves or not.
ReorderCycle(in, addr_rd, leaves) ==
    LET reads   == addr_rd /\ out_cntr \in item_occ
        in_pass == in # <<>> /\ (dataIn_reg = <<>> \/ Occupies)
        left    == IF leaves THEN Tail(read_words) ELSE read_words
        news    == IF in_pass THEN sent \cup {in[1]} ELSE sent
    IN
    /\ leaves => read_words # <<>>
    /\ reads => Len(left) < 2
    /\ dataIn_reg' = IF in_pass THEN in ELSE IF Occupies THEN <<>> ELSE dataIn_reg
    /\ storage' = Stored
    /\ item_occ' = (item_occ \cup (IF Occupies THEN {IdOf(dataIn_reg[1])} ELSE {}))
                   \ (IF reads THEN {out_cntr} ELSE {})
    /\ out_cntr' = IF reads THEN (out_cntr + 1) % ID_COUNT ELSE out_cntr
    /\ read_words' = IF reads THEN Append(left, storage[out_cntr]) ELSE left
    /\ due' = IF leaves THEN Numbered(1) ELSE due
    /\ UNCHANGED <<in_xfer, out_xfer>>
    /\ sent' = IF leaves THEN news \ {due} ELSE news

\* The producer sends the words of a window in any order.
ReorderNext(addr_rd, leaves) ==
    \E in \in {<<>>} \cup {<<Numbered(n)>> : n \in 0 .. (IF EARLY_ID THEN 2 ELSE 1) * ID_COUNT - 1} :
        /\ in # <<>> => in[1] \notin sent
        /\ ReorderCycle(in, addr_rd, leaves)

ReorderEager == \E in \in {<<>>} \cup {<<Numbered(n)>> : n \in 0 .. ID_COUNT - 1} :
    (in # <<>> => in[1] \notin sent) /\ ReorderCycle(in, TRUE, read_words # <<>>)

ReorderInit ==
    /\ dataIn_reg = <<>> /\ item_occ = {} /\ out_cntr = 0
    /\ storage = [i \in 0 .. ID_COUNT - 1 |-> 0]
    /\ read_words = <<>> /\ sent = {} /\ due = 0

---------------------------------------------------------------------------

AdapterInit == bridge \in BRIDGES /\ LiteInit /\ AvalonInit /\ MasterInit /\ ReorderInit

\* One clock of the bridge; the master takes an answer only with rd.
AdapterNext(rd) ==
    /\ UNCHANGED bridge
    /\ \/ bridge = "to_lite" /\ LiteNext(rd) /\ UNCHANGED <<avalonVars, masterVars, reorderVars>>
       \/ /\ bridge = "to_avalon" /\ \E b_rd, wait \in BOOLEAN : AvalonNext(rd, b_rd, wait)
          /\ UNCHANGED <<liteVars, masterVars, reorderVars>>
       \/ bridge = "from_avalon" /\ MasterNext /\ UNCHANGED <<liteVars, avalonVars, reorderVars>>
       \/ /\ bridge = "reorder" /\ \E addr_rd, leaves \in BOOLEAN : ReorderNext(addr_rd, leaves /\ rd)
          /\ UNCHANGED <<liteVars, avalonVars, masterVars>>

AdapterContents ==
    CASE bridge = "to_lite" -> LiteContents
      [] bridge = "to_avalon" -> AvalonContents
      [] OTHER -> <<>>

AdapterCapacity ==
    CASE bridge = "to_lite" -> (MAX_LEN + 1) * (REQ_DEPTH + 1)
      [] bridge = "to_avalon" -> R_DATA_FIFO_DEPTH
      [] OTHER -> 0

---------------------------------------------------------------------------
(* Properties *)

\* A request becomes as many beats of AxiLite as it has words.
BeatsMatchBursts ==
    Len(LiteContents) = lite_beats + (IF len_rem = <<>> THEN 0 ELSE len_rem[1] + 1)

\* The capacity is what is left in the FIFO when all words that were asked for have
\* arrived: nobody looks at its ready.  What is written is the write that was accepted,
\* once and with all of its words.
AvalonBurstsMatch ==
    /\ r_data_fifo_capacity + Len(AvalonContents) = R_DATA_FIFO_DEPTH
    /\ w_left = IF IsWrite THEN addr_tmp[1].len + 1 ELSE 0

\* What leaves the reorder buffer is the next word in the order of the numbers.
WordsAreReordered ==
    \A i \in 1 .. Len(read_words) : read_words[i] = Numbered(i - 1)
=============================================================================
