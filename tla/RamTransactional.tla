-------------------------- MODULE RamTransactional --------------------------
(***************************************************************************)
(* hwtLib.mem.ramTransactional.RamTransactional: a memory of items that    *)
(* are several words long, with a read port, a write port and, for a write *)
(* with flush, a port on which the old item leaves.  Its ports to the RAM  *)
(* are those of handshaked/ramAsAddrDataRdVld.py, the RAM (mem/ram.py)     *)
(* returns the old word when it is written in the same clock.              *)
(***************************************************************************)
EXTENDS Naturals, Sequences, StreamNode

CONSTANTS
    ITEM_WORDS,  \* > 1
    Blocks,      \* the item addresses
    Versions,    \* what is written to all words of an item
    Version0,
    Disturbances \* what users do who use one item together, of "late_data" (of a write),
                 \* "slow_reader" and "flush_in_read" (requested while an item is being read)

ASSUME TransAssumption == ITEM_WORDS \in Nat /\ ITEM_WORDS > 1 /\ Blocks # {}

VARIABLES
    r_index, w_index,  \* the word that is next in a read or flush and in a write
    da_r,              \* RamAsAddrDataRdVld of the read port: pending, readData, overflow
    r_meta,            \* the two registers that accompany the words
    ram_memory,
    newest,            \* the version of each item that a read is to see
    reading,           \* what the running read is to see, and whether it is for a flush
    users,             \* "together", "apart": how the users of the ports behave
    writing            \* the version of the running write

transVars == <<r_index, w_index, da_r, r_meta, ram_memory, newest, reading, writing, users>>

Words == 0 .. ITEM_WORDS - 1
NoBlock == CHOOSE b \in Blocks : TRUE
Idle0 == [item_index |-> NoBlock, word_index |-> 0, vld |-> FALSE, flushing |-> FALSE]

TransInit ==
    /\ r_index = Idle0
    /\ w_index = Idle0
    /\ da_r = [pending |-> <<>>, readData |-> <<>>, overflow |-> <<>>]
    /\ r_meta = <<<<>>, <<>>>>
    /\ ram_memory = [b \in Blocks |-> [w \in Words |-> [version |-> Version0, word |-> w]]]
    /\ newest = [b \in Blocks |-> Version0]
    /\ reading = [version |-> Version0, flush |-> FALSE]
    /\ writing = Version0
    /\ users \in {"together", "apart"}

---------------------------------------------------------------------------
(* RamAsAddrDataRdVld.read_logic; a register is <<>> or <<word>>, rd is r.data.rd. *)

REn(rd) == (da_r.overflow = <<>> \/ rd) /\ (da_r.readData = <<>> \/ rd)

NextDaR(read, rd) ==
    LET fits == da_r.readData = <<>> \/ rd IN
    [pending |-> read,
     readData |-> IF da_r.pending # <<>> /\ fits THEN da_r.pending
                  ELSE IF da_r.pending = <<>> /\ rd THEN da_r.overflow
                  ELSE da_r.readData,
     overflow |-> IF da_r.pending # <<>> /\ ~fits THEN da_r.pending
                  ELSE IF da_r.pending # <<>> \/ rd THEN <<>>
                  ELSE da_r.overflow]

\* r_meta: two HandshakedRegs in a row.
MetaRd(rd) == r_meta[1] = <<>> \/ r_meta[2] = <<>> \/ rd

NextMeta(in, rd) ==
    LET moves == r_meta[2] = <<>> \/ rd IN
    <<IF moves \/ r_meta[1] = <<>> THEN in ELSE r_meta[1],
      IF moves THEN r_meta[1] ELSE r_meta[2]>>

---------------------------------------------------------------------------
(* Inputs of one clock: r is <<>> or <<block>>, w <<>> or <<[addr, flush]>>, data <<>> or   *)
(* <<version>>, r_rd and f_rd the readies of the reader and of the receiver of flushes.     *)

FlushReq(w) == w # <<>> /\ w[1].flush /\ ~r_index.vld /\ ~w_index.vld

\* construct_read_part: the last word goes to the reader or to flush_data.
ResultNode(r_rd, f_rd) ==
    LET vld == r_meta[2] # <<>>
        meta == r_meta[2][1].info
        flushing == vld /\ meta.flushing
    IN [da_r |-> PlainPort(da_r.readData # <<>>),
        meta |-> PlainPort(vld),
        data |-> Port(r_rd, ~flushing, flushing),
        flush_data |-> Port(f_rd, flushing, vld /\ ~flushing),
        flush_addr |-> Port(f_rd, flushing /\ meta.is_first,
                            vld /\ (~flushing \/ ~meta.is_first))]

ReadNode(r, w, rd) ==
    LET skip == FlushReq(w) \/ r_index.vld
        r_en == skip \/ r # <<>>
    IN [addr |-> Port(r # <<>>, ~skip, skip),
        da_r |-> Port(REn(rd), r_en, FALSE),
        meta |-> Port(MetaRd(rd), r_en, FALSE)]

\* construct_write_part: a write with flush begins together with the read for the flush.
WriteNode(w, data, rd) ==
    [addr |-> Port(w # <<>>,
                   ~w_index.vld /\ (w = <<>> \/ ~w[1].flush
                                    \/ (~r_index.vld /\ REn(rd) /\ MetaRd(rd))),
                   w_index.vld),
     data |-> Port(data # <<>>, w_index.vld \/ w # <<>>, FALSE),
     da_w |-> PlainPort(TRUE)]

\* The item and word that a new or a running transfer is at.
At(index, block) == IF index.vld THEN index ELSE [Idle0 EXCEPT !.item_index = block, !.vld = TRUE]

NextIndex(at) ==
    IF at.word_index = ITEM_WORDS - 1 THEN Idle0 ELSE [at EXCEPT !.word_index = @ + 1]

\* construct_r_meta: what goes with the word that is read.
Meta_FromRead(w, at) ==
    [flushing |-> FlushReq(w) /\ ~r_index.vld,
     is_first |-> ~r_index.vld,
     is_last |-> at.vld /\ at.word_index = ITEM_WORDS - 1]
Meta(w, at) ==
    IF w_index.vld /\ w_index.flushing
    THEN [flushing |-> TRUE, is_first |-> FALSE, is_last |-> w_index.word_index = ITEM_WORDS - 1]
    ELSE [flushing |-> FlushReq(w), is_first |-> ~r_index.vld,
          is_last |-> r_index.vld /\ at.word_index = ITEM_WORDS - 1]

TransCycle(r, w, data, r_rd, f_rd) ==
    LET result == ResultNode(r_rd, f_rd)
        rd == Answer(result, "da_r")
        reads == ReadNode(r, w, rd)
        writes == WriteNode(w, data, rd)
        rat == At(r_index, IF FlushReq(w) THEN w[1].addr ELSE IF r # <<>> THEN r[1] ELSE NoBlock)
        wat == At(w_index, IF w # <<>> THEN w[1].addr ELSE NoBlock)
        word == ram_memory[rat.item_index][rat.word_index]
        meta == [info |-> Meta(w, rat), at |-> rat,
                 seen |-> IF r_index.vld THEN reading
                          ELSE [version |-> newest[rat.item_index], flush |-> FlushReq(w)]]
    IN /\ da_r' = NextDaR(IF "da_r" \in Transfers(reads, TRUE) THEN <<word>> ELSE <<>>, rd)
       /\ r_meta' = NextMeta(IF "meta" \in Transfers(reads, TRUE) THEN <<meta>> ELSE <<>>,
                             Answer(result, "meta"))
       /\ r_index' = IF Ack(reads) THEN NextIndex(rat) ELSE r_index
       /\ reading' = IF Ack(reads) THEN meta.seen ELSE reading
       /\ w_index' = IF ~Ack(writes) THEN w_index
                     ELSE [NextIndex(wat) EXCEPT
                             !.flushing = @ \/ (~w_index.vld /\ w[1].flush)]
       /\ ram_memory' = IF "da_w" \in Transfers(writes, TRUE)
                        THEN [ram_memory EXCEPT ![wat.item_index][wat.word_index] =
                                [version |-> data[1], word |-> wat.word_index]]
                        ELSE ram_memory
       /\ newest' = IF "addr" \in Transfers(writes, TRUE)
                    THEN [newest EXCEPT ![w[1].addr] = data[1]] ELSE newest
       /\ writing' = IF "addr" \in Transfers(writes, TRUE) THEN data[1] ELSE writing

---------------------------------------------------------------------------
(* The users: a transfer that was started goes on, all words of an item get one version. *)

May(what) == IF users = "apart" \/ what \in Disturbances THEN BOOLEAN ELSE {FALSE}

\* Users who are "apart" do not read and write one item at once.
Apart(r, w) ==
    LET read == {b \in Blocks : r = <<b>> \/ (r_index.vld /\ r_index.item_index = b)}
        written == {b \in Blocks : (w # <<>> /\ w[1].addr = b)
                                   \/ (w_index.vld /\ w_index.item_index = b)}
    IN read \cap written = {} /\ (w # <<>> => ~w[1].flush)

TransStep(late, slow) ==
    \E r \in {<<>>} \cup {<<b>> : b \in Blocks},
       w \in {<<>>} \cup {<<[addr |-> b, flush |-> f]>> : b \in Blocks, f \in BOOLEAN},
       version \in Versions :
        /\ users = "apart" => Apart(r, w)
        /\ w # <<>> /\ w[1].flush /\ r_index.vld => "flush_in_read" \in Disturbances
        /\ w_index.vld => w = <<>> /\ version = writing
        /\ TransCycle(r, w, IF late \/ (w = <<>> /\ ~w_index.vld) THEN <<>> ELSE <<version>>,
                      ~slow, ~slow)
        /\ UNCHANGED users

TransNext == \E late \in May("late_data"), slow \in May("slow_reader") : TransStep(late, slow)

TransSpec == TransInit /\ [][TransNext]_transVars

---------------------------------------------------------------------------
(* Properties *)

\* `The swap, read and write is atomic in relation with other transactions': every word that
\* leaves is of the version that its item had when the read or flush began, a flush that of
\* before its own write, and it is the word of the item that goes there next.
ItemsAreAtomic ==
    da_r.readData # <<>> /\ r_meta[2] # <<>> =>
        LET m == r_meta[2][1] IN
        /\ da_r.readData[1] = [version |-> m.seen.version, word |-> m.at.word_index]
        /\ m.info.is_first <=> m.at.word_index = 0
        /\ m.info.is_last <=> m.at.word_index = ITEM_WORDS - 1
        /\ m.info.flushing <=> m.seen.flush
===========================================================================
