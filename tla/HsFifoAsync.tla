---------------------------- MODULE HsFifoAsync ----------------------------
(***************************************************************************)
(* hwtLib.handshaked.fifoAsync.HsFifoAsync: FifoAsync between two          *)
(* ready/valid ports.                                                      *)
(*                                                                         *)
(* hwtLib.mem.fifoAsync.FifoAsync: a ring of 2^AW words between two        *)
(* unrelated clocks.  Each side keeps a binary pointer of AW + 1 bits and  *)
(* a register with its Gray code; the code travels to the other clock      *)
(* through two registers (clocking/cdc.py, SignalCdcBuilder.add_out_reg).  *)
(*                                                                         *)
(* What the first of these registers samples is the wire, not the Gray     *)
(* register: after an edge of the source clock each changed bit is on its  *)
(* way.  The constraints the builder emits (set_max_delay) bound the way   *)
(* to less than a source period, so at the next source edge every bit has  *)
(* arrived; until then a bit has its old or its new level, it changes at   *)
(* most once, and a bit that changes while it is sampled is seen as either.*)
(***************************************************************************)
EXTENDS Integers, Sequences

CONSTANTS AW,     \* address width
          Data,   \* the words
          Undef   \* an unwritten word, or one read while it is written

\* Two address bits are inverted to recognise a full ring.
ASSUME AddressAssumption == AW \in Nat /\ AW >= 2
ASSUME UndefAssumption == Undef \notin Data

\* The powers of two, by recursion: a proof can unfold them.
pow2[i \in 0 .. AW + 1] == IF i = 0 THEN 1 ELSE 2 * pow2[i - 1]

DEPTH == pow2[AW]

\* Pointers have one bit more than addresses.
PTR_MOD == pow2[AW + 1]

Pointers == 0 .. PTR_MOD - 1

Bits == 0 .. AW

Codes == [Bits -> BOOLEAN]

VARIABLES
    \* dataIn_clk
    w_bin, w_gray, w_full,
    r_out_reg0, r_out_reg1,   \* synchroniser of r_gray
    \* dataOut_clk
    r_bin, r_gray, r_empty,
    w_out_reg0, w_out_reg1,   \* synchroniser of w_gray
    r_reg,                    \* registered output word
    \* between the clocks
    memory,
    w_wire, r_wire            \* levels at the inputs of the synchronisers

writeVars == <<w_bin, w_gray, w_full, r_out_reg0, r_out_reg1>>
readVars  == <<r_bin, r_gray, r_empty, w_out_reg0, w_out_reg1, r_reg>>
asyncVars == <<writeVars, readVars, memory, w_wire, r_wire>>

---------------------------------------------------------------------------
(* Gray code, logic/cntrGray.py: (n >> 1) ^ n *)

Bit(n, i) == (n \div pow2[i]) % 2 = 1

BinToGray_Plain(n) == [i \in Bits |-> Bit(n, i)]
BinToGray(n) == [i \in Bits |-> Bit(n \div 2, i) # Bit(n, i)]

\* The code half a turn ahead: the two upper bits inverted.
FullCode_TopBit(code) == [i \in Bits |-> IF i = AW THEN ~code[i] ELSE code[i]]
FullCode(code) == [i \in Bits |-> IF i >= AW - 1 THEN ~code[i] ELSE code[i]]

\* Codes seen while the bits go from one code to another.
Between(old, new) == {c \in Codes : \A i \in Bits : c[i] \in {old[i], new[i]}}

Advance(ptr) == (ptr + 1) % PTR_MOD

Address(ptr) == ptr % DEPTH

---------------------------------------------------------------------------
Zero == BinToGray(0)

AsyncInit ==
    /\ w_bin = 0
    /\ w_gray = Zero
    /\ w_full = FALSE
    /\ r_out_reg0 = Zero
    /\ r_out_reg1 = Zero
    /\ r_bin = 0
    /\ r_gray = Zero
    /\ r_empty = TRUE
    /\ w_out_reg0 = Zero
    /\ w_out_reg1 = Zero
    /\ r_reg = Undef
    /\ memory = [a \in 0 .. DEPTH - 1 |-> Undef]
    /\ w_wire = Zero
    /\ r_wire = Zero

WriteEn(en) == en /\ ~w_full
ReadEn(en)  == en /\ ~r_empty

NextWBin(en) == IF WriteEn(en) THEN Advance(w_bin) ELSE w_bin
NextRBin(en) == IF ReadEn(en) THEN Advance(r_bin) ELSE r_bin

NextFull(gray) == gray = FullCode(r_out_reg1)

\* r_empty computed from the code before this edge.
NextEmpty(gray) == gray = w_out_reg1

\* Registers of dataIn_clk; `sample' is what the first synchroniser register sees.
WriteRegisters(en, sample) ==
    /\ w_bin' = NextWBin(en)
    /\ w_gray' = BinToGray(NextWBin(en))
    /\ w_full' = NextFull(BinToGray(NextWBin(en)))
    /\ r_out_reg0' = sample
    /\ r_out_reg1' = r_out_reg0

\* Registers of dataOut_clk; `word' is what the memory answers.
ReadRegisters(en, sample, word) ==
    /\ r_bin' = NextRBin(en)
    /\ r_gray' = BinToGray(NextRBin(en))
    /\ r_empty' = NextEmpty(BinToGray(NextRBin(en)))
    /\ w_out_reg0' = sample
    /\ w_out_reg1' = w_out_reg0
    /\ r_reg' = IF ReadEn(en) THEN word ELSE r_reg

WriteMemory(en, word) ==
    memory' = IF WriteEn(en) THEN [memory EXCEPT ![Address(w_bin)] = word] ELSE memory

\* A word read on the very edge that writes it is neither the old nor the new one.
MemoryAnswer(write_en) ==
    IF WriteEn(write_en) /\ Address(w_bin) = Address(r_bin)
    THEN Undef
    ELSE memory[Address(r_bin)]

\* An edge of dataIn_clk alone.  The bits of w_gray have arrived by now, the ones
\* of this edge have not; the bits of r_gray may arrive, and may be sampled so.
WriteEdge(en, word) ==
    /\ r_wire' \in Between(r_wire, r_gray)
    /\ \E sample \in Between(r_wire, r_wire') : WriteRegisters(en, sample)
    /\ WriteMemory(en, word)
    /\ w_wire' = w_gray
    /\ UNCHANGED readVars

\* An edge of dataOut_clk alone.
ReadEdge(en) ==
    /\ w_wire' \in Between(w_wire, w_gray)
    /\ \E sample \in Between(w_wire, w_wire') :
          ReadRegisters(en, sample, memory[Address(r_bin)])
    /\ r_wire' = r_gray
    /\ UNCHANGED <<writeVars, memory>>

\* Both edges so close to each other that each side may sample the other changing.
BothEdges(write_en, word, read_en) ==
    /\ \E sample \in Between(r_gray, BinToGray(NextRBin(read_en))) :
          WriteRegisters(write_en, sample)
    /\ \E sample \in Between(w_gray, BinToGray(NextWBin(write_en))) :
          ReadRegisters(read_en, sample, MemoryAnswer(write_en))
    /\ r_wire' \in Between(r_out_reg0', r_gray')
    /\ w_wire' \in Between(w_out_reg0', w_gray')
    /\ WriteMemory(write_en, word)

\* Both resets, held until the wires have settled.  The memory and r_reg have none.
AsyncReset(write_en, word, read_en) ==
    /\ w_bin' = 0
    /\ w_gray' = Zero
    /\ w_full' = FALSE
    /\ r_out_reg0' = Zero
    /\ r_out_reg1' = Zero
    /\ r_bin' = 0
    /\ r_gray' = Zero
    /\ r_empty' = TRUE
    /\ w_out_reg0' = Zero
    /\ w_out_reg1' = Zero
    /\ r_reg' = IF ReadEn(read_en) THEN MemoryAnswer(write_en) ELSE r_reg
    /\ w_wire' = Zero
    /\ r_wire' = Zero
    /\ WriteMemory(write_en, word)

---------------------------------------------------------------------------
(* What the registers stand for *)

\* How far pointer b is ahead of pointer a.
Ahead(a, b) == (b - a) % PTR_MOD

Fill == Ahead(r_bin, w_bin)

\* The unread words, oldest first.
Stored == [i \in 1 .. Fill |-> memory[Address(r_bin + i - 1)]]

\* The pointer a code stands for.
GrayToBin(code) == CHOOSE n \in Pointers : BinToGray(n) = code

---------------------------------------------------------------------------
(* HsFifoAsync: the connection of the ports is inherited from HandshakedFifo              *)
(* (_connect_fifo_in, _connect_fifo_out); the register out_vld belongs to dataOut_clk.    *)

VARIABLES
    out_vld,    \* dataOut.vld
    in_xfer,    \* <<word>> accepted at dataIn in the last step, or <<>>
    out_xfer,   \* <<word>> handed over at dataOut in the last step, or <<>>
    in_clk,     \* parity of dataIn_clk: an edge that changes nothing is a step too
    out_clk,    \* parity of dataOut_clk
    rst         \* both resets were active in the last step

vars == <<asyncVars, out_vld, in_xfer, out_xfer, in_clk, out_clk, rst>>

CAPACITY == DEPTH + 1

NoTransfer == <<>>
---------------------------------------------------------------------------
OutEn(rd) == (rd \/ ~out_vld) /\ ~r_empty

NextOutVld_RdOnly(rd) == IF rd THEN ~r_empty ELSE out_vld
NextOutVld(rd) == IF rd \/ ~out_vld THEN ~r_empty ELSE out_vld

Accepted(vld, word) == IF vld /\ ~w_full THEN <<word>> ELSE NoTransfer
HandedOver(rd) == IF out_vld /\ rd THEN <<r_reg>> ELSE NoTransfer

Init ==
    /\ AsyncInit
    /\ out_vld = FALSE
    /\ in_xfer = NoTransfer
    /\ out_xfer = NoTransfer
    /\ in_clk = FALSE
    /\ out_clk = FALSE
    /\ rst = FALSE

InEdge(vld, word) ==
    /\ WriteEdge(vld /\ ~w_full, word)
    /\ in_xfer' = Accepted(vld, word)
    /\ out_xfer' = NoTransfer
    /\ in_clk' = ~in_clk
    /\ rst' = FALSE
    /\ UNCHANGED <<out_vld, out_clk>>

OutEdge(rd) ==
    /\ ReadEdge(OutEn(rd))
    /\ out_vld' = NextOutVld(rd)
    /\ in_xfer' = NoTransfer
    /\ out_xfer' = HandedOver(rd)
    /\ out_clk' = ~out_clk
    /\ rst' = FALSE
    /\ UNCHANGED in_clk

InAndOutEdge(vld, word, rd) ==
    /\ BothEdges(vld /\ ~w_full, word, OutEn(rd))
    /\ out_vld' = NextOutVld(rd)
    /\ in_xfer' = Accepted(vld, word)
    /\ out_xfer' = HandedOver(rd)
    /\ in_clk' = ~in_clk
    /\ out_clk' = ~out_clk
    /\ rst' = FALSE

\* The resets of both sides, active together: no port transfers anything.
Reset(vld, word, rd) ==
    /\ AsyncReset(vld /\ ~w_full, word, OutEn(rd))
    /\ out_vld' = FALSE
    /\ in_xfer' = NoTransfer
    /\ out_xfer' = NoTransfer
    /\ in_clk' = ~in_clk
    /\ out_clk' = ~out_clk
    /\ rst' = TRUE

\* The environment: any word of Words may be offered, the consumer may be ready or not.
NextWith(Words) ==
    \/ \E vld \in BOOLEAN, word \in Words : InEdge(vld, word)
    \/ \E rd \in BOOLEAN : OutEdge(rd)
    \/ \E vld, rd \in BOOLEAN, word \in Words :
          InAndOutEdge(vld, word, rd) \/ Reset(vld, word, rd)

Next == NextWith(Data)

Spec == Init /\ [][Next]_vars

---------------------------------------------------------------------------
(* A producer that numbers its words: the n-th word after a reset is n % PTR_MOD.  The     *)
(* circuit never looks at a word, and this is the most telling input (every neighbouring   *)
(* pair of words differs, and so do the old and the new word of a slot); it keeps the      *)
(* memory a function of the pointers.                                                      *)

NumberedNext == NextWith({w_bin})

\* Both clocks have edges for ever.
ClocksRun ==
    /\ []<>in_clk  /\ []<>~in_clk
    /\ []<>out_clk /\ []<>~out_clk

\* A consumer that is shown words again and again takes words again and again.
ConsumerTakes == []<>out_vld => []<>(out_xfer # NoTransfer)

NumberedSpec == Init /\ [][NumberedNext]_vars /\ ClocksRun /\ ConsumerTakes

---------------------------------------------------------------------------
(* Properties *)

\* Words inside, oldest first.
Contents == (IF out_vld THEN <<r_reg>> ELSE <<>>) \o Stored

\* Every code in a synchroniser, torn samples included, is one the other side has
\* held, and none is older than the one sampled before it: seen from the reader,
\* w_out_reg1, w_out_reg0, the wire and w_bin follow each other, and likewise the
\* reader's pointer seen from the writer.
SeenPointersAreInOrder ==
    /\ Ahead(r_bin, GrayToBin(w_out_reg1)) <= Ahead(r_bin, GrayToBin(w_out_reg0))
    /\ Ahead(r_bin, GrayToBin(w_out_reg0)) <= Ahead(r_bin, GrayToBin(w_wire))
    /\ Ahead(r_bin, GrayToBin(w_wire)) <= Fill
    /\ Fill <= Ahead(GrayToBin(r_wire), w_bin)
    /\ Ahead(GrayToBin(r_wire), w_bin) <= Ahead(GrayToBin(r_out_reg0), w_bin)
    /\ Ahead(GrayToBin(r_out_reg0), w_bin) <= Ahead(GrayToBin(r_out_reg1), w_bin)
    /\ Ahead(GrayToBin(r_out_reg1), w_bin) <= DEPTH

\* The two clock domains together implement the bounded queue: no word lost,
\* duplicated, reordered, overwritten before it is read or read before it is
\* written, whatever the two clocks do relative to each other.
queue == INSTANCE BoundedQueue WITH q <- Contents, InitialWords <- <<>>

QueueSpec == queue!Spec

\* A stored word crosses both synchronisers and is handed over, also when the
\* producer falls silent after it; and a producer that is held off is let in again: the
\* reader's progress crosses back.
StoredIsDelivered ==
    /\ Contents # <<>> ~> (out_xfer # NoTransfer \/ rst)
    /\ w_full ~> ~w_full
===========================================================================
