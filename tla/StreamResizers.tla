-------------------------- MODULE StreamResizers --------------------------
(***************************************************************************)
(* Changing the width of a stream by a whole factor ITEMS: HsResizer       *)
(* (handshaked/resizer.py), in both directions, and Axi4S_resizer          *)
(* (amba/axis_comp/resizer.py), whose words belong to frames.  A word is   *)
(* the sequence of its parts; a part of an AXI-Stream word that its strobe *)
(* masks out is NoPart.  An item that enters or leaves is a part together  *)
(* with the mark that it ends its frame.                                   *)
(***************************************************************************)
EXTENDS HandshakedReg

CONSTANTS ITEMS, NoPart

VARIABLES
    width_mode, \* "hs_up", "hs_down", "axis_up", "axis_down"
    item_cntr,  \* inputRegs_cntr, itemCntr
    part_regs,  \* up: the parts that wait for the last one
    in_reg      \* down: inReg, the word that is cut into parts

resVars == <<width_mode, item_cntr, part_regs, in_reg>>

IsUp == width_mode \in {"hs_up", "axis_up"}
Framed == width_mode \in {"axis_up", "axis_down"}

\* The words that a producer may send: an AXI-Stream word that does not end a frame is full.
Parts == {[parts |-> <<d>>, last |-> l] : d \in Data, l \in IF Framed THEN BOOLEAN ELSE {FALSE}}
WideWords ==
    LET full == {[parts |-> p, last |-> l] : p \in [1 .. ITEMS -> Data],
                                             l \in IF Framed THEN BOOLEAN ELSE {FALSE}}
        short == {[parts |-> [i \in 1 .. ITEMS |-> IF i <= n THEN p[i] ELSE NoPart],
                   last |-> TRUE] : p \in [1 .. ITEMS -> Data], n \in 1 .. ITEMS - 1}
    IN IF Framed THEN full \cup short ELSE full

\* The items of a word.
Items(word) ==
    LET present == SelectSeq(word.parts, LAMBDA p : p # NoPart)
    IN [i \in 1 .. Len(present) |-> [d |-> present[i], last |-> word.last /\ i = Len(present)]]

NoParts == [i \in 1 .. ITEMS |-> NoPart]

ResInit ==
    /\ item_cntr = 0
    /\ part_regs = NoParts
    /\ in_reg = PowerUp(<<>>)

---------------------------------------------------------------------------
(* From narrow to wide. *)

\* The word is complete with the part at dataIn.
IsLastItem(part) == item_cntr = ITEMS - 1 \/ part.last

\* What is at dataOut.  HsResizer has no register for the last part.
WideWord(part) ==
    [parts |-> [i \in 1 .. ITEMS |-> IF i = item_cntr + 1 THEN part.parts[1] ELSE part_regs[i]],
     last |-> part.last]

\* HsResizer._upscaleDataPassLogic compares the counter with ITEMS; Axi4S_resizer connects
\* the ready of dataOut.
UpInRd(rd) == IF width_mode = "hs_up" THEN item_cntr # ITEMS \/ rd ELSE rd

\* inputRegs_cntr, itemCntr
NextUpCntr(part, rd) ==
    IF width_mode = "hs_up" /\ item_cntr # ITEMS - 1 THEN item_cntr + 1
    ELSE IF ~rd THEN item_cntr
    ELSE IF IsLastItem(part) THEN 0 ELSE item_cntr + 1

\* The registers of Axi4S_resizer are cleared with the word; those of HsResizer are not.
NextPartRegs(part, rd) ==
    IF width_mode = "axis_up" /\ rd /\ IsLastItem(part) THEN NoParts
    ELSE IF width_mode = "hs_up" /\ item_cntr = ITEMS - 1 THEN part_regs
    ELSE [part_regs EXCEPT ![item_cntr + 1] = part.parts[1]]

\* One clock edge: `in' is <<>> or <<part>>.
Upscale(in, rd) ==
    /\ IF in = <<>> THEN UNCHANGED <<item_cntr, part_regs>>
       ELSE /\ item_cntr' = NextUpCntr(in[1], rd)
            /\ part_regs' = NextPartRegs(in[1], rd)
    /\ in_xfer' = IF in # <<>> /\ UpInRd(rd) THEN Items(in[1]) ELSE <<>>
    /\ out_xfer' = IF in # <<>> /\ IsLastItem(in[1]) /\ rd THEN Items(WideWord(in[1])) ELSE <<>>
    /\ UNCHANGED in_reg

---------------------------------------------------------------------------
(* From wide to narrow. *)

\* nextAreNotValidLogic: the strobe masks out all that is left of an AXI-Stream word.
IsLastPart(word) ==
    \/ item_cntr = ITEMS - 1
    \/ Framed /\ \A i \in item_cntr + 2 .. ITEMS : word.parts[i] = NoPart

NextDownCntr(word) == IF IsLastPart(word) THEN 0 ELSE item_cntr + 1

\* One clock edge: `in' is <<>> or <<word>>.
Downscale(in, rd) ==
    LET vld == OutVld(in_reg)
        word == OutWord(in_reg)
        reg_rd == vld /\ rd /\ IsLastPart(word)
        part == [parts |-> <<word.parts[item_cntr + 1]>>, last |-> word.last /\ IsLastPart(word)]
    IN /\ item_cntr' = IF vld /\ rd THEN NextDownCntr(word) ELSE item_cntr
       /\ in_reg' = NextLatency(in_reg, in, reg_rd)
       /\ in_xfer' = IF in # <<>> /\ InRd("latency", in_reg, reg_rd) THEN Items(in[1]) ELSE <<>>
       /\ out_xfer' = IF vld /\ rd THEN Items(part) ELSE <<>>
       /\ UNCHANGED part_regs

ResCycle(in, rd) ==
    /\ IF IsUp THEN Upscale(in, rd) ELSE Downscale(in, rd)
    /\ UNCHANGED width_mode

ResInputs == IF IsUp THEN Parts ELSE WideWords

---------------------------------------------------------------------------
(* The items inside, oldest first. *)

ResContents ==
    IF IsUp
    THEN [i \in 1 .. item_cntr |-> [d |-> part_regs[i], last |-> FALSE]]
    ELSE IF ~OutVld(in_reg) THEN <<>>
    ELSE LET items == Items(OutWord(in_reg)) IN SubSeq(items, item_cntr + 1, Len(items))

ResCapacity == IF IsUp THEN ITEMS - 1 ELSE ITEMS
===========================================================================
