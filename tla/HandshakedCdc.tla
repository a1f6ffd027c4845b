--------------------------- MODULE HandshakedCdc ---------------------------
(***************************************************************************)
(* handshaked/cdc.py: one word at a time from one clock to another.  A     *)
(* toggle announces the word and comes through the synchroniser of a       *)
(* CdcPulseGen (clocking/cdc.py); the other side loads the word from the   *)
(* bus, which has no synchroniser, and a second toggle acknowledges it.    *)
(* A step is an edge of one clock: that of two edges at once a toggle is   *)
(* sampled before or after its change is the same as either order.         *)
(***************************************************************************)
EXTENDS HandshakedReg

VARIABLES
    din_rd,     \* rd of tx_fsm: no word is under way
    din_en,     \* the toggle that announces a word
    din_data,
    din_path,   \* out_en_pulse_gen: its register of dataIn_clk, then three of dataOut_clk
    dout_rd,    \* rd of rx_fsm: nothing was announced
    dout_ack,   \* the toggle that acknowledges a word
    dout_data,
    dout_vld,   \* dout_vld_delayed
    dout_path   \* in_ack_pulse_gen: its register of dataOut_clk, then three of dataIn_clk

cdcVars == <<din_rd, din_en, din_data, din_path, dout_rd, dout_ack, dout_data, dout_vld,
             dout_path>>

CdcInit ==
    /\ din_rd = TRUE /\ dout_rd = TRUE
    /\ din_en = FALSE /\ dout_ack = FALSE
    /\ din_data = Undef /\ dout_data = Undef
    /\ dout_vld = FALSE
    /\ din_path = [i \in 0 .. 3 |-> FALSE]
    /\ dout_path = [i \in 0 .. 3 |-> FALSE]

---------------------------------------------------------------------------
\* CdcPulseGen: a change of the toggle is one pulse, when it is between the last registers.
Pulse(path) == path[2] # path[3]

\* The registers of the sampling clock.
Sampled(path) == [path EXCEPT ![1] = path[0], ![2] = path[1], ![3] = path[2]]

\* HandshakeFSM
NextRd(rd, vld, ack) == IF rd THEN ~vld ELSE ack

\* An edge of dataIn_clk: the producer offers `in', <<>> or one word.
NextDinData(in) == IF in # <<>> /\ din_rd THEN in[1] ELSE din_data

CdcInEdge(in) ==
    LET next == in # <<>> /\ din_rd IN
    /\ din_rd' = NextRd(din_rd, in # <<>>, Pulse(dout_path))
    /\ din_en' = (din_en # next)
    /\ din_data' = NextDinData(in)
    /\ din_path' = [din_path EXCEPT ![0] = din_en]
    /\ dout_path' = Sampled(dout_path)
    /\ in_xfer' = IF next THEN in ELSE <<>>
    /\ out_xfer' = <<>>
    /\ UNCHANGED <<dout_rd, dout_ack, dout_data, dout_vld>>

\* An edge of dataOut_clk: the consumer drives rd.
CdcOutEdge(rd) ==
    LET load == ~dout_rd /\ rd IN
    /\ dout_rd' = NextRd(dout_rd, Pulse(din_path), rd)
    /\ dout_ack' = (dout_ack # load)
    /\ dout_data' = IF load THEN din_data ELSE dout_data
    /\ dout_vld' = ~dout_rd
    /\ dout_path' = [dout_path EXCEPT ![0] = dout_ack]
    /\ din_path' = Sampled(din_path)
    /\ in_xfer' = <<>>
    /\ out_xfer' = IF dout_vld /\ rd THEN <<dout_data>> ELSE <<>>
    /\ UNCHANGED <<din_rd, din_en, din_data>>

---------------------------------------------------------------------------
\* The words inside: the one that is offered, and the one that is announced and not loaded.
CdcContents ==
    (IF dout_vld THEN <<dout_data>> ELSE <<>>) \o
    (IF din_en # dout_ack THEN <<din_data>> ELSE <<>>)
===========================================================================
