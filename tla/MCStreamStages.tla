-------------------------- MODULE MCStreamStages --------------------------
(* The stages of a stream, and the crossbar of buses made of streams, for TLC: a          *)
(* behaviour is one of one stage, chosen at the start, between a producer and a consumer  *)
(* that are ready or silent as they like.                                                 *)
EXTENDS StreamResizers, Axi4SFifoCopy, HandshakedCdc, AxiCrossbar, AxiAdapters,
        AxiLsu

CONSTANTS
    Stages,        \* of "reg", "resizer", "copy", "cdc", "bridge", "crossbar", "lsu_read", "lsu_write"
    WidthModes,    \* of the resizers
    AlwaysReady    \* the stages and modes whose consumer never makes them wait

VARIABLES
    stage,
    was_reset,     \* the last step was a reset
    edge           \* parity of the clock edges of the stages whose fairness is about every clock

xferVars == <<in_xfer, out_xfer>>
streamVars == <<xferVars, was_reset, regVars, resVars, copyVars, cdcVars,
                adapterVars, lsuVars>>
vars == <<stage, edge, streamVars, crossVars>>

Init ==
    /\ stage \in Stages
    /\ edge = FALSE
    /\ was_reset = FALSE
    /\ in_xfer = <<>> /\ out_xfer = <<>>
    /\ IF stage = "reg" THEN RegInit
       ELSE kinds = <<"latency">> /\ init_data = <<>> /\ regs = <<PowerUp(<<>>)>>
    /\ width_mode \in IF stage = "resizer" THEN WidthModes ELSE {"hs_down"}
    /\ ResInit
    /\ copy_mode \in IF stage = "copy" THEN {"fifo", "reg"} ELSE {"fifo"}
    /\ CopyInit
    /\ CdcInit
    /\ AdapterInit
    /\ LsuInit
    /\ stage # "bridge" => bridge = "to_lite"
    /\ CrossInit
    /\ stage # "crossbar" => ~writes /\ MASTERS = CHOOSE access \in Accesses : TRUE

\* The ready that a consumer may drive.
ConsumerRd == IF stage \in AlwaysReady \/ (stage = "resizer" /\ width_mode \in AlwaysReady)
              THEN {TRUE} ELSE BOOLEAN

Offers(words) == {<<>>} \cup {<<w>> : w \in words}

Reg(rd) ==
    /\ stage = "reg"
    /\ \/ RegReset /\ was_reset' = TRUE
       \/ \E in \in Offers(Data) : RegCycle(in, rd) /\ was_reset' = FALSE
    /\ UNCHANGED <<resVars, copyVars, cdcVars, adapterVars, lsuVars, crossVars>>

Resizer(rd) ==
    /\ stage = "resizer"
    /\ \E in \in Offers(ResInputs) : ResCycle(in, rd)
    /\ UNCHANGED <<was_reset, regVars, copyVars, cdcVars, adapterVars, lsuVars, crossVars>>

Copy(rd) ==
    /\ stage = "copy"
    /\ \E in \in Offers(CopyInputs), again \in BOOLEAN : CopyCycle(in, rd, again)
    /\ UNCHANGED <<was_reset, regVars, resVars, cdcVars, adapterVars, lsuVars, crossVars>>

CdcIn ==
    /\ stage = "cdc"
    /\ \E in \in Offers(Data) : CdcInEdge(in)
    /\ UNCHANGED <<was_reset, regVars, resVars, copyVars, adapterVars, lsuVars, crossVars>>

CdcOut(rd) ==
    /\ stage = "cdc"
    /\ CdcOutEdge(rd)
    /\ UNCHANGED <<was_reset, regVars, resVars, copyVars, adapterVars, lsuVars, crossVars>>

Bridge(rd) ==
    /\ stage = "bridge"
    /\ AdapterNext(rd)
    /\ UNCHANGED <<was_reset, regVars, resVars, copyVars, cdcVars, lsuVars, crossVars>>

LsuRead(rd) ==
    /\ stage = "lsu_read"
    /\ \E m_ar_rd \in BOOLEAN : ReadNext(m_ar_rd, rd)
    /\ UNCHANGED <<xferVars, was_reset, regVars, resVars, copyVars, cdcVars, adapterVars, writeVars,
                   crossVars>>

LsuWrite(rd) ==
    /\ stage = "lsu_write"
    /\ \E b_rd, aw_rd \in BOOLEAN : WriteNext(b_rd, aw_rd, rd)
    /\ UNCHANGED <<was_reset, regVars, resVars, copyVars, cdcVars, adapterVars, readVars, crossVars>>

Out(rd) == Reg(rd) \/ Resizer(rd) \/ Copy(rd) \/ CdcOut(rd) \/ Bridge(rd)
           \/ LsuRead(rd) \/ LsuWrite(rd)

Crossbar == stage = "crossbar" /\ CrossNext /\ UNCHANGED streamVars

Tick == edge' = (stage \in {"reg", "resizer", "copy", "cdc"} /\ ~edge) /\ UNCHANGED stage

Next ==
    /\ CdcIn \/ Crossbar \/ \E rd \in ConsumerRd : Out(rd)
    /\ Tick

Spec == Init /\ [][Next]_vars

\* Two masters and three slaves with the access that TLC tries: groups that share slaves,
\* that do not, that leave a gap in the numbers.
SmallAccesses ==
    {[m \in Masters |-> IF m = 0 THEN {0, 2} ELSE b] : b \in {{1}, {2}, {1, 2}, {0, 2}}}

\* A pipe of every kind, of two latencies as LATENCY = 2 makes it, of LATENCY = 2 with
\* DELAY = 1, and of two HandshakedRegs in a row.
PipesUpTo2 == {<<"latency">>, <<"break">>, <<"latency", "latency">>, <<"latency", "delay">>,
               <<"break", "latency">>}

---------------------------------------------------------------------------
Contents ==
    CASE stage = "reg" -> RegContents
      [] stage = "resizer" -> ResContents
      [] stage = "copy" -> CopyContents
      [] stage = "cdc" -> CdcContents
      [] stage = "bridge" -> AdapterContents
      [] stage = "lsu_write" -> WriteContents
      [] OTHER -> <<>>

\* The clocks run; a consumer that is offered a word takes it at some time; the producer
\* of a resizer to wider words goes on, since an unfinished word cannot leave.  A master
\* that asks a slave of the crossbar again and again has the priority at some time, sends
\* the data it announced, and a slave goes on when it can.  Around a bridge and the
\* load store unit there is again and again a clock in which everyone is ready.
Delivery ==
    /\ WF_vars((\E rd \in ConsumerRd : Out(rd)) /\ Tick)
    /\ SF_vars((Reg(TRUE) \/ Resizer(TRUE) \/ Copy(TRUE)) /\ Tick /\ out_xfer' # <<>>)
    /\ WF_vars(CdcIn /\ Tick)
    /\ WF_vars(CdcOut(TRUE) /\ Tick)
    /\ WF_liteVars(stage = "bridge" /\ bridge = "to_lite" /\ LiteEager)
    /\ WF_avalonVars(bridge = "to_avalon" /\ AvalonEager)
    /\ WF_reorderVars(bridge = "reorder" /\ ReorderEager)
    /\ WF_readVars(stage = "lsu_read" /\ ReadEager)
    /\ WF_writeVars(stage = "lsu_write" /\ WriteEager)
    /\ \A m \in Masters :
           /\ SF_crossVars(\E s \in Slaves : Dispatch(m, s))
           /\ WF_crossVars(SendWord(m, TRUE))
    /\ \A s \in Slaves : WF_crossVars(CrossSlave(s))

FairSpec == Spec /\ Delivery

---------------------------------------------------------------------------
(* Properties *)

Ordered == INSTANCE OrderedStream WITH
    q <- IF stage = "copy" THEN <<>> ELSE Contents,
    in_xfer <- IF stage = "copy" THEN <<>> ELSE in_xfer,
    out_xfer <- IF stage = "copy" THEN <<>> ELSE out_xfer,
    capacity <- CASE stage = "reg" -> RegCapacity
                  [] stage = "resizer" -> ResCapacity
                  [] stage = "bridge" -> AdapterCapacity
                  [] stage = "lsu_write" -> WriteCapacity
                  [] OTHER -> 2,
    preset <- IF stage = "reg" THEN RegPreset ELSE <<>>

\* Registers, resizers, clock crossings and bridges lose, double and reorder nothing, and no frame
\* ends where none ended before.
StreamSpec == Ordered!Spec

\* What is inside leaves, also when nothing follows it, unless a reset drops it; every
\* request to the crossbar is answered, the reorder buffer goes on with a word it has, and
\* the read aggregator goes on with some read.
StagesDeliver ==
    /\ Contents # <<>> /\ (stage = "resizer" => ~IsUp) ~> out_xfer # <<>> \/ Contents = <<>>
    /\ \A m \in Masters :
           []<>(asked[m] = <<>>) \/ []<><<Len(asked'[m]) < Len(asked[m])>>_asked
    /\ []<>(due \notin sent) \/ []<><<due' # due>>_due
    /\ []<>(item_vld = {}) \/ []<><<~(item_vld \subseteq item_vld')>>_item_vld

\* Whatever passes between a master and a slave belongs to the oldest request of both: the
\* crossbar routes by the address, keeps the orders of its channels in step and mixes no
\* packets, the bridges count the words of bursts and put answers in their order, and the
\* write aggregator sends a burst with its address.
AnswersMeetRequests ==
    /\ RoutedToItsSlave /\ WordsMeetTheirRequest
    /\ BeatsMatchBursts /\ AvalonBurstsMatch /\ WordsAreReordered
    /\ WritesMeetTheirAddress
===========================================================================
