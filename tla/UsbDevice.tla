---------------------------- MODULE UsbDevice ----------------------------
(* A USB device with Usb2DeviceCore, UsbDeviceEpBuffers and the control endpoint of       *)
(* Usb2DeviceCommon, and a host that configures it and exchanges packets with its bulk    *)
(* endpoint.  One step per clock in which something happens; the serial interface engines *)
(* hand over packets as a header and words, and the host waits for the end of an answer.  *)
EXTENDS Integers, Sequences, FiniteSets, SequencesExt

CONSTANTS
    EP0_MAX,        \* words of a packet of the control endpoint
    EP1_WORDS,      \* words of a packet of the bulk endpoint
    PACKET_NUMBERS, \* bound: bulk packets are numbered modulo this, an even number
    IN_PACKETS,     \* packets the function has written and the host not taken
    DESCR_LEN,      \* words of the descriptor
    RequestLens,    \* wLength of the requests for it
    Addresses,      \* addresses the host may give
    Losses,         \* of "token", "out_data", "out_corrupt", "out_ack", "in_data", "in_ack"
    MAX_LOSSES,     \* bound of their number
    PARTIAL_DRAIN,  \* a packet may be sent while some words of another are in the rx FIFO
    BULK_WHILE_STALLED  \* the bulk endpoint may be used while a request is being refused

\* A transfer that fills its last packet never comes to its status stage: ep0_trans_len is
\* looked for at 1 in a word that does not end a full packet.
ASSUME NoFullLastPacket ==
    \A n \in RequestLens : (IF n < DESCR_LEN THEN n ELSE DESCR_LEN) % EP0_MAX # 0

\* Packets and FIFOs have words, wLength and ep0_trans_len are 16 bits wide, and data bits
\* alternate through all packet numbers.
ASSUME UsbAssumption ==
    /\ EP0_MAX \in Nat \ {0} /\ EP1_WORDS \in Nat \ {0}
    /\ PACKET_NUMBERS \in Nat \ {0} /\ PACKET_NUMBERS % 2 = 0
    /\ DESCR_LEN \in Nat /\ DESCR_LEN < 65536 /\ RequestLens \subseteq Nat

RX_DEPTH == 2 * EP1_WORDS
Endpoints == {0, 1}

VARIABLES
    core,   \* Usb2DeviceCore: st, tx_pid, the data bits of the endpoints, endp
    ep0,    \* the control endpoint
    rx1,    \* the rx FIFO of the bulk endpoint: words committed, words of the present packet
    tx1,    \* its tx FIFO: the packets that are complete, words of the first that are sent
    host,   \* addr, config and the numbers of the next bulk packets as the
            \* host has them, its control transfer ctl
    bus,    \* the transaction that is going on, NoTransaction between two
    out_due, in_due,  \* words resp. packets that are on their way
    losses            \* number of losses so far

usbVars == <<core, ep0, rx1, tx1, host, bus, out_due, in_due, losses>>

NoTransaction == [kind |-> "none"]
NoTransfer == [phase |-> "none"]
Data(bit) == IF bit = 0 THEN "DATA_0" ELSE "DATA_1"
Following(number) == (number + 1) % PACKET_NUMBERS

\* What rx_header and rx_data show in a clock.
Nothing == [what |-> "nothing"]
Header(pid, endp) == [what |-> "header", pid |-> pid, endp |-> endp]
Word(data, last, error) == [what |-> "word", data |-> data, last |-> last, error |-> error]
IsHeader(rx) == rx.what = "header"
LastWord(rx) == rx.what = "word" /\ rx.last

---------------------------------------------------------------------------
(* Usb2DeviceCore and its endpoint buffers *)

Endp(rx) == IF IsHeader(rx) THEN rx.endp ELSE core.endp

EpTxValid(rx) ==
    IF Endp(rx) = 0 THEN ep0.stage \in {"DATA_GET", "STATUS_IN"} ELSE tx1.packets # <<>>
EpRxReady(rx) == IF Endp(rx) = 0 THEN ep0.stage \in {"IDLE", "STATUS_OUT", "DATA_SET"}
                 ELSE Len(rx1.words) + Len(rx1.tmp) < RX_DEPTH
\* ep0_stall refuses whatever endpoint is asked.
EpTxStall(rx) == EpTxValid(rx) /\ ep0.stall

\* Mutant: the data bit of the control endpoint is compared for every endpoint.
OutPidError_Ep0(rx) == IsHeader(rx) /\ rx.pid # Data(core.out_bit[0])

OutPidError(rx) == IsHeader(rx) /\ rx.pid # Data(core.out_bit[core.endp])

\* The word that the endpoint offers.
WordIsLast ==
    IF core.endp = 1 THEN tx1.pos = EP1_WORDS
    ELSE ep0.stage # "DATA_GET" \/ ep0.trans_len < 2 \/ ep0.split = EP0_MAX - 1
TxWord ==
    IF core.endp = 1 THEN <<Head(tx1.packets)>>
    ELSE IF ep0.stage = "DATA_GET" /\ ep0.trans_len # 0 THEN <<ep0.descr_addr>> ELSE <<>>

NextCoreSt(rx) ==
    CASE core.st = "RX_IDLE" /\ IsHeader(rx) ->
            (CASE rx.pid = "TOKEN_IN" /\ EpTxValid(rx) /\ ~EpTxStall(rx) -> "TX_DATA"
               [] rx.pid = "TOKEN_IN" /\ (~EpTxValid(rx) \/ EpTxStall(rx)) -> "TX_HANDSHAKE"
               [] rx.pid \in {"TOKEN_OUT", "TOKEN_SETUP"} ->
                     IF EpRxReady(rx) THEN "RX_DATA" ELSE "RX_DATA_IGNORE"
               [] OTHER -> "RX_IDLE")
      [] core.st = "RX_DATA" /\ OutPidError(rx) -> "RX_DATA_IGNORE_NO_RESP"
      [] core.st = "RX_DATA" /\ LastWord(rx) ->
            IF rx.error THEN "RX_IDLE" ELSE "TX_HANDSHAKE"
      [] core.st = "RX_DATA_IGNORE_NO_RESP" /\ LastWord(rx) -> "RX_IDLE"
      [] core.st = "RX_DATA_IGNORE" /\ LastWord(rx) ->
            IF rx.error THEN "RX_IDLE" ELSE "TX_HANDSHAKE"
      [] core.st = "TX_DATA" /\ WordIsLast -> "TX_DATA_COMPLETE"
      [] core.st \in {"TX_DATA_COMPLETE", "TX_HANDSHAKE"} -> "RX_IDLE"
      [] OTHER -> core.st

NextTxPid(rx) ==
    CASE core.st = "RX_IDLE" /\ IsHeader(rx) ->
            (IF EpTxStall(rx) /\ rx.pid = "TOKEN_IN" THEN "HS_STALL"
             ELSE IF EpTxValid(rx) /\ rx.pid = "TOKEN_IN" THEN Data(core.in_bit[rx.endp])
             ELSE "HS_NACK")
      [] core.st = "RX_DATA" /\ LastWord(rx) -> "HS_ACK"
      [] OTHER -> core.tx_pid

IsSetup(rx) == core.st = "RX_IDLE" /\ IsHeader(rx) /\ rx.pid = "TOKEN_SETUP"
Accepts(rx) == core.st = "RX_DATA" /\ LastWord(rx) /\ ~rx.error

\* Mutant: SETUP leaves the data bits as they are.
NextBit_NoSet(bits, e, set, value, toggle) ==
    IF toggle THEN [bits EXCEPT ![e] = 1 - @] ELSE bits

\* SETUP starts both data bits of its endpoint; they move with each packet taken, and with
\* each one sent whether or not the host has got it.
NextBit(bits, e, set, value, toggle) ==
    IF set THEN [bits EXCEPT ![e] = value]
    ELSE IF toggle THEN [bits EXCEPT ![e] = 1 - @] ELSE bits

CoreCycle(rx) ==
    core' = [st |-> NextCoreSt(rx), tx_pid |-> NextTxPid(rx),
             out_bit |-> NextBit(core.out_bit, Endp(rx), IsSetup(rx), 0, Accepts(rx)),
             in_bit |-> NextBit(core.in_bit, Endp(rx), IsSetup(rx), 1,
                                core.st = "TX_DATA" /\ WordIsLast),
             endp |-> Endp(rx)]

\* The answer that goes out in this clock.
Handshake == IF EpTxStall(Nothing) THEN "HS_STALL" ELSE core.tx_pid
TxReady(e) ==
    core.endp = e /\ (core.st = "TX_DATA" \/ (core.st = "TX_HANDSHAKE" /\ EpTxStall(Nothing)))

EpRxValid(rx, e) == core.st = "RX_DATA" /\ rx.what = "word" /\ core.endp = e

\* Words for which there is no room are lost; the room was looked at only with the token.
BuffersCycle(rx, read, packet) ==
    LET stored == EpRxValid(rx, 1) /\ EpRxReady(rx)
        tmp == IF stored THEN Append(rx1.tmp, rx.data) ELSE rx1.tmp
        left == IF read THEN Tail(rx1.words) ELSE rx1.words
    IN /\ rx1' = IF EpRxValid(rx, 1) /\ rx.last /\ rx.error THEN [words |-> left, tmp |-> <<>>]
                 ELSE IF stored /\ rx.last THEN [words |-> left \o tmp, tmp |-> <<>>]
                 ELSE [words |-> left, tmp |-> tmp]
       /\ tx1' = LET ended == TxReady(1) /\ tx1.pos = EP1_WORDS
                 IN [packets |-> (IF ended THEN Tail(tx1.packets) ELSE tx1.packets) \o packet,
                     pos |-> IF ended THEN 1 ELSE IF TxReady(1) THEN tx1.pos + 1 ELSE tx1.pos]

---------------------------------------------------------------------------
(* The control endpoint *)

Smaller(a, b) == IF a < b THEN a ELSE b

\* get_descriptor: as many words as the host asks for and the descriptor has.
DescriptorWords == Smaller(ep0.req.value, DESCR_LEN)

\* descriptor_ep0_fsm in its stage SETUP, with decode_setup_request; the request is not looked
\* at any more.
Decoded ==
    LET get == ep0.req.kind \in {"get_descriptor", "get_unknown"}
    IN [ep0 EXCEPT !.stage = IF get THEN "DATA_GET" ELSE "STATUS_IN",
                   !.stall = ep0.req.kind = "get_unknown",
                   !.addr_next = IF ep0.req.kind = "set_address" THEN ep0.req.value ELSE ep0.addr,
                   !.configured = IF ep0.req.kind = "set_configuration"
                                  THEN ep0.req.value ELSE ep0.configured,
                   !.descr_addr = IF ep0.req.kind = "get_descriptor" THEN 0 ELSE @,
                   !.trans_len = IF ep0.req.kind = "get_descriptor"
                                 THEN DescriptorWords ELSE @,
                   !.split = 0, !.req = NoTransfer]

\* One word of the data stage has gone.
DataGone ==
    IF ep0.stall THEN [ep0 EXCEPT !.stage = "IDLE", !.stall = FALSE]
    ELSE IF ep0.trans_len = 1 /\ ep0.split # EP0_MAX - 1 THEN [ep0 EXCEPT !.stage = "STATUS_OUT"]
    ELSE [ep0 EXCEPT !.descr_addr = @ + 1, !.split = (@ + 1) % EP0_MAX,
                     !.trans_len = (@ - 1) % 65536]

Ep0Cycle(rx) ==
    ep0' = CASE ep0.stage = "IDLE" /\ EpRxValid(rx, 0) /\ rx.last ->
                   [ep0 EXCEPT !.stage = "SETUP", !.req = rx.data]
             [] ep0.stage = "SETUP" -> Decoded
             [] ep0.stage = "DATA_GET" /\ TxReady(0) -> DataGone
             [] ep0.stage = "STATUS_OUT" /\ EpRxValid(rx, 0) /\ rx.last ->
                   [ep0 EXCEPT !.stage = "IDLE"]
             [] ep0.stage = "STATUS_IN" /\ TxReady(0) ->
                   [ep0 EXCEPT !.stage = "IDLE", !.addr = ep0.addr_next]
             [] OTHER -> ep0

DeviceCycle(rx, read, packet) ==
    CoreCycle(rx) /\ BuffersCycle(rx, read, packet) /\ Ep0Cycle(rx)

DeviceWorks == core.st \in {"TX_DATA", "TX_DATA_COMPLETE", "TX_HANDSHAKE"} \/ ep0.stage = "SETUP"

---------------------------------------------------------------------------
(* The function behind the bulk endpoint *)

Reads ==
    /\ ep0.configured /\ rx1.words # <<>>
    /\ out_due' = Tail(out_due)
    /\ DeviceCycle(Nothing, TRUE, <<>>)
    /\ ~DeviceWorks
    /\ UNCHANGED <<host, bus, in_due, losses>>

\* Writes a packet of EP1_WORDS equal words: its number.  A packet that comes in the middle of
\* a transaction is one that comes after it, since tx_valid is looked at only with the token.
Writes ==
    /\ bus = NoTransaction
    /\ ep0.configured /\ Len(in_due) < IN_PACKETS
    /\ LET number == (host.in_no + Len(in_due)) % PACKET_NUMBERS
       IN in_due' = Append(in_due, number) /\ DeviceCycle(Nothing, FALSE, <<number>>)
    /\ ~DeviceWorks
    /\ UNCHANGED <<host, bus, out_due, losses>>

---------------------------------------------------------------------------
(* The host *)

HostIdle == bus = NoTransaction /\ ~DeviceWorks

Transfers ==
    [phase : {"setup"}, kind : {"get_descriptor"}, value : RequestLens]
    \cup [phase : {"setup"}, kind : {"get_unknown"}, value : {0}]
    \cup [phase : {"setup"}, kind : {"set_address"}, value : Addresses]
    \cup [phase : {"setup"}, kind : {"set_configuration"}, value : {TRUE}]

\* The address is given before the configuration and not changed after it.
StartsTransfer(c) ==
    /\ HostIdle /\ host.ctl = NoTransfer
    /\ c.kind = "set_configuration" => host.addr # 0
    /\ c.kind = "set_address" => ~host.config
    /\ host' = [host EXCEPT !.ctl = c]
    /\ UNCHANGED <<core, ep0, rx1, tx1, bus, out_due, in_due, losses>>

\* The words are the number of the packet.
StartsBulkOut ==
    /\ HostIdle /\ host.config /\ host.bulk = <<>>
    /\ PARTIAL_DRAIN \/ Len(out_due) % EP1_WORDS = 0
    /\ host' = [host EXCEPT !.bulk = <<host.out_no>>]
    /\ out_due' = out_due \o [i \in 1 .. EP1_WORDS |-> host.out_no]
    /\ UNCHANGED <<core, ep0, rx1, tx1, bus, in_due, losses>>

\* The transactions the host may begin, with the data bit it sends or waits for.
Transactions ==
    (CASE host.ctl.phase = "setup" -> {[kind |-> "TOKEN_SETUP", ep |-> 0, bit |-> 0]}
       [] host.ctl.phase = "data" -> {[kind |-> "TOKEN_IN", ep |-> 0, bit |-> host.ctl_bit]}
       [] host.ctl.phase = "status_in" -> {[kind |-> "TOKEN_IN", ep |-> 0, bit |-> 1]}
       [] host.ctl.phase = "status_out" -> {[kind |-> "TOKEN_OUT", ep |-> 0, bit |-> 1]}
       [] OTHER -> {})
    \cup {t \in {[kind |-> "TOKEN_OUT", ep |-> 1, bit |-> host.out_no % 2],
                 [kind |-> "TOKEN_IN", ep |-> 1, bit |-> host.in_no % 2]} :
             /\ t.kind = "TOKEN_OUT" => host.bulk # <<>>
             /\ host.config /\ (BULK_WHILE_STALLED \/ ~ep0.stall)}

\* Each of lost says whether one of Losses happens in this step.
Lose(what, lost) == lost => what \in Losses
Counts(lost) ==
    losses' = losses + Cardinality({i \in DOMAIN lost : lost[i]}) /\ losses' <= MAX_LOSSES

\* Unless PARTIAL_DRAIN a packet is sent only when the function has read whole packets.
SendsToken(t, lost) ==
    /\ HostIdle /\ t \in Transactions /\ Lose("token", lost)
    /\ t.ep = 1 /\ t.kind = "TOKEN_OUT" => PARTIAL_DRAIN \/ Len(rx1.words) % EP1_WORDS = 0
    /\ bus' = IF t.kind = "TOKEN_IN"
              THEN IF lost THEN NoTransaction
                   ELSE [kind |-> "in", t |-> t, pid |-> "none", words |-> <<>>]
              ELSE [kind |-> "out", t |-> t, sent |-> 0]
    /\ DeviceCycle(IF lost THEN Nothing ELSE Header(t.kind, t.ep), FALSE, <<>>)
    /\ Counts(<<lost>>) /\ UNCHANGED <<host, out_due, in_due>>

\* The words of the packet of a transaction: a request, a bulk packet, or the one empty word
\* of a status stage.
WordCount == IF bus.t.ep = 1 THEN EP1_WORDS ELSE 1
WordOf == IF bus.t.ep = 1 THEN host.bulk[1]
          ELSE IF bus.t.kind = "TOKEN_SETUP" THEN host.ctl ELSE <<>>

\* After the header the words follow; a packet of the bulk endpoint may get lost as a whole
\* or be spoiled.
SendsData(lost, error) ==
    /\ bus.kind = "out" /\ bus.sent <= WordCount
    /\ lost => bus.sent = 0 /\ Lose("out_data", lost)
    /\ error => bus.sent = WordCount /\ bus.t.ep = 1 /\ Lose("out_corrupt", error)
    /\ LET last == bus.sent = WordCount
       IN /\ DeviceCycle(IF lost THEN Nothing
                         ELSE IF bus.sent = 0 THEN Header(Data(bus.t.bit), core.endp)
                         ELSE Word(WordOf, last, error), FALSE, <<>>)
          /\ bus' = IF lost THEN NoTransaction ELSE [bus EXCEPT !.sent = @ + 1]
    /\ Counts(<<lost, error>>) /\ UNCHANGED <<host, out_due, in_due>>

\* No answer has come to a packet.
TimesOut ==
    /\ bus # NoTransaction /\ core.st \notin {"TX_DATA", "TX_DATA_COMPLETE", "TX_HANDSHAKE"}
    /\ ep0.stage # "SETUP"
    /\ bus.kind = "out" => bus.sent > WordCount
    /\ bus' = NoTransaction
    /\ UNCHANGED <<core, ep0, rx1, tx1, host, out_due, in_due, losses>>

EndsTransfer == [host EXCEPT !.ctl = NoTransfer, !.ctl_bit = 0, !.got = <<>>]

\* What a handshake of the device tells the host.
AfterAck ==
    IF bus.t.ep = 1 THEN [host EXCEPT !.bulk = <<>>, !.out_no = Following(@)]
    ELSE IF bus.t.kind = "TOKEN_SETUP"
    THEN [host EXCEPT !.ctl.phase = IF host.ctl.kind \in {"get_descriptor", "get_unknown"}
                                    THEN "data" ELSE "status_in", !.ctl_bit = 1]
    ELSE EndsTransfer

DeviceAnswers(lost) ==
    /\ core.st = "TX_HANDSHAKE" /\ Lose("out_ack", lost) /\ (lost => bus.t.ep = 1)
    /\ host' = IF lost THEN host
               ELSE IF Handshake = "HS_ACK" THEN AfterAck
               ELSE IF Handshake = "HS_STALL" /\ bus.t.ep = 0 THEN EndsTransfer
               ELSE host
    /\ bus' = NoTransaction
    /\ DeviceCycle(Nothing, FALSE, <<>>)
    /\ Counts(<<lost>>) /\ UNCHANGED <<out_due, in_due>>

DeviceSends ==
    /\ core.st = "TX_DATA"
    /\ bus' = [bus EXCEPT !.pid = core.tx_pid, !.words = @ \o TxWord]
    /\ DeviceCycle(Nothing, FALSE, <<>>)
    /\ UNCHANGED <<host, out_due, in_due, losses>>

\* The host takes a packet with the data bit it waits for and acknowledges any.
TakesControl ==
    LET got == host.got \o bus.words
        all == Len(bus.words) < EP0_MAX
    IN CASE host.ctl.phase = "data" ->
              [host EXCEPT !.got = got, !.ctl_bit = 1 - @,
                           !.ctl.phase = IF all THEN "status_out" ELSE "data"]
         [] host.ctl.kind = "set_address" -> [EndsTransfer EXCEPT !.addr = host.ctl.value]
         [] OTHER -> [EndsTransfer EXCEPT !.config = host.ctl.value]

HostAcks(lost, ackLost) ==
    /\ core.st = "TX_DATA_COMPLETE" /\ Lose("in_data", lost) /\ Lose("in_ack", ackLost)
    /\ LET new == ~lost /\ bus.pid = Data(bus.t.bit)
       IN /\ host' = IF ~new THEN host
                     ELSE IF bus.t.ep = 1 THEN [host EXCEPT !.in_no = Following(@)] ELSE TakesControl
          /\ in_due' = IF new /\ bus.t.ep = 1 THEN Tail(in_due) ELSE in_due
    /\ bus' = NoTransaction
    /\ DeviceCycle(Nothing, FALSE, <<>>)
    /\ Counts(<<lost, ackLost>>) /\ UNCHANGED out_due

---------------------------------------------------------------------------

UsbInit ==
    /\ core = [st |-> "RX_IDLE", tx_pid |-> "none", out_bit |-> [e \in Endpoints |-> 0],
               in_bit |-> [e \in Endpoints |-> 0], endp |-> 0]
    /\ ep0 = [stage |-> "IDLE", stall |-> FALSE, trans_len |-> 0, split |-> 0, addr |-> 0,
              addr_next |-> 0, configured |-> FALSE, req |-> NoTransfer, descr_addr |-> 0]
    /\ rx1 = [words |-> <<>>, tmp |-> <<>>] /\ tx1 = [packets |-> <<>>, pos |-> 1]
    /\ host = [addr |-> 0, config |-> FALSE, ctl |-> NoTransfer, got |-> <<>>, ctl_bit |-> 0,
               bulk |-> <<>>, out_no |-> 0, in_no |-> 0]
    /\ bus = NoTransaction /\ out_due = <<>> /\ in_due = <<>> /\ losses = 0

UsbNext ==
    \/ Reads \/ Writes \/ StartsBulkOut
    \/ \E c \in Transfers : StartsTransfer(c)
    \/ \E t \in Transactions, lost \in BOOLEAN : SendsToken(t, lost)
    \/ \E lost \in BOOLEAN, error \in BOOLEAN : SendsData(lost, error)
    \/ \E lost \in BOOLEAN : DeviceAnswers(lost)
    \/ \E lost \in BOOLEAN, ackLost \in BOOLEAN : HostAcks(lost, ackLost)
    \/ DeviceSends
    \/ TimesOut

\* The host goes on with a transaction, serves each transfer again and again, and the function
\* reads.
UsbFair ==
    /\ SF_usbVars(Reads)
    /\ WF_usbVars(SendsData(FALSE, FALSE) \/ DeviceAnswers(FALSE) \/ HostAcks(FALSE, FALSE)
                  \/ DeviceSends \/ TimesOut)
    /\ SF_usbVars(\E t \in Transactions : t.ep = 0 /\ SendsToken(t, FALSE))
    /\ SF_usbVars(\E t \in Transactions :
                      t.ep = 1 /\ t.kind = "TOKEN_OUT" /\ SendsToken(t, FALSE))

---------------------------------------------------------------------------
(* Properties *)

\* Whatever tokens, packets and acknowledges get lost, the function reads the words the host
\* sends, and the host the packets the function writes, in order and once.
UsbDataOnce ==
    /\ IsPrefix(rx1.words, out_due)
    /\ core.st = "TX_DATA_COMPLETE" /\ bus.t.ep = 1 /\ bus.pid = Data(bus.t.bit) =>
          in_due # <<>> /\ bus.words = [i \in 1 .. EP1_WORDS |-> Head(in_due)]

\* Between two control transfers the device has the address and the configuration that the host
\* thinks it has; what was read is the descriptor as far as it was asked for.
ControlTransfersAgree ==
    /\ host.ctl = NoTransfer /\ ~DeviceWorks =>
          ep0.stage = "IDLE" /\ ep0.addr = host.addr /\ ep0.configured = host.config
    /\ host.ctl.phase = "status_out" =>
          host.got = [i \in 1 .. Smaller(host.ctl.value, DESCR_LEN) |-> i - 1]

\* Through losses of packets and of acknowledges the function reads the words the host sends and
\* the host the packets the function writes, in order and once; between two control transfers the
\* device has the address and the configuration that the host thinks it has.
UsbSidesAgree == UsbDataOnce /\ ControlTransfersAgree

\* The device has taken the packet that the host repeats because it has not got an answer.
AckWasLost == HostIdle /\ core.out_bit[1] # host.out_no % 2

\* A control transfer comes to its end and a packet to the device, also after a loss; of the
\* packet the host learns, unless the acknowledge was lost: a repeated one gets none.
UsbTransfersEnd ==
    /\ host.ctl # NoTransfer ~> host.ctl = NoTransfer
    /\ host.bulk # <<>> ~> host.bulk = <<>> \/ AckWasLost
===========================================================================
