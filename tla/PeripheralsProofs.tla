-------------------------- MODULE PeripheralsProofs --------------------------
(***************************************************************************)
(* Of the peripherals, for all values of the constants (the run of         *)
(* MCPeripherals shows both for small ones):                               *)
(*                                                                         *)
(* The control registers of the PHY follow those of the user, for all      *)
(* values, packets and statuses, as long as a register is not changed      *)
(* while one is being written.  The invariant says what each state of the  *)
(* link knows: a register whose write is not due is the one of the PHY, a  *)
(* write on the wires is due and has the value of the register, and a      *)
(* value goes to the register that the PHY has been told.                  *)
(*                                                                         *)
(* A USB device and its host agree on the data of the bulk endpoint and on *)
(* the control transfers, whatever gets lost on the way to the device or   *)
(* of its answers.  The invariant relates the data bits of the device to   *)
(* the numbers of the host, and each phase of a control transfer to the    *)
(* stage of the control endpoint.                                          *)
(***************************************************************************)
EXTENDS UtmiToUlpi, UsbDevice, SequenceTheorems, TLAPS

UlpiSpec == UlpiInit /\ [][UlpiNext]_ulpiVars

\* The types of what the write of a register uses.
RegistersTypeOK ==
    /\ utmi.control \in [Regs -> Controls]
    /\ link.control \in [Regs -> Controls]
    /\ ulpi_phy.regs \in [Regs -> Controls]
    /\ link.update \subseteq Regs
    /\ link.st \in {"idle", "cmd", "reg", "data"}
    /\ link.dir_q \in {"link", "phy"} /\ ulpi_phy.dir \in {"link", "phy"}

\* A register whose write is not due is the one of the PHY; the user changes registers only
\* when all are written.
RegistersAgree ==
    /\ \A r \in Regs \ link.update : ulpi_phy.regs[r] = link.control[r]
    /\ link.control # utmi.control => link.update = {} /\ link.st \in {"idle", "data"}

\* The write that is on the wires: of a register that is due, with its value; what the PHY
\* takes as a value goes to this register.
WriteUnderWay ==
    /\ link.st = "cmd" =>
          \E r \in link.update : link.write = {r} /\ link.data = <<"regw", r>>
                                 /\ link.data_q = link.control[r]
    /\ link.st = "reg" =>
          \E r \in link.update : /\ link.write = {r} /\ link.data = <<"value", link.control[r]>>
                                 /\ LinkDrives => ulpi_phy.cmd = r
    /\ link.st \in {"idle", "data"} => link.data[1] # "value"
    /\ link.st = "idle" => link.data = Noop
    /\ link.stp => link.st = "idle"

UlpiInv == RegistersTypeOK /\ RegistersAgree /\ WriteUnderWay

---------------------------------------------------------------------------
(* ULPI link: the invariant is inductive *)

\* At first nothing is due and the link waits for the PHY to give it the wires.
LEMMA InitImpliesInv == UlpiInit => UlpiInv
  BY DEF UlpiInit, UlpiInv, RegistersTypeOK, RegistersAgree, WriteUnderWay, Regs, Noop

\* The register that the link writes next is one whose write is due.
LEMMA PendingIsDue ==
  ASSUME RegistersTypeOK, link.update # {}
  PROVE  Pending \in link.update
  BY DEF RegistersTypeOK, Pending, Regs

\* A clock keeps the types.
LEMMA ClockKeepsTypes ==
  ASSUME UlpiInv,
         NEW nxt \in BOOLEAN, NEW dir \in {"link", "phy"}, NEW cmd, NEW txPacket, NEW rxPacket,
         NEW control \in [Regs -> Controls],
         UlpiCycle(nxt, dir, cmd, txPacket, rxPacket, control)
  PROVE  RegistersTypeOK'
<1> USE DEF UlpiInv, RegistersTypeOK
<1>1. utmi.control' \in [Regs -> Controls] /\ link.control' \in [Regs -> Controls]
  BY DEF UlpiCycle, LinkCycle, UserCycle
<1>2. link.update' \subseteq Regs
  BY DEF UlpiCycle, LinkCycle, NextUpdate
<1>3. link.st' \in {"idle", "cmd", "reg", "data"}
  BY DEF UlpiCycle, LinkCycle, NextSt
<1>4. link.dir_q' \in {"link", "phy"} /\ ulpi_phy.dir' \in {"link", "phy"}
  BY DEF UlpiCycle, LinkCycle, PhyCycle
<1>5. ulpi_phy.regs' \in [Regs -> Controls]
  <2>1. CASE LinkDrives /\ nxt /\ link.data[1] = "value"
    <3>1. link.st = "reg"
      BY <2>1 DEF WriteUnderWay, Noop
    <3>2. PICK r \in link.update : link.data = <<"value", link.control[r]>>
      BY <3>1 DEF WriteUnderWay
    <3>3. ulpi_phy.regs' = [ulpi_phy.regs EXCEPT ![ulpi_phy.cmd] = link.data[2]]
      BY <2>1 DEF UlpiCycle, PhyCycle
    <3>4. link.data[2] \in Controls
      BY <3>2
    <3> QED BY <3>3, <3>4
  <2>2. CASE ~(LinkDrives /\ nxt /\ link.data[1] = "value")
    BY <2>2 DEF UlpiCycle, PhyCycle
  <2> QED BY <2>1, <2>2
<1> QED BY <1>1, <1>2, <1>3, <1>4, <1>5

\* A clock keeps the write on the wires what it says it is.
LEMMA ClockKeepsWrite ==
  ASSUME UlpiInv, ~HASTY_CONTROL,
         NEW nxt \in BOOLEAN, NEW dir \in {"link", "phy"}, NEW cmd, NEW txPacket, NEW rxPacket,
         NEW control \in [Regs -> Controls],
         UlpiCycle(nxt, dir, cmd, txPacket, rxPacket, control)
  PROVE  WriteUnderWay'
<1> USE DEF UlpiInv
<1>1. /\ link.st' = NextSt(nxt) /\ link.data' = NextData(nxt)
      /\ link.update' = NextUpdate(nxt) /\ link.control' = utmi.control
      /\ link.dir_q' = ulpi_phy.dir /\ ulpi_phy.dir' = dir
      /\ ulpi_phy.cmd' = NextPhyCmd(nxt, dir)
  BY DEF UlpiCycle, LinkCycle, PhyCycle
<1>2. CASE link.st = "idle"
  <2>1. CASE Load /\ link.update # {}
    <3>1. link.st' = "cmd" /\ link.data' = <<"regw", Pending>> /\ link.write' = {Pending}
          /\ link.data_q' = link.control[Pending] /\ ~link.stp'
      BY <1>1, <1>2, <2>1 DEF NextSt, NextData, Aborts, UlpiCycle, LinkCycle
    <3>2. link.control' = link.control /\ link.update' = link.update
      BY <1>1, <1>2, <2>1 DEF RegistersAgree, NextUpdate, Completed
    <3> QED BY <3>1, <3>2, PendingIsDue, <2>1 DEF WriteUnderWay
  <2>2. CASE ~(Load /\ link.update # {})
    BY <1>1, <1>2, <2>2 DEF NextSt, NextData, Aborts, UlpiCycle, LinkCycle, WriteUnderWay, Load, Noop
  <2> QED BY <2>1, <2>2
<1>3. CASE link.st = "cmd"
  <2>1. PICK r \in link.update : link.write = {r} /\ link.data = <<"regw", r>>
                                 /\ link.data_q = link.control[r]
    BY <1>3 DEF WriteUnderWay
  <2>2. link.control' = link.control /\ link.update' = link.update
    BY <1>1, <1>3 DEF RegistersAgree, NextUpdate, Completed
  <2>3. link.write' = {r} /\ link.data_q' = link.control[r] /\ ~link.stp'
    BY <1>3, <2>1 DEF UlpiCycle, LinkCycle, Load, Completed
  <2>4. ~link.stp
    BY <1>3 DEF WriteUnderWay
  <2>5. CASE LinkDrives /\ nxt
    <3>1. link.st' = "reg" /\ link.data' = <<"value", link.control[r]>>
      BY <1>1, <1>3, <2>1, <2>5 DEF NextSt, NextData, Aborts, Load
    <3>2. LinkDrives' => ulpi_phy.cmd' = r
      BY <1>1, <2>1, <2>4, <2>5 DEF NextPhyCmd, LinkDrives, Turnaround
    <3> QED BY <2>1, <2>2, <2>3, <3>1, <3>2 DEF WriteUnderWay
  <2>6. CASE ~(LinkDrives /\ nxt)
    <3>1. link.st' = "cmd" /\ link.data' = link.data
      BY <1>1, <1>3, <2>1, <2>6 DEF NextSt, NextData, Aborts, Load
    <3> QED BY <2>1, <2>2, <2>3, <3>1 DEF WriteUnderWay
  <2> QED BY <2>5, <2>6
<1>4. CASE link.st = "reg"
  <2>1. PICK r \in link.update : /\ link.write = {r} /\ link.data = <<"value", link.control[r]>>
                                 /\ LinkDrives => ulpi_phy.cmd = r
    BY <1>4 DEF WriteUnderWay
  <2>2. CASE Aborts(nxt) \/ (LinkDrives /\ nxt)
    <3>1. link.st' = "idle" /\ link.data' = Noop
      BY <1>1, <1>4, <2>2 DEF NextSt, NextData, Load
    <3> QED BY <3>1 DEF WriteUnderWay, Noop
  <2>3. CASE ~Aborts(nxt) /\ ~(LinkDrives /\ nxt)
    <3>1. link.st' = "reg" /\ link.data' = link.data
      BY <1>1, <1>4, <2>3 DEF NextSt, NextData, Load
    <3>2. link.control' = link.control /\ link.update' = link.update /\ link.write' = link.write
          /\ ~link.stp'
      BY <1>1, <1>4, <2>3 DEF RegistersAgree, NextUpdate, Completed, UlpiCycle, LinkCycle, Load
    <3>3. LinkDrives' => LinkDrives /\ ulpi_phy.cmd' = ulpi_phy.cmd
      <4>1. ~link.stp
        BY <1>4 DEF WriteUnderWay
      <4>2. LinkDrives' => LinkDrives /\ dir = "link"
        BY <1>1, <1>4, <2>3 DEF LinkDrives, Turnaround, Aborts, RegistersTypeOK
      <4> QED BY <1>1, <2>3, <4>1, <4>2 DEF NextPhyCmd
    <3> QED BY <2>1, <3>1, <3>2, <3>3 DEF WriteUnderWay
  <2> QED BY <2>2, <2>3
<1>5. CASE link.st = "data"
  BY <1>1, <1>5 DEF NextSt, NextData, Aborts, UlpiCycle, LinkCycle, WriteUnderWay, Load, Noop
<1> QED BY <1>2, <1>3, <1>4, <1>5 DEF RegistersTypeOK

\* A clock changes a register of the PHY only to the value of the one whose write is due, and
\* the user changes one only when none is.
LEMMA ClockKeepsAgreement ==
  ASSUME UlpiInv, ~HASTY_CONTROL,
         NEW nxt \in BOOLEAN, NEW dir \in {"link", "phy"}, NEW cmd, NEW txPacket, NEW rxPacket,
         NEW control \in [Regs -> Controls],
         UlpiCycle(nxt, dir, cmd, txPacket, rxPacket, control)
  PROVE  RegistersAgree'
<1> USE DEF UlpiInv
<1>1. /\ link.st' = NextSt(nxt) /\ link.control' = utmi.control /\ utmi.control' = control
      /\ link.update' = NextUpdate(nxt)
  BY DEF UlpiCycle, LinkCycle, UserCycle
<1>2. ASSUME link.control' # utmi.control'
      PROVE  link.update' = {} /\ link.st' \in {"idle", "data"}
  <2>1. PICK r \in Regs : control[r] # utmi.control[r]
    BY <1>1, <1>2 DEF RegistersTypeOK
  <2>2. link.update = {} /\ link.control = utmi.control /\ link.st = "idle"
    BY <2>1 DEF UlpiCycle, UserCycle, MayChange
  <2> QED BY <1>1, <2>2 DEF NextUpdate, NextSt, Load, Aborts
<1>3. ASSUME NEW r \in Regs, r \notin link.update'
      PROVE  ulpi_phy.regs'[r] = link.control'[r]
  <2>1. CASE link.control # utmi.control
    <3>1. link.update = {} /\ link.data[1] # "value" /\ Completed(nxt) = {}
      BY <2>1 DEF RegistersAgree, WriteUnderWay, Completed
    <3>2. ulpi_phy.regs' = ulpi_phy.regs
      BY <3>1 DEF UlpiCycle, PhyCycle
    <3>3. link.control[r] = utmi.control[r]
      BY <1>1, <1>3, <3>1 DEF NextUpdate
    <3> QED BY <1>1, <3>1, <3>2, <3>3 DEF RegistersAgree
  <2>2. CASE link.control = utmi.control
    <3>1. CASE LinkDrives /\ nxt /\ link.data[1] = "value"
      <4>1. link.st = "reg"
        BY <3>1 DEF WriteUnderWay, RegistersTypeOK
      <4>2. PICK w \in link.update :
               /\ link.write = {w} /\ link.data = <<"value", link.control[w]>>
               /\ ulpi_phy.cmd = w
        BY <3>1, <4>1 DEF WriteUnderWay
      <4>3. ulpi_phy.regs' = [ulpi_phy.regs EXCEPT ![w] = link.control[w]]
        BY <3>1, <4>2 DEF UlpiCycle, PhyCycle
      <4>4. link.update' = link.update \ {w}
        BY <1>1, <2>2, <3>1, <4>1, <4>2 DEF NextUpdate, Completed
      <4> QED BY <1>1, <1>3, <2>2, <4>3, <4>4 DEF RegistersAgree, RegistersTypeOK
    <3>2. CASE ~(LinkDrives /\ nxt /\ link.data[1] = "value")
      <4>1. Completed(nxt) = {}
        BY <3>2 DEF Completed, WriteUnderWay
      <4>2. ulpi_phy.regs' = ulpi_phy.regs
        BY <3>2 DEF UlpiCycle, PhyCycle
      <4> QED BY <1>1, <1>3, <2>2, <4>1, <4>2 DEF RegistersAgree, NextUpdate
    <3> QED BY <3>1, <3>2
  <2> QED BY <2>1, <2>2
<1> QED BY <1>2, <1>3 DEF RegistersAgree

\* Every step, and a step that changes nothing of the link, keeps the invariant.
LEMMA NextKeepsInv ==
  ASSUME UlpiInv, ~HASTY_CONTROL, [UlpiNext]_ulpiVars
  PROVE  UlpiInv'
<1>1. CASE UlpiNext
  BY <1>1, ClockKeepsTypes, ClockKeepsWrite, ClockKeepsAgreement DEF UlpiNext, UlpiInv
<1>2. CASE UNCHANGED ulpiVars
  BY <1>2 DEF ulpiVars, UlpiInv, RegistersTypeOK, RegistersAgree, WriteUnderWay, LinkDrives,
              Turnaround
<1> QED BY <1>1, <1>2

---------------------------------------------------------------------------
(* ULPI link: theorem *)

\* Unless a register is changed while one is being written, the PHY has what the user set as
\* soon as no write is due, whatever the values and however often the PHY breaks off a write.
THEOREM RegistersFollow ==
  ASSUME ~HASTY_CONTROL
  PROVE  UlpiSpec => []PhyRegistersFollow
<1>1. UlpiInv => PhyRegistersFollow
  BY DEF UlpiInv, RegistersTypeOK, RegistersAgree, PhyRegistersFollow
<1> QED BY <1>1, InitImpliesInv, NextKeepsInv, PTL DEF UlpiSpec

---------------------------------------------------------------------------
(* USB device: the invariant *)

UsbSpec == UsbInit /\ [][UsbNext]_usbVars

\* A packet of the bulk endpoint.
Copies(n, x) == [i \in 1 .. n |-> x]
\* The words of the descriptor from the first one after l.
Words(l, n) == [i \in 1 .. n |-> l + i - 1]
Words0(n) == [i \in 1 .. n |-> i - 1]

CoreStates == {"RX_IDLE", "RX_DATA", "RX_DATA_IGNORE", "RX_DATA_IGNORE_NO_RESP", "TX_DATA",
               "TX_DATA_COMPLETE", "TX_HANDSHAKE"}
\* Where the device is in a transaction of an endpoint.
Sending(e) == core.st = "TX_DATA" /\ core.endp = e
Sent(e) == core.st = "TX_DATA_COMPLETE" /\ core.endp = e
Receiving(e) == core.st = "RX_DATA" /\ bus.kind = "out" /\ core.endp = e
Answering(kind, e) == core.st = "TX_HANDSHAKE" /\ bus.kind = kind /\ core.endp = e

\* A control transfer of the host, in one of its phases.
TransferOK ==
    \/ host.ctl = NoTransfer
    \/ /\ host.ctl = [phase |-> host.ctl.phase, kind |-> host.ctl.kind, value |-> host.ctl.value]
       /\ host.ctl.phase \in {"setup", "data", "status_in", "status_out"}
       /\ [phase |-> "setup", kind |-> host.ctl.kind, value |-> host.ctl.value] \in Transfers

\* A transaction of the bus: its token, and the packet as far as it has gone.
BusOK ==
    \/ bus = NoTransaction
    \/ /\ \/ /\ bus.kind = "in" /\ bus = [kind |-> "in", t |-> bus.t, pid |-> bus.pid, words |-> bus.words]
             /\ bus.t.kind = "TOKEN_IN" /\ bus.words \in Seq(Nat)
          \/ /\ bus.kind = "out" /\ bus = [kind |-> "out", t |-> bus.t, sent |-> bus.sent]
             /\ bus.t.kind \in {"TOKEN_OUT", "TOKEN_SETUP"} /\ bus.sent \in 0 .. WordCount + 1
       /\ bus.t = [kind |-> bus.t.kind, ep |-> bus.t.ep, bit |-> bus.t.bit]
       /\ bus.t.ep \in Endpoints /\ bus.t.bit \in {0, 1}

\* The fields of the records, and the types of what the proof computes with.
UsbTypeInv ==
    /\ core = [st |-> core.st, tx_pid |-> core.tx_pid, out_bit |-> core.out_bit,
               in_bit |-> core.in_bit, endp |-> core.endp]
    /\ core.st \in CoreStates /\ core.endp \in Endpoints
    /\ core.out_bit \in [Endpoints -> {0, 1}] /\ core.in_bit \in [Endpoints -> {0, 1}]
    /\ ep0 = [stage |-> ep0.stage, stall |-> ep0.stall, trans_len |-> ep0.trans_len,
              split |-> ep0.split, addr |-> ep0.addr, addr_next |-> ep0.addr_next,
              configured |-> ep0.configured, req |-> ep0.req, descr_addr |-> ep0.descr_addr]
    /\ ep0.stall \in BOOLEAN
    /\ host = [addr |-> host.addr, config |-> host.config, ctl |-> host.ctl, got |-> host.got,
               ctl_bit |-> host.ctl_bit, bulk |-> host.bulk, out_no |-> host.out_no,
               in_no |-> host.in_no]
    /\ host.out_no \in 0 .. PACKET_NUMBERS - 1 /\ host.in_no \in 0 .. PACKET_NUMBERS - 1
    /\ host.ctl_bit \in {0, 1}
    /\ TransferOK /\ BusOK

\* What the state of the device core says about the transaction on the bus. After a lost
\* token the core is idle; after lost data it may still wait for it.
TransactionInv ==
    /\ bus = NoTransaction => core.st \notin {"TX_DATA", "TX_DATA_COMPLETE", "TX_HANDSHAKE"}
    /\ bus.kind = "in" => core.st \notin {"RX_IDLE", "RX_DATA"}
    /\ bus.kind = "out" => core.st \notin {"TX_DATA", "TX_DATA_COMPLETE"}
    /\ bus # NoTransaction /\ core.st # "RX_IDLE" => core.endp = bus.t.ep
    /\ bus.kind = "out" /\ core.st \in {"RX_DATA", "RX_DATA_IGNORE", "RX_DATA_IGNORE_NO_RESP"} =>
          bus.sent <= WordCount
    /\ bus.kind = "out" /\ core.st = "TX_HANDSHAKE" => bus.sent = WordCount + 1
    /\ bus.kind = "out" /\ core.st = "RX_DATA" /\ bus.sent > 0 =>
          bus.t.bit = core.out_bit[core.endp]
    /\ core.st = "RX_DATA_IGNORE" => core.tx_pid = "HS_NACK"
    /\ bus.kind = "out" /\ core.st = "TX_HANDSHAKE" => core.tx_pid \in {"HS_NACK", "HS_ACK"}
    /\ bus.kind = "in" /\ core.st = "TX_HANDSHAKE" =>
          IF bus.t.ep = 1 THEN core.tx_pid = "HS_NACK" ELSE core.tx_pid = "HS_STALL" /\ ep0.stall
    /\ bus # NoTransaction /\ bus.t.ep = 1 => ~ep0.stall
    /\ "token" \in Losses =>
          /\ bus = NoTransaction => core.st = "RX_IDLE"
          /\ bus.kind = "in" => core.st \in {"TX_DATA", "TX_DATA_COMPLETE", "TX_HANDSHAKE"}

\* The words that are due are those in the FIFO and the packet of the host, unless the device
\* has already taken it: then its data bit is ahead of the host's.
OutInv ==
    LET onWay == host.bulk # <<>> /\ core.out_bit[1] = host.out_no % 2 IN
    /\ host.bulk \in {<<>>, <<host.out_no>>}
    /\ host.bulk = <<>> => core.out_bit[1] = host.out_no % 2
    /\ rx1 = [words |-> rx1.words, tmp |-> rx1.tmp] /\ rx1.words \in Seq(Nat)
    /\ out_due = rx1.words \o (IF onWay THEN Copies(EP1_WORDS, host.out_no) ELSE <<>>)
    /\ bus.kind = "out" /\ bus.t.ep = 1 => bus.t.bit = host.out_no % 2 /\ host.bulk # <<>>
    /\ rx1.tmp = IF Receiving(1) /\ bus.sent > 0 THEN Copies(bus.sent - 1, host.out_no) ELSE <<>>
    /\ Receiving(1) => Len(rx1.words) <= EP1_WORDS
    /\ Answering("out", 1) /\ core.tx_pid = "HS_ACK" => core.out_bit[1] # host.out_no % 2

\* The packets that are due are those in the FIFO, and one that has been sent and that the host
\* is about to take; its data bit is the one the host waits for.
InInv ==
    /\ tx1 = [packets |-> tx1.packets, pos |-> tx1.pos] /\ tx1.packets \in Seq(Nat)
    /\ tx1.pos \in 1 .. EP1_WORDS /\ (~Sending(1) => tx1.pos = 1)
    /\ bus.kind = "in" /\ bus.t.ep = 1 => bus.t.bit = host.in_no % 2
    /\ Sending(1) => /\ tx1.packets # <<>> /\ bus.words = Copies(tx1.pos - 1, Head(tx1.packets))
                     /\ core.tx_pid = Data(host.in_no % 2)
    /\ IF Sent(1)
       THEN /\ bus.pid = Data(host.in_no % 2) /\ core.in_bit[1] = 1 - (host.in_no % 2)
            /\ in_due # <<>> /\ in_due = <<Head(in_due)>> \o tx1.packets
            /\ bus.words = Copies(EP1_WORDS, Head(in_due))
       ELSE in_due = tx1.packets /\ core.in_bit[1] = host.in_no % 2

\* The words the host will get, and has got.
Asked == Smaller(host.ctl.value, DESCR_LEN)
GotLen == Len(host.got)

\* The device has what the host thinks it has.
SameAddress == ep0.addr = host.addr
SameConfig == ep0.configured = host.config

\* No control transfer.
IdleInv ==
    ep0.stage = "IDLE" /\ ~ep0.stall /\ SameAddress /\ SameConfig /\ host.got = <<>>

\* A request is on its way, or has been taken and is decoded with the acknowledge.
SetupInv ==
    /\ ~ep0.stall /\ SameAddress /\ SameConfig /\ host.got = <<>>
    /\ core.st = "RX_DATA" /\ bus.kind = "out" /\ bus.t.ep = 0 => core.in_bit[0] = 1
    /\ IF Answering("out", 0) /\ core.tx_pid = "HS_ACK"
       THEN ep0.stage = "SETUP" /\ ep0.req = host.ctl /\ core.in_bit[0] = 1
       ELSE ep0.stage = "IDLE"

\* The data stage: the host has the first words of the descriptor, the device is at the word that
\* follows them, and the last packet will not be full.
DescriptorInv ==
    /\ ~ep0.stall /\ SameAddress /\ SameConfig
    /\ host.got = Words0(GotLen) /\ GotLen \in Nat
    /\ (Asked - GotLen) % EP0_MAX # 0 /\ GotLen < Asked
    /\ IF Sent(0) THEN
          /\ bus.pid = Data(host.ctl_bit) /\ core.in_bit[0] = 1 - host.ctl_bit
          /\ bus.words = Words(GotLen, Len(bus.words))
          /\ \/ /\ ep0.stage = "DATA_GET" /\ Len(bus.words) = EP0_MAX /\ GotLen + EP0_MAX < Asked
                /\ ep0.descr_addr = GotLen + EP0_MAX /\ ep0.split = 0
                /\ ep0.trans_len = Asked - (GotLen + EP0_MAX)
             \/ /\ ep0.stage = "STATUS_OUT" /\ Len(bus.words) < EP0_MAX
                /\ GotLen + Len(bus.words) = Asked
       ELSE
          /\ ep0.stage = "DATA_GET" /\ core.in_bit[0] = host.ctl_bit
          /\ ep0.split \in 0 .. EP0_MAX - 1 /\ ep0.descr_addr = GotLen + ep0.split
          /\ ep0.descr_addr < Asked /\ ep0.trans_len = Asked - ep0.descr_addr
          /\ IF Sending(0) THEN bus.words = Words(GotLen, ep0.split) /\ core.tx_pid = Data(host.ctl_bit)
             ELSE ep0.split = 0

\* A request for what there is not waits for its IN token.
RefusalInv ==
    ep0.stage = "DATA_GET" /\ ep0.stall /\ SameAddress /\ SameConfig /\ host.got = <<>>
    /\ ~Sending(0) /\ ~Sent(0)

\* The status stage of a request without data; the address counts from its end on.
StatusInInv ==
    /\ ~ep0.stall /\ host.got = <<>>
    /\ host.ctl.kind = "set_address" => SameConfig /\ ep0.addr_next = host.ctl.value
    /\ host.ctl.kind = "set_configuration" =>
          ep0.addr_next = host.addr /\ ep0.configured = host.ctl.value
    /\ IF Sent(0) THEN ep0.stage = "IDLE" /\ ep0.addr = ep0.addr_next /\ bus.pid = Data(1)
       ELSE /\ ep0.stage = "STATUS_IN" /\ SameAddress /\ core.in_bit[0] = 1
            /\ Sending(0) => core.tx_pid = Data(1)

\* The status stage after data.
StatusOutInv ==
    /\ ~ep0.stall /\ SameAddress /\ SameConfig
    /\ host.got = Words0(Asked)
    /\ ep0.stage = IF Answering("out", 0) /\ core.tx_pid = "HS_ACK" THEN "IDLE" ELSE "STATUS_OUT"

\* The token on the bus is the one of the phase of the control transfer.
TokensInv ==
    bus # NoTransaction =>
        /\ bus.t.kind = "TOKEN_SETUP" =>
              bus.t.ep = 0 /\ host.ctl.phase = "setup" /\ bus.t.bit = 0
        /\ bus.t.kind = "TOKEN_OUT" /\ bus.t.ep = 0 =>
              host.ctl.phase = "status_out" /\ bus.t.bit = 1
        /\ bus.t.kind = "TOKEN_IN" /\ bus.t.ep = 0 =>
              \/ host.ctl.phase = "data" /\ bus.t.bit = host.ctl_bit
              \/ host.ctl.phase = "status_in" /\ bus.t.bit = 1

\* Each phase of the host's transfer has its stage of the control endpoint.
ControlInv ==
    /\ TokensInv
    /\ host.ctl.phase = "none" => IdleInv
    /\ host.ctl.phase = "setup" => SetupInv
    /\ host.ctl.phase = "data" =>
          \/ host.ctl.kind = "get_descriptor" /\ DescriptorInv
          \/ host.ctl.kind = "get_unknown" /\ RefusalInv
    /\ host.ctl.phase = "status_in" =>
          host.ctl.kind \in {"set_address", "set_configuration"} /\ StatusInInv
    /\ host.ctl.phase = "status_out" => host.ctl.kind = "get_descriptor" /\ StatusOutInv

\* The invariant.
UsbInv == UsbTypeInv /\ TransactionInv /\ OutInv /\ InInv /\ ControlInv

\* What the device is not made for: words of two packets in the FIFO, bulk transactions while a
\* request is refused, a packet of it that gets lost; and tokens lost as well as their data.
UsedAsMeant ==
    /\ ~PARTIAL_DRAIN /\ ~BULK_WHILE_STALLED
    /\ "in_data" \notin Losses /\ ("token" \notin Losses \/ "out_data" \notin Losses)
---------------------------------------------------------------------------
(* USB device: what a clock does to the device *)

\* Nothing comes and nothing goes out: only the function reads and writes.
LEMMA QuietCycle ==
  ASSUME UsbTypeInv, OutInv, InInv, ~DeviceWorks, NEW read, NEW packet \in Seq(Nat),
         DeviceCycle(Nothing, read, packet)
  PROVE  /\ core' = core /\ ep0' = ep0
         /\ rx1' = [words |-> IF read THEN Tail(rx1.words) ELSE rx1.words, tmp |-> rx1.tmp]
         /\ tx1' = [packets |-> tx1.packets \o packet, pos |-> tx1.pos]
<1>1. /\ core'.st = core.st /\ core'.tx_pid = core.tx_pid /\ core'.endp = core.endp
      /\ core'.out_bit = core.out_bit /\ core'.in_bit = core.in_bit
  BY DEF DeviceCycle, CoreCycle, NextCoreSt, NextTxPid, NextBit, Endp, IsSetup, Accepts, Nothing,
         IsHeader, LastWord, OutPidError, DeviceWorks
<1>2. ~EpRxValid(Nothing, 0) /\ ~EpRxValid(Nothing, 1) /\ ~TxReady(0) /\ ~TxReady(1)
  BY DEF EpRxValid, TxReady, Nothing, DeviceWorks
<1>3. ep0' = ep0
  BY <1>2 DEF DeviceCycle, Ep0Cycle, DeviceWorks
<1>4. core' = core
  BY <1>1 DEF DeviceCycle, CoreCycle, UsbTypeInv
<1> QED
  BY <1>2, <1>3, <1>4 DEF DeviceCycle, BuffersCycle, UsbTypeInv, OutInv, InInv

\* A token or the header of a packet.
LEMMA HeaderCycle ==
  ASSUME UsbTypeInv, OutInv, InInv, ~DeviceWorks, NEW pid, NEW e \in Endpoints,
         DeviceCycle(Header(pid, e), FALSE, <<>>)
  PROVE  /\ core'.st = NextCoreSt(Header(pid, e)) /\ core'.tx_pid = NextTxPid(Header(pid, e))
         /\ core'.endp = e
         /\ core'.out_bit = IF IsSetup(Header(pid, e)) THEN [core.out_bit EXCEPT ![e] = 0]
                            ELSE core.out_bit
         /\ core'.in_bit = IF IsSetup(Header(pid, e)) THEN [core.in_bit EXCEPT ![e] = 1]
                           ELSE core.in_bit
         /\ ep0' = ep0 /\ rx1' = rx1 /\ tx1' = tx1
<1>1. Header(pid, e).what = "header" /\ Header(pid, e).endp = e
  BY DEF Header
<1>2. ~EpRxValid(Header(pid, e), 0) /\ ~EpRxValid(Header(pid, e), 1) /\ ~TxReady(0) /\ ~TxReady(1)
  BY <1>1 DEF EpRxValid, TxReady, DeviceWorks
<1>3. ep0' = ep0
  BY <1>2 DEF DeviceCycle, Ep0Cycle, DeviceWorks
<1>4. rx1' = rx1
  BY <1>2 DEF DeviceCycle, BuffersCycle, OutInv
<1>5. tx1' = tx1
  <2>1. tx1.packets \o <<>> = tx1.packets
    BY ConcatEmptySeq DEF InInv
  <2> QED
    BY <1>2, <2>1 DEF DeviceCycle, BuffersCycle, InInv
<1>6. Endp(Header(pid, e)) = e /\ ~Accepts(Header(pid, e)) /\ ~(core.st = "TX_DATA" /\ WordIsLast)
  BY <1>1 DEF Endp, IsHeader, Accepts, LastWord, DeviceWorks
<1> QED
  BY <1>3, <1>4, <1>5, <1>6 DEF DeviceCycle, CoreCycle, NextBit

\* A word of a packet.
LEMMA WordCycle ==
  ASSUME UsbTypeInv, OutInv, InInv, ~DeviceWorks, NEW d, NEW last \in BOOLEAN, NEW error \in BOOLEAN,
         DeviceCycle(Word(d, last, error), FALSE, <<>>)
  PROVE  /\ core'.st = IF last /\ core.st \in {"RX_DATA", "RX_DATA_IGNORE"}
                       THEN IF error THEN "RX_IDLE" ELSE "TX_HANDSHAKE"
                       ELSE IF last /\ core.st = "RX_DATA_IGNORE_NO_RESP" THEN "RX_IDLE"
                       ELSE core.st
         /\ core'.tx_pid = IF core.st = "RX_DATA" /\ last THEN "HS_ACK" ELSE core.tx_pid
         /\ core'.endp = core.endp /\ core'.in_bit = core.in_bit
         /\ core'.out_bit = IF core.st = "RX_DATA" /\ last /\ ~error
                            THEN [core.out_bit EXCEPT ![core.endp] = 1 - @] ELSE core.out_bit
         /\ ep0' = IF core.st = "RX_DATA" /\ core.endp = 0 /\ last
                   THEN IF ep0.stage = "IDLE" THEN [ep0 EXCEPT !.stage = "SETUP", !.req = d]
                        ELSE IF ep0.stage = "STATUS_OUT" THEN [ep0 EXCEPT !.stage = "IDLE"]
                        ELSE ep0
                   ELSE ep0
         /\ rx1' = IF core.st = "RX_DATA" /\ core.endp = 1
                   THEN LET tmp == IF Len(rx1.words) + Len(rx1.tmp) < RX_DEPTH
                                   THEN Append(rx1.tmp, d) ELSE rx1.tmp
                        IN IF last /\ error THEN [words |-> rx1.words, tmp |-> <<>>]
                           ELSE IF last /\ Len(rx1.words) + Len(rx1.tmp) < RX_DEPTH
                           THEN [words |-> rx1.words \o tmp, tmp |-> <<>>]
                           ELSE [words |-> rx1.words, tmp |-> tmp]
                   ELSE rx1
         /\ tx1' = tx1
<1> DEFINE w == Word(d, last, error)
<1>1. w.what = "word" /\ w.data = d /\ w.last = last /\ w.error = error
  BY DEF Word
<1>2. /\ Endp(w) = core.endp /\ ~IsSetup(w) /\ ~OutPidError(w) /\ ~IsHeader(w) /\ (LastWord(w) <=> last)
      /\ (Accepts(w) <=> (core.st = "RX_DATA" /\ last /\ ~error))
  BY <1>1 DEF Endp, IsSetup, OutPidError, IsHeader, LastWord, Accepts
<1>3. /\ (EpRxValid(w, 0) <=> (core.st = "RX_DATA" /\ core.endp = 0))
      /\ (EpRxValid(w, 1) <=> (core.st = "RX_DATA" /\ core.endp = 1))
      /\ ~TxReady(0) /\ ~TxReady(1) /\ ~(core.st = "TX_DATA" /\ WordIsLast)
  BY <1>1 DEF EpRxValid, TxReady, DeviceWorks
<1>4. core.endp = 1 => (EpRxReady(w) <=> (Len(rx1.words) + Len(rx1.tmp) < RX_DEPTH))
  BY <1>2 DEF EpRxReady
<1> HIDE DEF w
<1>5. DeviceCycle(w, FALSE, <<>>)
  BY DEF w
<1>6. tx1' = tx1
  <2>1. tx1.packets \o <<>> = tx1.packets
    BY ConcatEmptySeq DEF InInv
  <2> QED
    BY <1>3, <1>5, <2>1 DEF DeviceCycle, BuffersCycle, InInv
<1>7. rx1' = IF core.st = "RX_DATA" /\ core.endp = 1
             THEN LET tmp == IF Len(rx1.words) + Len(rx1.tmp) < RX_DEPTH
                             THEN Append(rx1.tmp, d) ELSE rx1.tmp
                  IN IF last /\ error THEN [words |-> rx1.words, tmp |-> <<>>]
                     ELSE IF last /\ Len(rx1.words) + Len(rx1.tmp) < RX_DEPTH
                     THEN [words |-> rx1.words \o tmp, tmp |-> <<>>]
                     ELSE [words |-> rx1.words, tmp |-> tmp]
             ELSE rx1
  BY <1>1, <1>3, <1>4, <1>5 DEF DeviceCycle, BuffersCycle, OutInv
<1>8. ep0' = IF core.st = "RX_DATA" /\ core.endp = 0 /\ last
             THEN IF ep0.stage = "IDLE" THEN [ep0 EXCEPT !.stage = "SETUP", !.req = d]
                  ELSE IF ep0.stage = "STATUS_OUT" THEN [ep0 EXCEPT !.stage = "IDLE"]
                  ELSE ep0
             ELSE ep0
  BY <1>1, <1>3, <1>5 DEF DeviceCycle, Ep0Cycle, DeviceWorks
<1>9. core'.st = IF last /\ core.st \in {"RX_DATA", "RX_DATA_IGNORE"}
                 THEN IF error THEN "RX_IDLE" ELSE "TX_HANDSHAKE"
                 ELSE IF last /\ core.st = "RX_DATA_IGNORE_NO_RESP" THEN "RX_IDLE"
                 ELSE core.st
  BY <1>1, <1>2, <1>5 DEF DeviceCycle, CoreCycle, NextCoreSt, DeviceWorks
<1>10. core'.tx_pid = IF core.st = "RX_DATA" /\ last THEN "HS_ACK" ELSE core.tx_pid
  BY <1>1, <1>2, <1>5 DEF DeviceCycle, CoreCycle, NextTxPid
<1>11. /\ core'.endp = core.endp /\ core'.in_bit = core.in_bit
       /\ core'.out_bit = IF core.st = "RX_DATA" /\ last /\ ~error
                          THEN [core.out_bit EXCEPT ![core.endp] = 1 - @] ELSE core.out_bit
  BY <1>1, <1>2, <1>3, <1>5 DEF DeviceCycle, CoreCycle, NextBit
<1> QED
  BY <1>6, <1>7, <1>8, <1>9, <1>10, <1>11

\* A clock without input in which the device works.
LEMMA WorkCycle ==
  ASSUME UsbTypeInv, OutInv, InInv, DeviceWorks, DeviceCycle(Nothing, FALSE, <<>>),
         core.st \in {"TX_DATA", "TX_DATA_COMPLETE", "TX_HANDSHAKE"}
  PROVE  /\ core'.st = IF core.st # "TX_DATA" THEN "RX_IDLE"
                       ELSE IF WordIsLast THEN "TX_DATA_COMPLETE" ELSE "TX_DATA"
         /\ core'.tx_pid = core.tx_pid /\ core'.endp = core.endp /\ core'.out_bit = core.out_bit
         /\ core'.in_bit = IF core.st = "TX_DATA" /\ WordIsLast
                           THEN [core.in_bit EXCEPT ![core.endp] = 1 - @] ELSE core.in_bit
         /\ rx1' = rx1
         /\ ep0' = IF ep0.stage = "SETUP" THEN Decoded
                   ELSE IF ep0.stage = "DATA_GET" /\ TxReady(0) THEN DataGone
                   ELSE IF ep0.stage = "STATUS_IN" /\ TxReady(0)
                        THEN [ep0 EXCEPT !.stage = "IDLE", !.addr = ep0.addr_next]
                   ELSE ep0
         /\ tx1' = IF ~TxReady(1) THEN tx1
                   ELSE IF tx1.pos = EP1_WORDS THEN [packets |-> Tail(tx1.packets) \o <<>>, pos |-> 1]
                   ELSE [packets |-> tx1.packets, pos |-> tx1.pos + 1]
<1>1. /\ Endp(Nothing) = core.endp /\ ~IsSetup(Nothing) /\ ~Accepts(Nothing) /\ ~IsHeader(Nothing)
      /\ ~LastWord(Nothing) /\ ~EpRxValid(Nothing, 0) /\ ~EpRxValid(Nothing, 1)
  BY DEF Endp, IsSetup, OutPidError, IsHeader, LastWord, Accepts, EpRxValid, Nothing
<1>2. /\ core'.st = IF core.st # "TX_DATA" THEN "RX_IDLE"
                    ELSE IF WordIsLast THEN "TX_DATA_COMPLETE" ELSE "TX_DATA"
      /\ core'.tx_pid = core.tx_pid
  BY <1>1 DEF DeviceCycle, CoreCycle, NextCoreSt, NextTxPid
<1>3. /\ core'.endp = core.endp /\ core'.out_bit = core.out_bit
      /\ core'.in_bit = IF core.st = "TX_DATA" /\ WordIsLast
                        THEN [core.in_bit EXCEPT ![core.endp] = 1 - @] ELSE core.in_bit
  BY <1>1 DEF DeviceCycle, CoreCycle, NextBit
<1>4. rx1' = rx1
  BY <1>1 DEF DeviceCycle, BuffersCycle, OutInv
<1>5. ep0' = IF ep0.stage = "SETUP" THEN Decoded
             ELSE IF ep0.stage = "DATA_GET" /\ TxReady(0) THEN DataGone
             ELSE IF ep0.stage = "STATUS_IN" /\ TxReady(0)
                  THEN [ep0 EXCEPT !.stage = "IDLE", !.addr = ep0.addr_next]
             ELSE ep0
  BY <1>1 DEF DeviceCycle, Ep0Cycle
<1>6. tx1' = IF ~TxReady(1) THEN tx1
             ELSE IF tx1.pos = EP1_WORDS THEN [packets |-> Tail(tx1.packets) \o <<>>, pos |-> 1]
             ELSE [packets |-> tx1.packets, pos |-> tx1.pos + 1]
  <2>1. tx1.packets \o <<>> = tx1.packets
    BY ConcatEmptySeq DEF InInv
  <2> QED
    BY <2>1 DEF DeviceCycle, BuffersCycle, InInv
<1> QED
  BY <1>2, <1>3, <1>4, <1>5, <1>6

---------------------------------------------------------------------------
(* Data bits and sequences of words *)

\* Consecutive numbers have different data bits, since PACKET_NUMBERS is even.
LEMMA Numbering ==
  ASSUME NEW n \in 0 .. PACKET_NUMBERS - 1
  PROVE  /\ n % 2 \in {0, 1} /\ Following(n) \in 0 .. PACKET_NUMBERS - 1
         /\ Following(n) % 2 = 1 - (n % 2)
<1>1. CASE n + 1 < PACKET_NUMBERS
  <2>1. Following(n) = n + 1
    BY <1>1, UsbAssumption DEF Following
  <2> QED
    BY <1>1, <2>1, UsbAssumption
<1>2. CASE n + 1 = PACKET_NUMBERS
  <2>1. Following(n) = 0
    BY <1>2, UsbAssumption DEF Following
  <2> QED
    BY <1>2, <2>1, UsbAssumption
<1> QED
  BY <1>1, <1>2, UsbAssumption

\* A packet of equal words, and one word more.
LEMMA CopiesGrow ==
  ASSUME NEW n \in Nat, NEW x \in Nat
  PROVE  /\ Copies(n, x) \in Seq(Nat) /\ Len(Copies(n, x)) = n
         /\ Append(Copies(n, x), x) = Copies(n + 1, x) /\ Copies(n, x) \o <<x>> = Copies(n + 1, x)
<1>1. Copies(n, x) \in Seq(Nat) /\ Len(Copies(n, x)) = n
  BY DEF Copies
<1>2. \A i \in 1 .. n + 1 : Append(Copies(n, x), x)[i] = x
  BY <1>1 DEF Copies
<1>3. Append(Copies(n, x), x) = Copies(n + 1, x)
  BY <1>1, <1>2 DEF Copies
<1>4. Copies(n, x) \o <<x>> = Append(Copies(n, x), x)
  BY <1>1
<1> QED
  BY <1>1, <1>3, <1>4

\* A packet without words.
LEMMA NoCopies == \A x : Copies(0, x) = <<>>
  BY DEF Copies

\* Of two sequences one after the other the first word of the first is the first.
LEMMA TailOfConcat ==
  ASSUME NEW S, NEW s \in Seq(S), NEW t \in Seq(S), s # <<>>
  PROVE  Tail(s) \in Seq(S) /\ Tail(s \o t) = Tail(s) \o t /\ Len(Tail(s)) = Len(s) - 1
<1>1. s \o t \in Seq(S) /\ Len(s \o t) = Len(s) + Len(t) /\ Len(s) \in Nat \ {0} /\ Len(t) \in Nat
  BY ConcatProperties, EmptySeq, LenProperties
<1>2. s \o t # <<>>
  BY <1>1
<1>3. Tail(s) \in Seq(S) /\ Len(Tail(s)) = Len(s) - 1
      /\ Tail(s \o t) \in Seq(S) /\ Len(Tail(s \o t)) = Len(s) + Len(t) - 1
  BY <1>1, <1>2
<1>4. Tail(s) \o t \in Seq(S) /\ Len(Tail(s) \o t) = Len(s) - 1 + Len(t)
  BY <1>1, <1>3
<1>5. ASSUME NEW i \in 1 .. Len(s) + Len(t) - 1
      PROVE  Tail(s \o t)[i] = (Tail(s) \o t)[i]
  BY <1>1, <1>3, <1>4
<1> QED
  BY <1>3, <1>4, <1>5

---------------------------------------------------------------------------
(* Steps without a transaction *)

\* The parts of the invariant that depend on the device, the host and the bus alone.
LEMMA Unchanged ==
  ASSUME UsbInv, UNCHANGED <<core, ep0, host, bus>>
  PROVE  UsbTypeInv' /\ TransactionInv' /\ ControlInv'
<1>1. UsbTypeInv'
  BY DEF UsbInv, UsbTypeInv, TransferOK, BusOK, WordCount
<1>2. TransactionInv'
  BY DEF UsbInv, TransactionInv, WordCount
<1>3. IdleInv' = IdleInv /\ SetupInv' = SetupInv /\ DescriptorInv' = DescriptorInv
      /\ RefusalInv' = RefusalInv /\ StatusInInv' = StatusInInv /\ StatusOutInv' = StatusOutInv
  BY DEF IdleInv, SetupInv, DescriptorInv, RefusalInv, StatusInInv, StatusOutInv, SameAddress,
         SameConfig, Answering, Sent, Sending, GotLen, Asked
<1>4. ControlInv'
  BY <1>3 DEF UsbInv, ControlInv, TokensInv
<1> QED
  BY <1>1, <1>2, <1>4

\* The parts about transactions and transfers hold as long as what they speak of stays.
LEMMA SameControl ==
  ASSUME UsbInv, UNCHANGED <<core, ep0, bus>>, host'.ctl = host.ctl, host'.got = host.got,
         host'.ctl_bit = host.ctl_bit, host'.addr = host.addr, host'.config = host.config
  PROVE  TransactionInv' /\ ControlInv' /\ TransferOK' /\ BusOK'
<1>1. TransactionInv' /\ TransferOK' /\ BusOK'
  BY DEF UsbInv, UsbTypeInv, TransferOK, BusOK, TransactionInv, WordCount
<1>2. IdleInv' = IdleInv /\ SetupInv' = SetupInv /\ DescriptorInv' = DescriptorInv
      /\ RefusalInv' = RefusalInv /\ StatusInInv' = StatusInInv /\ StatusOutInv' = StatusOutInv
  BY DEF IdleInv, SetupInv, DescriptorInv, RefusalInv, StatusInInv, StatusOutInv, SameAddress,
         SameConfig, Answering, Sent, Sending, GotLen, Asked
<1>3. ControlInv'
  BY <1>2 DEF UsbInv, ControlInv, TokensInv
<1> QED
  BY <1>1, <1>3

\* The function reads a word: the first of the words that are due.
LEMMA ReadsKeeps ==
  ASSUME UsbInv, Reads
  PROVE  UsbInv'
<1>1. core' = core /\ ep0' = ep0 /\ rx1' = [words |-> Tail(rx1.words), tmp |-> rx1.tmp]
      /\ tx1' = [packets |-> tx1.packets \o <<>>, pos |-> tx1.pos]
  <2>1. UsbTypeInv /\ OutInv /\ InInv /\ ~DeviceWorks /\ DeviceCycle(Nothing, TRUE, <<>>)
        /\ <<>> \in Seq(Nat)
    BY EmptySeq DEF Reads, UsbInv
  <2> QED
    BY <2>1, QuietCycle
<1>2. UsbTypeInv' /\ TransactionInv' /\ ControlInv'
  BY <1>1, Unchanged DEF Reads
<1>3. InInv'
  <2>1. tx1.packets \o <<>> = tx1.packets
    BY ConcatEmptySeq DEF InInv, UsbInv
  <2>2. tx1' = tx1
    BY <1>1, <2>1 DEF UsbInv, InInv
  <2> QED
    BY <1>1, <2>2 DEF UsbInv, InInv, Reads, Sending, Sent
<1>4. OutInv'
  <2> DEFINE rest == IF host.bulk # <<>> /\ core.out_bit[1] = host.out_no % 2
                     THEN Copies(EP1_WORDS, host.out_no) ELSE <<>>
  <2>1. rest \in Seq(Nat)
    <3>1. host.out_no \in Nat /\ EP1_WORDS \in Nat
      BY UsbAssumption DEF UsbInv, UsbTypeInv
    <3> QED
      BY <3>1, CopiesGrow, EmptySeq
  <2>2. rx1.words \in Seq(Nat) /\ rx1.words # <<>> /\ out_due = rx1.words \o rest
    BY DEF UsbInv, OutInv, Reads
  <2>3. Tail(rx1.words) \in Seq(Nat) /\ out_due' = Tail(rx1.words) \o rest
        /\ Len(Tail(rx1.words)) = Len(rx1.words) - 1
    BY <2>1, <2>2, TailOfConcat DEF Reads
  <2>4. Len(rx1.words) \in Nat
    BY <2>2
  <2>5. (Receiving(1)' <=> Receiving(1)) /\ (Answering("out", 1)' <=> Answering("out", 1))
    BY <1>1 DEF Receiving, Answering, Reads
  <2>6. Receiving(1)' => Len(rx1.words)' <= EP1_WORDS
    <3>1. Receiving(1) => Len(rx1.words) <= EP1_WORDS
      BY DEF UsbInv, OutInv
    <3>2. Len(rx1.words)' = Len(rx1.words) - 1
      BY <1>1, <2>3
    <3> QED
      BY <2>4, <2>5, <3>1, <3>2, UsbAssumption
  <2> QED
    BY <1>1, <2>3, <2>5, <2>6 DEF UsbInv, OutInv, Reads
<1> QED
  BY <1>2, <1>3, <1>4 DEF UsbInv

\* The function writes a packet: one more that is due.
LEMMA WritesKeeps ==
  ASSUME UsbInv, Writes
  PROVE  UsbInv'
<1>1. PICK number \in Nat : /\ in_due' = Append(in_due, number)
                            /\ DeviceCycle(Nothing, FALSE, <<number>>)
  <2>1. host.in_no \in Nat
    BY UsbAssumption DEF UsbInv, UsbTypeInv
  <2>2. in_due \in Seq(Nat)
    BY DEF UsbInv, InInv, TransactionInv, Sent, Writes
  <2>3. Len(in_due) \in Nat
    BY <2>2
  <2>4. PICK n : n = Len(in_due)
    OBVIOUS
  <2>5. (host.in_no + n) % PACKET_NUMBERS \in Nat
    BY <2>1, <2>3, <2>4, UsbAssumption
  <2> QED
    BY <2>4, <2>5 DEF Writes
<1>2. core' = core /\ ep0' = ep0 /\ rx1' = [words |-> rx1.words, tmp |-> rx1.tmp]
      /\ tx1' = [packets |-> tx1.packets \o <<number>>, pos |-> tx1.pos]
  <2>1. UsbTypeInv /\ OutInv /\ InInv /\ ~DeviceWorks /\ <<number>> \in Seq(Nat)
    BY DEF Writes, UsbInv
  <2> QED
    BY <1>1, <2>1, QuietCycle
<1>3. UsbTypeInv' /\ TransactionInv' /\ ControlInv'
  BY <1>2, Unchanged DEF Writes
<1>4. rx1' = rx1
  BY <1>2 DEF UsbInv, OutInv
<1>5. OutInv'
  BY <1>2, <1>4 DEF UsbInv, OutInv, Writes, Receiving, Answering
<1>6. InInv'
  <2>1. ~Sent(1) /\ ~Sending(1) /\ ~Sent(1)' /\ ~Sending(1)'
    BY <1>2 DEF Writes, UsbInv, TransactionInv, Sent, Sending
  <2>2. in_due = tx1.packets /\ tx1.packets \in Seq(Nat)
    BY <2>1 DEF UsbInv, InInv
  <2>3. in_due' = tx1'.packets /\ tx1'.packets \in Seq(Nat)
    BY <1>1, <1>2, <2>2
  <2> QED
    BY <1>2, <2>1, <2>3 DEF Writes, UsbInv, InInv
<1> QED
  BY <1>3, <1>5, <1>6 DEF UsbInv

\* A request begins with both sides idle.
LEMMA StartsTransferKeeps ==
  ASSUME UsbInv, NEW c \in Transfers, StartsTransfer(c)
  PROVE  UsbInv'
<1>1. /\ bus = NoTransaction /\ core.st \notin {"TX_DATA", "TX_DATA_COMPLETE", "TX_HANDSHAKE"}
      /\ host.ctl = NoTransfer
  BY DEF StartsTransfer, HostIdle, DeviceWorks
<1>2. host' = [host EXCEPT !.ctl = c]
      /\ UNCHANGED <<core, ep0, rx1, tx1, bus, out_due, in_due, losses>>
  BY DEF StartsTransfer
<1>3. c.phase = "setup" /\ c = [phase |-> "setup", kind |-> c.kind, value |-> c.value]
  BY DEF Transfers
<1>4. host' = [addr |-> host.addr, config |-> host.config, ctl |-> c, got |-> host.got,
               ctl_bit |-> host.ctl_bit, bulk |-> host.bulk, out_no |-> host.out_no,
               in_no |-> host.in_no]
  BY <1>2 DEF UsbInv, UsbTypeInv
<1>5. UsbTypeInv'
  <2>1. TransferOK'
    BY <1>3, <1>4 DEF TransferOK
  <2>2. BusOK'
    BY <1>2 DEF UsbInv, UsbTypeInv, BusOK, WordCount
  <2> QED
    BY <1>2, <1>4, <2>1, <2>2 DEF UsbInv, UsbTypeInv
<1>6. TransactionInv'
  BY <1>2 DEF UsbInv, TransactionInv, WordCount
<1>7. OutInv' /\ InInv'
  BY <1>2, <1>4 DEF UsbInv, OutInv, InInv, Receiving, Answering, Sending, Sent
<1>8. ControlInv'
  <2>1. IdleInv
    BY <1>1 DEF UsbInv, ControlInv, NoTransfer
  <2>2. SetupInv'
    BY <1>1, <1>2, <1>4, <2>1 DEF IdleInv, SetupInv, SameAddress, SameConfig, Answering,
       NoTransaction
  <2> QED
    BY <1>1, <1>2, <1>3, <1>4, <2>2 DEF ControlInv, TokensInv
<1> QED
  BY <1>5, <1>6, <1>7, <1>8 DEF UsbInv

\* The words of a new packet are due after those in the FIFO.
LEMMA StartsBulkOutKeeps ==
  ASSUME UsbInv, StartsBulkOut
  PROVE  UsbInv'
<1>1. bus = NoTransaction /\ host.bulk = <<>>
  BY DEF StartsBulkOut, HostIdle
<1>2. /\ UNCHANGED <<core, ep0, rx1, tx1, bus, in_due, losses>>
      /\ host' = [addr |-> host.addr, config |-> host.config, ctl |-> host.ctl, got |-> host.got,
                  ctl_bit |-> host.ctl_bit, bulk |-> <<host.out_no>>, out_no |-> host.out_no,
                  in_no |-> host.in_no]
      /\ out_due' = out_due \o Copies(EP1_WORDS, host.out_no)
  BY DEF StartsBulkOut, UsbInv, UsbTypeInv, Copies
<1>3. TransactionInv' /\ ControlInv' /\ TransferOK' /\ BusOK'
  BY <1>2, SameControl
<1>4. UsbTypeInv'
  BY <1>2, <1>3 DEF UsbInv, UsbTypeInv
<1>5. InInv'
  BY <1>2 DEF UsbInv, InInv, Sending, Sent
<1>6. OutInv'
  <2>1. out_due = rx1.words
    BY <1>1, ConcatEmptySeq DEF UsbInv, OutInv
  <2> QED
    BY <1>1, <1>2, <2>1 DEF UsbInv, OutInv, Receiving, Answering, NoTransaction
<1> QED
  BY <1>3, <1>4, <1>5, <1>6 DEF UsbInv

\* The host gives up a transaction to which no answer will come.
LEMMA TimesOutKeeps ==
  ASSUME UsbInv, TimesOut
  PROVE  UsbInv'
<1>1. /\ bus' = NoTransaction /\ bus # NoTransaction
      /\ core.st \notin {"TX_DATA", "TX_DATA_COMPLETE", "TX_HANDSHAKE"} /\ ep0.stage # "SETUP"
      /\ bus.kind = "out" => bus.sent > WordCount
      /\ UNCHANGED <<core, ep0, rx1, tx1, host, out_due, in_due, losses>>
  BY DEF TimesOut
<1>2. (bus.kind = "in" \/ bus.kind = "out") /\ core.st \in CoreStates
  BY <1>1 DEF UsbInv, UsbTypeInv, BusOK
<1>3. bus.kind = "out" => core.st = "RX_IDLE"
  <2>1. WordCount \in Nat
    BY UsbAssumption DEF WordCount
  <2>2. bus.kind = "out" => bus.sent \in Nat
    BY <1>1, <2>1 DEF UsbInv, UsbTypeInv, BusOK
  <2> QED
    BY <1>1, <1>2, <2>1, <2>2 DEF UsbInv, TransactionInv, CoreStates
<1>4. bus.kind = "in" => core.st \in {"RX_DATA_IGNORE", "RX_DATA_IGNORE_NO_RESP"}
  BY <1>1, <1>2 DEF UsbInv, TransactionInv, CoreStates
<1>5. UsbTypeInv'
  BY <1>1 DEF UsbInv, UsbTypeInv, TransferOK, BusOK
<1>6. TransactionInv'
  BY <1>1, <1>2, <1>3, <1>4 DEF UsbInv, TransactionInv, NoTransaction
<1>7. OutInv'
  BY <1>1, <1>2, <1>3, <1>4 DEF UsbInv, OutInv, Receiving, Answering, NoTransaction
<1>8. InInv'
  BY <1>1, <1>2, <1>3, <1>4 DEF UsbInv, InInv, Sending, Sent, NoTransaction
<1>9. ControlInv'
  <2>1. /\ ~Answering("out", 0) /\ ~Answering("out", 0)' /\ ~Sending(0) /\ ~Sending(0)'
        /\ ~Sent(0) /\ ~Sent(0)'
    BY <1>1 DEF Answering, Sending, Sent
  <2>2. /\ (IdleInv => IdleInv') /\ (SetupInv => SetupInv')
        /\ (DescriptorInv => DescriptorInv') /\ (RefusalInv => RefusalInv')
        /\ (StatusInInv => StatusInInv') /\ (StatusOutInv => StatusOutInv')
    <3>1. (IdleInv => IdleInv') /\ (RefusalInv => RefusalInv')
      BY <1>1, <2>1 DEF IdleInv, RefusalInv, SameAddress, SameConfig
    <3>2. SetupInv => SetupInv'
      BY <1>1, <2>1 DEF SetupInv, SameAddress, SameConfig, NoTransaction
    <3>3. DescriptorInv => DescriptorInv'
      BY <1>1, <2>1 DEF DescriptorInv, SameAddress, SameConfig, GotLen, Asked
    <3>4. StatusInInv => StatusInInv'
      BY <1>1, <2>1 DEF StatusInInv, SameAddress, SameConfig
    <3>5. StatusOutInv => StatusOutInv'
      BY <1>1, <2>1 DEF StatusOutInv, SameAddress, SameConfig, Asked
    <3> QED
      BY <3>1, <3>2, <3>3, <3>4, <3>5
  <2> QED
    <3>1. host' = host /\ ControlInv
      BY <1>1 DEF UsbInv
    <3>2. TokensInv'
      BY <1>1 DEF TokensInv
    <3> QED
      BY <2>2, <3>1, <3>2 DEF ControlInv

<1> QED
  BY <1>5, <1>6, <1>7, <1>8, <1>9 DEF UsbInv

---------------------------------------------------------------------------
(* The token of a transaction *)

\* The remainder of a number below twice the modulus.
LEMMA ModuloOnce ==
  ASSUME NEW m \in Nat \ {0}, NEW x \in 0 .. 2 * m - 1
  PROVE  x % m = IF x >= m THEN x - m ELSE x
<1>1. CASE x < m
  BY <1>1
<1>2. CASE x >= m
  <2>1. x = 1 * m + (x - m) /\ x - m \in 0 .. m - 1
    BY <1>2
  <2> QED BY <1>2, <2>1
<1> QED BY <1>1, <1>2

\* What the host sends, and the data bit with it, goes with what it waits for.
LEMMA TokensFit ==
  ASSUME UsbInv, UsedAsMeant, NEW t \in Transactions
  PROVE  /\ t = [kind |-> t.kind, ep |-> t.ep, bit |-> t.bit]
         /\ t.kind \in {"TOKEN_SETUP", "TOKEN_OUT", "TOKEN_IN"}
         /\ t.ep \in Endpoints /\ t.bit \in {0, 1}
         /\ t.kind = "TOKEN_SETUP" => t.ep = 0 /\ host.ctl.phase = "setup" /\ t.bit = 0
         /\ t.kind = "TOKEN_OUT" /\ t.ep = 0 => host.ctl.phase = "status_out" /\ t.bit = 1
         /\ t.kind = "TOKEN_IN" /\ t.ep = 0 =>
               \/ host.ctl.phase = "data" /\ t.bit = host.ctl_bit
               \/ host.ctl.phase = "status_in" /\ t.bit = 1
         /\ t.ep = 1 => ~ep0.stall
         /\ t.ep = 1 /\ t.kind = "TOKEN_OUT" => t.bit = host.out_no % 2 /\ host.bulk # <<>>
         /\ t.ep = 1 /\ t.kind = "TOKEN_IN" => t.bit = host.in_no % 2
<1>1. host.out_no % 2 \in {0, 1} /\ host.in_no % 2 \in {0, 1} /\ host.ctl_bit \in {0, 1}
  BY Numbering DEF UsbInv, UsbTypeInv
<1>2. \/ t = [kind |-> "TOKEN_SETUP", ep |-> 0, bit |-> 0] /\ host.ctl.phase = "setup"
      \/ t = [kind |-> "TOKEN_IN", ep |-> 0, bit |-> host.ctl_bit] /\ host.ctl.phase = "data"
      \/ t = [kind |-> "TOKEN_IN", ep |-> 0, bit |-> 1] /\ host.ctl.phase = "status_in"
      \/ t = [kind |-> "TOKEN_OUT", ep |-> 0, bit |-> 1] /\ host.ctl.phase = "status_out"
      \/ t = [kind |-> "TOKEN_OUT", ep |-> 1, bit |-> host.out_no % 2] /\ host.bulk # <<>> /\ ~ep0.stall
      \/ t = [kind |-> "TOKEN_IN", ep |-> 1, bit |-> host.in_no % 2] /\ ~ep0.stall
  <2>1. host.ctl.phase \in {"none", "setup", "data", "status_in", "status_out"}
    BY DEF UsbInv, UsbTypeInv, TransferOK, NoTransfer
  <2> QED
    BY <2>1 DEF Transactions, UsedAsMeant
<1> QED
  BY <1>1, <1>2 DEF Endpoints

\* What a token makes of each state the device may be in.
LEMMA TokenCycle ==
  ASSUME UsbInv, ~DeviceWorks, bus = NoTransaction, NEW pid \in {"TOKEN_SETUP", "TOKEN_OUT", "TOKEN_IN"},
         NEW e \in Endpoints, DeviceCycle(Header(pid, e), FALSE, <<>>)
  PROVE  /\ core'.endp = e /\ ep0' = ep0 /\ rx1' = rx1 /\ tx1' = tx1
         /\ core.st = "RX_IDLE" /\ pid = "TOKEN_IN" =>
               IF IF e = 0 THEN ep0.stage \in {"DATA_GET", "STATUS_IN"} ELSE tx1.packets # <<>>
               THEN IF ep0.stall THEN core'.st = "TX_HANDSHAKE" /\ core'.tx_pid = "HS_STALL"
                    ELSE core'.st = "TX_DATA" /\ core'.tx_pid = Data(core.in_bit[e])
               ELSE core'.st = "TX_HANDSHAKE" /\ core'.tx_pid = "HS_NACK"
         /\ core.st = "RX_IDLE" /\ pid # "TOKEN_IN" =>
               /\ core'.st \in {"RX_DATA", "RX_DATA_IGNORE"} /\ core'.tx_pid = "HS_NACK"
               /\ e = 1 /\ core'.st = "RX_DATA" => Len(rx1.words) + Len(rx1.tmp) < RX_DEPTH
         /\ core.st # "RX_IDLE" =>
               /\ core'.st = IF core.st = "RX_DATA" THEN "RX_DATA_IGNORE_NO_RESP" ELSE core.st
               /\ core'.tx_pid = core.tx_pid
         /\ IF core.st = "RX_IDLE" /\ pid = "TOKEN_SETUP"
            THEN /\ core'.out_bit = [core.out_bit EXCEPT ![e] = 0]
                 /\ core'.in_bit = [core.in_bit EXCEPT ![e] = 1]
            ELSE core'.out_bit = core.out_bit /\ core'.in_bit = core.in_bit
<1> DEFINE h == Header(pid, e)
<1>1. /\ core'.st = NextCoreSt(h) /\ core'.tx_pid = NextTxPid(h) /\ core'.endp = e
      /\ core'.out_bit = IF IsSetup(h) THEN [core.out_bit EXCEPT ![e] = 0] ELSE core.out_bit
      /\ core'.in_bit = IF IsSetup(h) THEN [core.in_bit EXCEPT ![e] = 1] ELSE core.in_bit
      /\ ep0' = ep0 /\ rx1' = rx1 /\ tx1' = tx1
  BY HeaderCycle DEF UsbInv
<1>2. h.what = "header" /\ h.pid = pid /\ h.endp = e /\ IsHeader(h) /\ ~LastWord(h)
  BY DEF Header, IsHeader, LastWord
<1>3. IsSetup(h) <=> core.st = "RX_IDLE" /\ pid = "TOKEN_SETUP"
  BY <1>2 DEF IsSetup
<1>4. OutPidError(h)
  BY <1>2 DEF OutPidError, Data
<1>5. EpTxValid(h) <=> IF e = 0 THEN ep0.stage \in {"DATA_GET", "STATUS_IN"} ELSE tx1.packets # <<>>
  BY <1>2 DEF EpTxValid, Endp
<1>6. e = 1 /\ EpRxReady(h) => Len(rx1.words) + Len(rx1.tmp) < RX_DEPTH
  <2>1. Endp(h) = e
    BY <1>2 DEF Endp
  <2> SUFFICES ASSUME e = 1, EpRxReady(h)  PROVE  Len(rx1.words) + Len(rx1.tmp) < RX_DEPTH
    OBVIOUS
  <2>2. Endp(h) # 0
    BY <2>1
  <2> QED
    BY <2>2, Zenon DEF EpRxReady
<1>7. EpTxStall(h) <=> EpTxValid(h) /\ ep0.stall
  BY DEF EpTxStall
<1> HIDE DEF h
<1>8. core.st \in {"RX_IDLE", "RX_DATA", "RX_DATA_IGNORE", "RX_DATA_IGNORE_NO_RESP"}
  BY DEF UsbInv, UsbTypeInv, CoreStates, DeviceWorks
<1>9. core.st = "RX_IDLE" /\ pid = "TOKEN_IN" =>
        IF EpTxValid(h)
        THEN IF ep0.stall THEN core'.st = "TX_HANDSHAKE" /\ core'.tx_pid = "HS_STALL"
             ELSE core'.st = "TX_DATA" /\ core'.tx_pid = Data(core.in_bit[e])
        ELSE core'.st = "TX_HANDSHAKE" /\ core'.tx_pid = "HS_NACK"
  BY <1>1, <1>2, <1>7 DEF NextCoreSt, NextTxPid
<1>10. core.st = "RX_IDLE" /\ pid # "TOKEN_IN" =>
         /\ core'.st = IF EpRxReady(h) THEN "RX_DATA" ELSE "RX_DATA_IGNORE"
         /\ core'.tx_pid = "HS_NACK"
  BY <1>1, <1>2 DEF NextCoreSt, NextTxPid
<1>11. core.st # "RX_IDLE" =>
         /\ core'.st = IF core.st = "RX_DATA" THEN "RX_DATA_IGNORE_NO_RESP" ELSE core.st
         /\ core'.tx_pid = core.tx_pid
  BY <1>1, <1>2, <1>4, <1>8 DEF NextCoreSt, NextTxPid
<1> QED
  BY <1>1, <1>3, <1>5, <1>6, <1>9, <1>10, <1>11

\* A token that does not arrive.
LEMMA LostTokenKeeps ==
  ASSUME UsbInv, UsedAsMeant, NEW t \in Transactions, SendsToken(t, TRUE)
  PROVE  UsbInv'
<1>1. /\ bus = NoTransaction /\ ~DeviceWorks /\ "token" \in Losses
      /\ bus' = IF t.kind = "TOKEN_IN" THEN NoTransaction ELSE [kind |-> "out", t |-> t, sent |-> 0]
      /\ DeviceCycle(Nothing, FALSE, <<>>) /\ UNCHANGED <<host, out_due, in_due>>
  BY DEF SendsToken, HostIdle, Lose
<1>2. core' = core /\ ep0' = ep0 /\ rx1' = rx1 /\ tx1' = tx1
  <2>1. core' = core /\ ep0' = ep0 /\ rx1' = [words |-> rx1.words, tmp |-> rx1.tmp]
        /\ tx1' = [packets |-> tx1.packets \o <<>>, pos |-> tx1.pos]
    BY <1>1, QuietCycle, EmptySeq DEF UsbInv
  <2>2. tx1.packets \o <<>> = tx1.packets
    BY ConcatEmptySeq DEF InInv, UsbInv
  <2> QED
    BY <2>1, <2>2 DEF UsbInv, OutInv, InInv
<1>3. CASE t.kind = "TOKEN_IN"
  <2>1. bus' = bus
    BY <1>1, <1>3
  <2>2. UsbTypeInv' /\ TransactionInv' /\ ControlInv'
    BY <1>1, <1>2, <2>1, Unchanged
  <2>3. OutInv' /\ InInv'
    BY <1>1, <1>2, <2>1 DEF UsbInv, OutInv, InInv, Receiving, Answering, Sending, Sent
  <2> QED
    BY <2>2, <2>3 DEF UsbInv
<1>4. CASE t.kind # "TOKEN_IN"
  <2>1. bus' = [kind |-> "out", t |-> t, sent |-> 0]
    BY <1>1, <1>4
  <2>2. core.st = "RX_IDLE"
    BY <1>1 DEF UsbInv, TransactionInv
  <2>3. /\ t = [kind |-> t.kind, ep |-> t.ep, bit |-> t.bit]
        /\ t.kind \in {"TOKEN_SETUP", "TOKEN_OUT"} /\ t.ep \in Endpoints /\ t.bit \in {0, 1}
        /\ t.kind = "TOKEN_SETUP" => t.ep = 0 /\ host.ctl.phase = "setup" /\ t.bit = 0
        /\ t.kind = "TOKEN_OUT" /\ t.ep = 0 => host.ctl.phase = "status_out" /\ t.bit = 1
        /\ t.ep = 1 => ~ep0.stall
        /\ t.ep = 1 /\ t.kind = "TOKEN_OUT" => t.bit = host.out_no % 2 /\ host.bulk # <<>>
    BY <1>4, TokensFit
  <2>4. WordCount' \in Nat
    BY UsbAssumption DEF WordCount
  <2>5. BusOK'
    BY <2>1, <2>3, <2>4 DEF BusOK
  <2>6. UsbTypeInv'
    BY <1>1, <1>2, <2>5 DEF UsbInv, UsbTypeInv, TransferOK
  <2>7. TransactionInv'
    BY <1>2, <2>1, <2>2, <2>3 DEF TransactionInv, NoTransaction
  <2>8. OutInv' /\ InInv'
    BY <1>1, <1>2, <2>1, <2>2, <2>3 DEF UsbInv, OutInv, InInv, Receiving, Answering, Sending, Sent
  <2>9. ControlInv'
    <3>1. host' = host /\ ControlInv
      BY <1>1 DEF UsbInv
    <3>2. (IdleInv => IdleInv') /\ (RefusalInv => RefusalInv')
      BY <1>1, <1>2, <2>2 DEF IdleInv, RefusalInv, SameAddress, SameConfig, Sending, Sent
    <3>3. SetupInv => SetupInv'
      BY <1>1, <1>2, <2>2 DEF SetupInv, SameAddress, SameConfig, Answering
    <3>4. DescriptorInv => DescriptorInv'
      BY <1>1, <1>2, <2>2 DEF DescriptorInv, SameAddress, SameConfig, GotLen, Asked, Sending, Sent
    <3>5. StatusInInv => StatusInInv'
      BY <1>1, <1>2, <2>2 DEF StatusInInv, SameAddress, SameConfig, Sending, Sent
    <3>6. StatusOutInv => StatusOutInv'
      BY <1>1, <1>2, <2>2 DEF StatusOutInv, SameAddress, SameConfig, Asked, Answering
    <3>7. TokensInv'
      BY <2>1, <2>3, <3>1 DEF TokensInv
    <3> QED
      BY <3>1, <3>2, <3>3, <3>4, <3>5, <3>6, <3>7 DEF ControlInv
  <2> QED
    BY <2>6, <2>7, <2>8, <2>9 DEF UsbInv
<1> QED
  BY <1>3, <1>4

\* A token that arrives: an endpoint answers, sends, takes the packet or ignores it.
LEMMA TokenKeeps ==
  ASSUME UsbInv, UsedAsMeant, NEW t \in Transactions, SendsToken(t, FALSE)
  PROVE  UsbInv'
<1> DEFINE isIn == t.kind = "TOKEN_IN"
<1>1. /\ bus = NoTransaction /\ ~DeviceWorks
      /\ bus' = IF isIn THEN [kind |-> "in", t |-> t, pid |-> "none", words |-> <<>>]
                ELSE [kind |-> "out", t |-> t, sent |-> 0]
      /\ DeviceCycle(Header(t.kind, t.ep), FALSE, <<>>) /\ UNCHANGED <<host, out_due, in_due>>
      /\ t.ep = 1 /\ t.kind = "TOKEN_OUT" => Len(rx1.words) % EP1_WORDS = 0
  BY DEF SendsToken, HostIdle, UsedAsMeant
<1>2. /\ t = [kind |-> t.kind, ep |-> t.ep, bit |-> t.bit]
      /\ t.kind \in {"TOKEN_SETUP", "TOKEN_OUT", "TOKEN_IN"}
      /\ t.ep \in Endpoints /\ t.bit \in {0, 1}
      /\ t.kind = "TOKEN_SETUP" => t.ep = 0 /\ host.ctl.phase = "setup" /\ t.bit = 0
      /\ t.kind = "TOKEN_OUT" /\ t.ep = 0 => host.ctl.phase = "status_out" /\ t.bit = 1
      /\ t.kind = "TOKEN_IN" /\ t.ep = 0 =>
            \/ host.ctl.phase = "data" /\ t.bit = host.ctl_bit
            \/ host.ctl.phase = "status_in" /\ t.bit = 1
      /\ t.ep = 1 => ~ep0.stall
      /\ t.ep = 1 /\ t.kind = "TOKEN_OUT" => t.bit = host.out_no % 2 /\ host.bulk # <<>>
      /\ t.ep = 1 /\ t.kind = "TOKEN_IN" => t.bit = host.in_no % 2
  BY TokensFit
<1>3. /\ core'.endp = t.ep /\ ep0' = ep0 /\ rx1' = rx1 /\ tx1' = tx1
      /\ core.st = "RX_IDLE" /\ isIn =>
            IF IF t.ep = 0 THEN ep0.stage \in {"DATA_GET", "STATUS_IN"} ELSE tx1.packets # <<>>
            THEN IF ep0.stall THEN core'.st = "TX_HANDSHAKE" /\ core'.tx_pid = "HS_STALL"
                 ELSE core'.st = "TX_DATA" /\ core'.tx_pid = Data(core.in_bit[t.ep])
            ELSE core'.st = "TX_HANDSHAKE" /\ core'.tx_pid = "HS_NACK"
      /\ core.st = "RX_IDLE" /\ ~isIn =>
            /\ core'.st \in {"RX_DATA", "RX_DATA_IGNORE"} /\ core'.tx_pid = "HS_NACK"
            /\ t.ep = 1 /\ core'.st = "RX_DATA" => Len(rx1.words) + Len(rx1.tmp) < RX_DEPTH
      /\ core.st # "RX_IDLE" =>
            /\ core'.st = IF core.st = "RX_DATA" THEN "RX_DATA_IGNORE_NO_RESP" ELSE core.st
            /\ core'.tx_pid = core.tx_pid
      /\ IF core.st = "RX_IDLE" /\ t.kind = "TOKEN_SETUP"
         THEN /\ core'.out_bit = [core.out_bit EXCEPT ![t.ep] = 0]
              /\ core'.in_bit = [core.in_bit EXCEPT ![t.ep] = 1]
         ELSE core'.out_bit = core.out_bit /\ core'.in_bit = core.in_bit
  BY <1>1, <1>2, TokenCycle
<1>4. /\ core.st \in {"RX_IDLE", "RX_DATA", "RX_DATA_IGNORE", "RX_DATA_IGNORE_NO_RESP"}
      /\ core.in_bit \in [Endpoints -> {0, 1}] /\ core.out_bit \in [Endpoints -> {0, 1}]
      /\ ep0.stall \in BOOLEAN
  BY <1>1 DEF UsbInv, UsbTypeInv, CoreStates, DeviceWorks
<1>5. core'.out_bit[1] = core.out_bit[1] /\ core'.in_bit[1] = core.in_bit[1]
      /\ core'.out_bit \in [Endpoints -> {0, 1}] /\ core'.in_bit \in [Endpoints -> {0, 1}]
      /\ (t.kind = "TOKEN_SETUP" /\ core.st = "RX_IDLE" => core'.in_bit[0] = 1)
      /\ (t.kind # "TOKEN_SETUP" => core'.in_bit[0] = core.in_bit[0])
  BY <1>2, <1>3, <1>4 DEF Endpoints
<1>6. /\ core'.st \in CoreStates /\ core'.st \notin {"RX_IDLE", "TX_DATA_COMPLETE"}
      /\ core'.st \in {"TX_DATA", "TX_HANDSHAKE"} => isIn /\ core.st = "RX_IDLE"
      /\ core'.st = "RX_DATA" => ~isIn /\ core.st = "RX_IDLE" /\ core'.tx_pid = "HS_NACK"
      /\ core'.st = "TX_DATA" => /\ ~ep0.stall /\ core'.tx_pid = Data(core.in_bit[t.ep])
                                 /\ t.ep = 1 => tx1.packets # <<>>
  <2>1. CASE core.st = "RX_IDLE" /\ isIn
    BY <1>3, <1>4, <2>1 DEF CoreStates
  <2>2. CASE core.st = "RX_IDLE" /\ ~isIn
    BY <1>3, <1>4, <2>2 DEF CoreStates
  <2>3. CASE core.st # "RX_IDLE"
    BY <1>3, <1>4, <2>3 DEF CoreStates
  <2> QED
    BY <2>1, <2>2, <2>3
<1>7. UsbTypeInv'
  <2>1. WordCount' \in Nat
    BY UsbAssumption DEF WordCount
  <2>2. BusOK'
    BY <1>1, <1>2, <2>1, EmptySeq DEF BusOK
  <2>3. core' = [st |-> core'.st, tx_pid |-> core'.tx_pid, out_bit |-> core'.out_bit,
                 in_bit |-> core'.in_bit, endp |-> core'.endp]
    BY <1>1 DEF DeviceCycle, CoreCycle
  <2> QED
    BY <1>1, <1>2, <1>3, <1>5, <1>6, <2>2, <2>3 DEF UsbInv, UsbTypeInv, TransferOK
<1>8. TransactionInv'
  <2>1. isIn /\ core'.st = "TX_HANDSHAKE" =>
          IF t.ep = 1 THEN core'.tx_pid = "HS_NACK" ELSE core'.tx_pid = "HS_STALL" /\ ep0'.stall
    <3>1. isIn /\ t.ep = 0 => ep0.stage \in {"DATA_GET", "STATUS_IN"}
      BY <1>1, <1>2 DEF UsbInv, TransactionInv, ControlInv, RefusalInv, DescriptorInv, StatusInInv, Sent
    <3> QED
      BY <1>2, <1>3, <1>4, <1>6, <3>1 DEF Endpoints
  <2>2. WordCount' \in Nat
    BY UsbAssumption DEF WordCount
  <2>3. bus'.t = t /\ (bus'.kind = "in" <=> isIn) /\ (bus'.kind = "out" <=> ~isIn)
        /\ (~isIn => bus'.sent = 0) /\ bus' # NoTransaction
    BY <1>1 DEF NoTransaction
  <2>4. core'.st = "RX_DATA_IGNORE" => core'.tx_pid = "HS_NACK"
    BY <1>3, <1>4 DEF UsbInv, TransactionInv
  <2>5. "token" \in Losses => core.st = "RX_IDLE"
    BY <1>1 DEF UsbInv, TransactionInv
  <2>6. isIn /\ core.st = "RX_IDLE" => core'.st \in {"TX_DATA", "TX_HANDSHAKE"}
    BY <1>3, <1>4
  <2> QED
    BY <1>2, <1>3, <1>6, <2>1, <2>2, <2>3, <2>4, <2>5, <2>6 DEF TransactionInv
<1>9. OutInv'
  <2>1. ~Receiving(1) /\ rx1.tmp = <<>>
    BY <1>1 DEF UsbInv, OutInv, Receiving, NoTransaction
  <2>2. Receiving(1)' => Len(rx1.words) <= EP1_WORDS
    <3> SUFFICES ASSUME Receiving(1)'  PROVE  Len(rx1.words) <= EP1_WORDS
      OBVIOUS
    <3>1. t.ep = 1 /\ t.kind = "TOKEN_OUT" /\ core'.st = "RX_DATA"
      BY <1>1, <1>2, <1>3 DEF Receiving
    <3>2. PICK n \in Nat : n = Len(rx1.words)
      BY DEF UsbInv, OutInv
    <3>3. n + Len(rx1.tmp) < RX_DEPTH
      BY <1>3, <1>6, <3>1, <3>2
    <3>4. n < 2 * EP1_WORDS
      BY <2>1, <3>3, UsbAssumption DEF RX_DEPTH
    <3>5. n % EP1_WORDS = 0
      BY <1>1, <3>1, <3>2
    <3>6. n >= EP1_WORDS => n - EP1_WORDS = 0
      BY <3>4, <3>5, ModuloOnce, UsbAssumption
    <3> QED
      BY <3>2, <3>6, UsbAssumption
  <2>3. ~Answering("out", 1)'
    BY <1>1, <1>6 DEF Answering
  <2>4. Receiving(1)' => bus'.sent = 0
    BY <1>1 DEF Receiving
  <2>5. bus'.kind = "out" => bus'.t = t /\ t.kind \in {"TOKEN_SETUP", "TOKEN_OUT"}
    BY <1>1, <1>2
  <2> QED
    BY <1>1, <1>2, <1>3, <1>5, <2>1, <2>2, <2>3, <2>4, <2>5 DEF UsbInv, OutInv
<1>10. InInv'
  <2>1. ~Sent(1) /\ ~Sending(1) /\ ~Sent(1)'
    BY <1>1, <1>6 DEF Sent, Sending, DeviceWorks
  <2>2. in_due = tx1.packets /\ core.in_bit[1] = host.in_no % 2 /\ tx1.pos = 1
    BY <2>1 DEF UsbInv, InInv
  <2>3. Sending(1)' => /\ tx1.packets # <<>> /\ core'.tx_pid = Data(host.in_no % 2)
                       /\ bus'.words = Copies(0, Head(tx1.packets))
    <3> SUFFICES ASSUME Sending(1)'  
                 PROVE  /\ tx1.packets # <<>> /\ core'.tx_pid = Data(host.in_no % 2)
                        /\ bus'.words = Copies(0, Head(tx1.packets))
      OBVIOUS
    <3>1. core'.st = "TX_DATA" /\ t.ep = 1 /\ isIn
      BY <1>3, <1>6 DEF Sending
    <3> QED
      BY <1>1, <1>6, <2>2, <3>1, NoCopies
  <2>4. bus'.kind = "in" => bus'.t = t /\ isIn
    BY <1>1
  <2>5. tx1.pos - 1 = 0
    BY <2>2
  <2> QED
    BY <1>1, <1>2, <1>3, <1>5, <2>1, <2>2, <2>3, <2>4, <2>5 DEF UsbInv, InInv
<1>11. ControlInv'
  <2>1. host' = host /\ ControlInv /\ bus'.t = t
    BY <1>1 DEF UsbInv
  <2>2. TokensInv'
    BY <1>1, <1>2 DEF TokensInv
  <2>3. /\ ~Sent(0) /\ ~Sending(0) /\ ~Sent(0)' /\ ~Answering("out", 0) /\ ~Answering("out", 0)'
        /\ (Sending(0)' => isIn /\ t.ep = 0 /\ ~ep0.stall /\ core'.tx_pid = Data(core.in_bit[0])
                           /\ bus'.words = <<>>)
    BY <1>1, <1>3, <1>6 DEF Sent, Sending, Answering, DeviceWorks
  <2>4. t.kind = "TOKEN_SETUP" => host.ctl.phase = "setup"
    BY <1>2
  <2>5. (IdleInv => IdleInv') /\ (RefusalInv => RefusalInv')
    BY <1>3, <2>1, <2>3 DEF IdleInv, RefusalInv, SameAddress, SameConfig
  <2>6. host.ctl.phase = "setup" /\ SetupInv => SetupInv'
    <3>1. core'.st = "RX_DATA" /\ t.ep = 0 /\ host.ctl.phase = "setup" => core'.in_bit[0] = 1
      BY <1>2, <1>5, <1>6
    <3> QED
      BY <1>3, <2>1, <2>3, <3>1 DEF SetupInv, SameAddress, SameConfig
  <2>7. host.ctl.phase # "setup" /\ DescriptorInv => DescriptorInv'
    <3>1. \A l : Words(l, 0) = <<>>
      BY DEF Words
    <3> QED
      BY <1>3, <1>5, <2>1, <2>3, <2>4, <3>1 DEF DescriptorInv, SameAddress, SameConfig, GotLen, Asked
  <2>8. host.ctl.phase # "setup" /\ StatusInInv => StatusInInv'
    BY <1>3, <1>5, <2>1, <2>3, <2>4 DEF StatusInInv, SameAddress, SameConfig
  <2>9. StatusOutInv => StatusOutInv'
    BY <1>3, <2>1, <2>3 DEF StatusOutInv, SameAddress, SameConfig, Asked
  <2> QED
    BY <2>1, <2>2, <2>5, <2>6, <2>7, <2>8, <2>9 DEF ControlInv
<1> QED
  BY <1>7, <1>8, <1>9, <1>10, <1>11 DEF UsbInv

---------------------------------------------------------------------------
(* The packet of a transaction *)

\* A request is looked at in the clock in which it is acknowledged.
LEMMA SetupIsAnswered ==
  ASSUME UsbInv, ep0.stage = "SETUP"
  PROVE  core.st = "TX_HANDSHAKE" /\ bus.kind = "out" /\ core.endp = 0 /\ core.tx_pid = "HS_ACK"
         /\ host.ctl.phase = "setup"
<1>1. host.ctl.phase \in {"none", "setup", "data", "status_in", "status_out"}
  BY DEF UsbInv, UsbTypeInv, TransferOK, NoTransfer
<1>2. host.ctl.phase = "setup"
  BY <1>1 DEF UsbInv, ControlInv, IdleInv, DescriptorInv, RefusalInv, StatusInInv, StatusOutInv
<1> QED
  BY <1>2 DEF UsbInv, ControlInv, SetupInv, Answering

\* While the host sends a packet the device does not work.
LEMMA PacketIsOpen ==
  ASSUME UsbInv, bus.kind = "out", bus.sent <= WordCount
  PROVE  /\ ~DeviceWorks /\ WordCount \in Nat \ {0} /\ bus.sent \in Nat
         /\ core.st \in {"RX_IDLE", "RX_DATA", "RX_DATA_IGNORE", "RX_DATA_IGNORE_NO_RESP"}
         /\ bus = [kind |-> "out", t |-> bus.t, sent |-> bus.sent] /\ bus # NoTransaction
         /\ bus.t = [kind |-> bus.t.kind, ep |-> bus.t.ep, bit |-> bus.t.bit]
         /\ bus.t.kind \in {"TOKEN_OUT", "TOKEN_SETUP"} /\ bus.t.ep \in Endpoints /\ bus.t.bit \in {0, 1}
<1>1. WordCount \in Nat \ {0}
  BY UsbAssumption DEF WordCount
<1>2. /\ bus = [kind |-> "out", t |-> bus.t, sent |-> bus.sent] /\ bus # NoTransaction
      /\ bus.t = [kind |-> bus.t.kind, ep |-> bus.t.ep, bit |-> bus.t.bit]
      /\ bus.t.kind \in {"TOKEN_OUT", "TOKEN_SETUP"} /\ bus.t.ep \in Endpoints /\ bus.t.bit \in {0, 1}
      /\ bus.sent \in Nat
  BY <1>1 DEF UsbInv, UsbTypeInv, BusOK, NoTransaction
<1>3. core.st # "TX_HANDSHAKE"
  BY <1>1, <1>2 DEF UsbInv, TransactionInv
<1>4. ep0.stage # "SETUP"
  BY <1>3, SetupIsAnswered
<1> QED
  BY <1>1, <1>2, <1>3, <1>4 DEF UsbInv, UsbTypeInv, TransactionInv, CoreStates, DeviceWorks

\* A packet that does not arrive leaves the device waiting for it.
LEMMA LostPacketKeeps ==
  ASSUME UsbInv, UsedAsMeant, NEW error, SendsData(TRUE, error)
  PROVE  UsbInv'
<1>1. /\ bus.kind = "out" /\ bus.sent = 0 /\ bus' = NoTransaction /\ "out_data" \in Losses
      /\ bus.sent <= WordCount
      /\ DeviceCycle(Nothing, FALSE, <<>>) /\ UNCHANGED <<host, out_due, in_due>>
  BY DEF SendsData, Lose
<1>2. /\ ~DeviceWorks
      /\ core.st \in {"RX_IDLE", "RX_DATA", "RX_DATA_IGNORE", "RX_DATA_IGNORE_NO_RESP"}
  BY <1>1, PacketIsOpen
<1>3. core' = core /\ ep0' = ep0 /\ rx1' = rx1 /\ tx1' = tx1
  <2>1. core' = core /\ ep0' = ep0 /\ rx1' = [words |-> rx1.words, tmp |-> rx1.tmp]
        /\ tx1' = [packets |-> tx1.packets \o <<>>, pos |-> tx1.pos]
    BY <1>1, <1>2, QuietCycle, EmptySeq DEF UsbInv
  <2>2. tx1.packets \o <<>> = tx1.packets
    BY ConcatEmptySeq DEF InInv, UsbInv
  <2> QED
    BY <2>1, <2>2 DEF UsbInv, OutInv, InInv
<1>4. UsbTypeInv'
  BY <1>1, <1>3 DEF UsbInv, UsbTypeInv, TransferOK, BusOK
<1>5. TransactionInv'
  BY <1>1, <1>2, <1>3 DEF UsbInv, TransactionInv, NoTransaction, UsedAsMeant
<1>6. OutInv' /\ InInv'
  BY <1>1, <1>2, <1>3 DEF UsbInv, OutInv, InInv, Receiving, Answering, Sending, Sent, NoTransaction
<1>7. ControlInv'
  <2>1. host' = host /\ ControlInv
    BY <1>1 DEF UsbInv
  <2>2. /\ ~Answering("out", 0) /\ ~Answering("out", 0)' /\ ~Sending(0) /\ ~Sending(0)'
        /\ ~Sent(0) /\ ~Sent(0)'
    BY <1>2, <1>3 DEF Answering, Sending, Sent
  <2>3. (IdleInv => IdleInv') /\ (RefusalInv => RefusalInv')
    BY <1>3, <2>1, <2>2 DEF IdleInv, RefusalInv, SameAddress, SameConfig
  <2>4. SetupInv => SetupInv'
    BY <1>1, <1>3, <2>1, <2>2 DEF SetupInv, SameAddress, SameConfig, NoTransaction
  <2>5. DescriptorInv => DescriptorInv'
    BY <1>3, <2>1, <2>2 DEF DescriptorInv, SameAddress, SameConfig, GotLen, Asked
  <2>6. (StatusInInv => StatusInInv') /\ (StatusOutInv => StatusOutInv')
    BY <1>3, <2>1, <2>2 DEF StatusInInv, StatusOutInv, SameAddress, SameConfig, Asked
  <2>7. TokensInv'
    BY <1>1 DEF TokensInv
  <2> QED
    BY <2>1, <2>3, <2>4, <2>5, <2>6, <2>7 DEF ControlInv
<1> QED
  BY <1>4, <1>5, <1>6, <1>7 DEF UsbInv

\* A header: with the data bit of the endpoint its words follow, otherwise they are ignored.
LEMMA HeaderKeeps ==
  ASSUME UsbInv, NEW error, SendsData(FALSE, error), bus.sent = 0
  PROVE  UsbInv'
<1>1. /\ bus.kind = "out" /\ bus.sent <= WordCount /\ bus' = [bus EXCEPT !.sent = @ + 1]
      /\ DeviceCycle(Header(Data(bus.t.bit), core.endp), FALSE, <<>>)
      /\ UNCHANGED <<host, out_due, in_due>>
  BY DEF SendsData
<1>2. /\ ~DeviceWorks /\ WordCount \in Nat \ {0} /\ bus # NoTransaction
      /\ core.st \in {"RX_IDLE", "RX_DATA", "RX_DATA_IGNORE", "RX_DATA_IGNORE_NO_RESP"}
      /\ bus = [kind |-> "out", t |-> bus.t, sent |-> bus.sent]
      /\ bus.t = [kind |-> bus.t.kind, ep |-> bus.t.ep, bit |-> bus.t.bit]
      /\ bus.t.kind \in {"TOKEN_OUT", "TOKEN_SETUP"} /\ bus.t.ep \in Endpoints /\ bus.t.bit \in {0, 1}
  BY <1>1, PacketIsOpen
<1>3. bus' = [kind |-> "out", t |-> bus.t, sent |-> 1] /\ WordCount' = WordCount
  BY <1>1, <1>2 DEF WordCount
<1>4. core.endp \in Endpoints /\ core.out_bit[core.endp] \in {0, 1}
  BY DEF UsbInv, UsbTypeInv
<1>5. /\ core'.st \in {core.st, "RX_DATA_IGNORE_NO_RESP"} /\ (core.st # "RX_DATA" => core'.st = core.st)
      /\ core'.st = "RX_DATA" => bus.t.bit = core.out_bit[core.endp]
      /\ core'.tx_pid = IF core.st = "RX_IDLE" THEN "HS_NACK" ELSE core.tx_pid
      /\ core'.endp = core.endp /\ core'.out_bit = core.out_bit /\ core'.in_bit = core.in_bit
      /\ ep0' = ep0 /\ rx1' = rx1 /\ tx1' = tx1
  <2> DEFINE h == Header(Data(bus.t.bit), core.endp)
  <2>1. /\ core'.st = NextCoreSt(h) /\ core'.tx_pid = NextTxPid(h) /\ core'.endp = core.endp
        /\ core'.out_bit = IF IsSetup(h) THEN [core.out_bit EXCEPT ![core.endp] = 0] ELSE core.out_bit
        /\ core'.in_bit = IF IsSetup(h) THEN [core.in_bit EXCEPT ![core.endp] = 1] ELSE core.in_bit
        /\ ep0' = ep0 /\ rx1' = rx1 /\ tx1' = tx1
    BY <1>1, <1>2, <1>4, HeaderCycle DEF UsbInv
  <2>2. /\ h.what = "header" /\ h.pid = Data(bus.t.bit) /\ h.endp = core.endp /\ IsHeader(h)
        /\ ~LastWord(h) /\ h.pid \in {"DATA_0", "DATA_1"}
    BY DEF Header, IsHeader, LastWord, Data
  <2>3. ~IsSetup(h)
    BY <2>2 DEF IsSetup
  <2>4. OutPidError(h) <=> bus.t.bit # core.out_bit[core.endp]
    BY <1>2, <1>4, <2>2 DEF OutPidError, Data
  <2> HIDE DEF h
  <2>5. core'.st = IF core.st = "RX_DATA" /\ OutPidError(h) THEN "RX_DATA_IGNORE_NO_RESP" ELSE core.st
    BY <1>2, <2>1, <2>2 DEF NextCoreSt
  <2>6. core'.tx_pid = IF core.st = "RX_IDLE" THEN "HS_NACK" ELSE core.tx_pid
    BY <1>2, <2>1, <2>2 DEF NextTxPid
  <2> QED
    BY <2>1, <2>3, <2>4, <2>5, <2>6
<1>6. UsbTypeInv'
  <2>1. core' = [st |-> core'.st, tx_pid |-> core'.tx_pid, out_bit |-> core'.out_bit,
                 in_bit |-> core'.in_bit, endp |-> core'.endp]
    BY <1>1 DEF DeviceCycle, CoreCycle
  <2>2. BusOK'
    BY <1>2, <1>3 DEF BusOK
  <2>3. core'.st \in CoreStates
    BY <1>2, <1>5 DEF CoreStates
  <2> QED
    BY <1>1, <1>5, <2>1, <2>2, <2>3 DEF UsbInv, UsbTypeInv, TransferOK
<1>7. TransactionInv'
  BY <1>2, <1>3, <1>5 DEF UsbInv, TransactionInv, NoTransaction
<1>8. OutInv'
  <2>1. rx1.tmp = <<>>
    BY DEF UsbInv, OutInv
  <2>2. Receiving(1)' => Receiving(1)
    BY <1>2, <1>3, <1>5 DEF Receiving
  <2>3. ~Answering("out", 1)'
    BY <1>2, <1>5 DEF Answering
  <2>4. bus'.sent - 1 = 0 /\ bus'.kind = "out" /\ bus'.t = bus.t
    BY <1>3
  <2> QED
    BY <1>1, <1>5, <2>1, <2>2, <2>3, <2>4, NoCopies DEF UsbInv, OutInv
<1>9. InInv'
  BY <1>1, <1>2, <1>3, <1>5 DEF UsbInv, InInv, Sending, Sent
<1>10. ControlInv'
  <2>1. host' = host /\ ControlInv /\ bus'.t = bus.t /\ bus'.kind = bus.kind
    BY <1>1, <1>2, <1>3 DEF UsbInv
  <2>2. /\ ~Answering("out", 0) /\ ~Answering("out", 0)' /\ ~Sending(0) /\ ~Sending(0)'
        /\ ~Sent(0) /\ ~Sent(0)'
    BY <1>2, <1>5 DEF Answering, Sending, Sent
  <2>3. (IdleInv => IdleInv') /\ (RefusalInv => RefusalInv')
    BY <1>5, <2>1, <2>2 DEF IdleInv, RefusalInv, SameAddress, SameConfig
  <2>4. SetupInv => SetupInv'
    BY <1>2, <1>5, <2>1, <2>2 DEF SetupInv, SameAddress, SameConfig
  <2>5. DescriptorInv => DescriptorInv'
    BY <1>5, <2>1, <2>2 DEF DescriptorInv, SameAddress, SameConfig, GotLen, Asked
  <2>6. (StatusInInv => StatusInInv') /\ (StatusOutInv => StatusOutInv')
    BY <1>5, <2>1, <2>2 DEF StatusInInv, StatusOutInv, SameAddress, SameConfig, Asked
  <2>7. TokensInv'
    BY <1>2, <2>1 DEF ControlInv, TokensInv
  <2> QED
    BY <2>1, <2>3, <2>4, <2>5, <2>6, <2>7 DEF ControlInv
<1> QED
  BY <1>6, <1>7, <1>8, <1>9, <1>10 DEF UsbInv

\* What a word of a packet does to the device while the packet is open.
LEMMA OpenWord ==
  ASSUME UsbInv, NEW error \in BOOLEAN, SendsData(FALSE, error), bus.sent # 0
  PROVE  /\ bus.sent \in 1 .. WordCount /\ WordCount' = WordCount /\ WordCount \in Nat \ {0}
         /\ bus' = [kind |-> "out", t |-> bus.t, sent |-> bus.sent + 1]
         /\ UNCHANGED <<host, out_due, in_due, tx1>>
         /\ error => bus.sent = WordCount /\ bus.t.ep = 1
         /\ core.st \in {"RX_IDLE", "RX_DATA", "RX_DATA_IGNORE", "RX_DATA_IGNORE_NO_RESP"}
         /\ core'.endp = core.endp /\ core'.in_bit = core.in_bit
         /\ IF bus.sent = WordCount
            THEN core'.st = IF error \/ core.st \notin {"RX_DATA", "RX_DATA_IGNORE"}
                            THEN "RX_IDLE" ELSE "TX_HANDSHAKE"
            ELSE core'.st = core.st
         /\ core'.tx_pid = IF core.st = "RX_DATA" /\ bus.sent = WordCount THEN "HS_ACK"
                           ELSE core.tx_pid
         /\ core'.out_bit = IF core.st = "RX_DATA" /\ bus.sent = WordCount /\ ~error
                            THEN [core.out_bit EXCEPT ![core.endp] = 1 - @] ELSE core.out_bit
         /\ ep0' = IF core.st = "RX_DATA" /\ core.endp = 0 /\ bus.sent = WordCount
                   THEN IF ep0.stage = "IDLE" THEN [ep0 EXCEPT !.stage = "SETUP", !.req = WordOf]
                        ELSE IF ep0.stage = "STATUS_OUT" THEN [ep0 EXCEPT !.stage = "IDLE"]
                        ELSE ep0
                   ELSE ep0
         /\ ~(core.st = "RX_DATA" /\ core.endp = 1) => rx1' = rx1
         /\ core.st = "RX_DATA" /\ core.endp = 1 /\ Len(rx1.words) + Len(rx1.tmp) < RX_DEPTH =>
               rx1' = IF bus.sent = WordCount
                      THEN [words |-> IF error THEN rx1.words
                                      ELSE rx1.words \o Append(rx1.tmp, WordOf), tmp |-> <<>>]
                      ELSE [words |-> rx1.words, tmp |-> Append(rx1.tmp, WordOf)]
<1>1. /\ bus.kind = "out" /\ bus.sent <= WordCount /\ bus' = [bus EXCEPT !.sent = @ + 1]
      /\ error => bus.sent = WordCount /\ bus.t.ep = 1
      /\ DeviceCycle(Word(WordOf, bus.sent = WordCount, error), FALSE, <<>>)
      /\ UNCHANGED <<host, out_due, in_due>>
  BY DEF SendsData
<1>2. /\ ~DeviceWorks /\ WordCount \in Nat \ {0} /\ bus.sent \in Nat
      /\ core.st \in {"RX_IDLE", "RX_DATA", "RX_DATA_IGNORE", "RX_DATA_IGNORE_NO_RESP"}
      /\ bus = [kind |-> "out", t |-> bus.t, sent |-> bus.sent]
  BY <1>1, PacketIsOpen
<1>3. bus' = [kind |-> "out", t |-> bus.t, sent |-> bus.sent + 1] /\ WordCount' = WordCount
  BY <1>1, <1>2 DEF WordCount
<1> DEFINE last == bus.sent = WordCount
<1>4. last \in BOOLEAN
  OBVIOUS
<1> HIDE DEF last
<1>5. /\ core'.st = IF last /\ core.st \in {"RX_DATA", "RX_DATA_IGNORE"}
                    THEN IF error THEN "RX_IDLE" ELSE "TX_HANDSHAKE"
                    ELSE IF last /\ core.st = "RX_DATA_IGNORE_NO_RESP" THEN "RX_IDLE"
                    ELSE core.st
      /\ core'.tx_pid = IF core.st = "RX_DATA" /\ last THEN "HS_ACK" ELSE core.tx_pid
      /\ core'.endp = core.endp /\ core'.in_bit = core.in_bit
      /\ core'.out_bit = IF core.st = "RX_DATA" /\ last /\ ~error
                         THEN [core.out_bit EXCEPT ![core.endp] = 1 - @] ELSE core.out_bit
      /\ ep0' = IF core.st = "RX_DATA" /\ core.endp = 0 /\ last
                THEN IF ep0.stage = "IDLE" THEN [ep0 EXCEPT !.stage = "SETUP", !.req = WordOf]
                     ELSE IF ep0.stage = "STATUS_OUT" THEN [ep0 EXCEPT !.stage = "IDLE"]
                     ELSE ep0
                ELSE ep0
      /\ rx1' = IF core.st = "RX_DATA" /\ core.endp = 1
                THEN LET tmp == IF Len(rx1.words) + Len(rx1.tmp) < RX_DEPTH
                                THEN Append(rx1.tmp, WordOf) ELSE rx1.tmp
                     IN IF last /\ error THEN [words |-> rx1.words, tmp |-> <<>>]
                        ELSE IF last /\ Len(rx1.words) + Len(rx1.tmp) < RX_DEPTH
                        THEN [words |-> rx1.words \o tmp, tmp |-> <<>>]
                        ELSE [words |-> rx1.words, tmp |-> tmp]
                ELSE rx1
      /\ tx1' = tx1
  <2>1. DeviceCycle(Word(WordOf, last, error), FALSE, <<>>)
    BY <1>1 DEF last
  <2> QED
    BY <1>2, <1>4, <2>1, WordCycle DEF UsbInv
<1>6. last <=> (bus.sent = WordCount)
  BY DEF last
<1>7. IF bus.sent = WordCount
      THEN core'.st = IF error \/ core.st \notin {"RX_DATA", "RX_DATA_IGNORE"}
                      THEN "RX_IDLE" ELSE "TX_HANDSHAKE"
      ELSE core'.st = core.st
  BY <1>2, <1>5, <1>6
<1>8. core.st = "RX_DATA" /\ core.endp = 1 /\ Len(rx1.words) + Len(rx1.tmp) < RX_DEPTH =>
        rx1' = IF bus.sent = WordCount
               THEN [words |-> IF error THEN rx1.words
                               ELSE rx1.words \o Append(rx1.tmp, WordOf), tmp |-> <<>>]
               ELSE [words |-> rx1.words, tmp |-> Append(rx1.tmp, WordOf)]
  <2> SUFFICES ASSUME core.st = "RX_DATA", core.endp = 1, Len(rx1.words) + Len(rx1.tmp) < RX_DEPTH
               PROVE  rx1' = IF bus.sent = WordCount
                             THEN [words |-> IF error THEN rx1.words
                                             ELSE rx1.words \o Append(rx1.tmp, WordOf),
                                   tmp |-> <<>>]
                             ELSE [words |-> rx1.words, tmp |-> Append(rx1.tmp, WordOf)]
    OBVIOUS
  <2>1. rx1' = IF last /\ error THEN [words |-> rx1.words, tmp |-> <<>>]
               ELSE IF last THEN [words |-> rx1.words \o Append(rx1.tmp, WordOf), tmp |-> <<>>]
               ELSE [words |-> rx1.words, tmp |-> Append(rx1.tmp, WordOf)]
    BY <1>5
  <2> QED
    BY <1>6, <2>1
<1>9. ~(core.st = "RX_DATA" /\ core.endp = 1) => rx1' = rx1
  BY <1>5
<1>10. /\ core'.tx_pid = IF core.st = "RX_DATA" /\ bus.sent = WordCount THEN "HS_ACK"
                         ELSE core.tx_pid
       /\ core'.out_bit = IF core.st = "RX_DATA" /\ bus.sent = WordCount /\ ~error
                          THEN [core.out_bit EXCEPT ![core.endp] = 1 - @] ELSE core.out_bit
       /\ ep0' = IF core.st = "RX_DATA" /\ core.endp = 0 /\ bus.sent = WordCount
                 THEN IF ep0.stage = "IDLE" THEN [ep0 EXCEPT !.stage = "SETUP", !.req = WordOf]
                      ELSE IF ep0.stage = "STATUS_OUT" THEN [ep0 EXCEPT !.stage = "IDLE"]
                      ELSE ep0
                 ELSE ep0
  BY <1>5, <1>6
<1>11. core'.endp = core.endp /\ core'.in_bit = core.in_bit /\ tx1' = tx1
  BY <1>5
<1>12. bus.sent \in 1 .. WordCount
  BY <1>1, <1>2
<1> QED
  BY <1>1, <1>2, <1>3, <1>7, <1>8, <1>9, <1>10, <1>11, <1>12

\* A word of a bulk packet is stored, the last one delivers the packet or drops it.
LEMMA WordKeepsOut ==
  ASSUME UsbInv, NEW error \in BOOLEAN, SendsData(FALSE, error), bus.sent # 0
  PROVE  OutInv'
<1>1. /\ bus.sent \in 1 .. WordCount /\ WordCount \in Nat \ {0}
      /\ bus' = [kind |-> "out", t |-> bus.t, sent |-> bus.sent + 1]
      /\ UNCHANGED <<host, out_due>> /\ bus.kind = "out"
      /\ core.st \in {"RX_IDLE", "RX_DATA", "RX_DATA_IGNORE", "RX_DATA_IGNORE_NO_RESP"}
      /\ core'.endp = core.endp
      /\ IF bus.sent = WordCount
         THEN core'.st = IF error \/ core.st \notin {"RX_DATA", "RX_DATA_IGNORE"}
                         THEN "RX_IDLE" ELSE "TX_HANDSHAKE"
         ELSE core'.st = core.st
      /\ core'.tx_pid = IF core.st = "RX_DATA" /\ bus.sent = WordCount THEN "HS_ACK" ELSE core.tx_pid
      /\ core'.out_bit = IF core.st = "RX_DATA" /\ bus.sent = WordCount /\ ~error
                         THEN [core.out_bit EXCEPT ![core.endp] = 1 - @] ELSE core.out_bit
      /\ error => bus.sent = WordCount
  BY OpenWord DEF SendsData
<1>2. core.out_bit \in [Endpoints -> {0, 1}] /\ core.endp \in Endpoints
  BY DEF UsbInv, UsbTypeInv
<1>3. CASE core.st = "RX_DATA" /\ core.endp = 1
  <2>1. Receiving(1) /\ bus.t.ep = 1 /\ WordCount = EP1_WORDS
    BY <1>1, <1>3 DEF Receiving, WordCount, UsbInv, TransactionInv, NoTransaction
  <2>2. /\ host.bulk = <<host.out_no>> /\ host.out_no \in Nat /\ host.out_no % 2 \in {0, 1}
        /\ core.out_bit[1] = host.out_no % 2 /\ bus.t.bit = host.out_no % 2
    <3>1. bus.sent > 0
      BY <1>1
    <3>2. host.out_no \in 0 .. PACKET_NUMBERS - 1
      BY DEF UsbInv, UsbTypeInv
    <3>3. bus.t.bit = core.out_bit[1]
      BY <1>1, <1>3, <3>1 DEF UsbInv, TransactionInv
    <3>4. host.bulk = <<host.out_no>> /\ bus.t.bit = host.out_no % 2
      BY <1>1, <2>1 DEF UsbInv, OutInv
    <3> QED
      BY <3>2, <3>3, <3>4, Numbering
  <2>3. PICK k \in Nat : k = bus.sent - 1
    BY <1>1
  <2>4. /\ rx1.words \in Seq(Nat) /\ Len(rx1.words) <= EP1_WORDS
        /\ rx1.tmp = Copies(k, host.out_no)
        /\ out_due = rx1.words \o Copies(EP1_WORDS, host.out_no)
    BY <1>1, <2>1, <2>2, <2>3 DEF UsbInv, OutInv
  <2>5. WordOf = host.out_no
    BY <2>1, <2>2 DEF WordOf
  <2>6. /\ Len(Copies(k, host.out_no)) = k
        /\ Append(Copies(k, host.out_no), host.out_no) = Copies(k + 1, host.out_no)
    BY <2>2, CopiesGrow
  <2>7. Len(rx1.words) + Len(rx1.tmp) < RX_DEPTH
    <3>1. k < EP1_WORDS
      BY <1>1, <2>1, <2>3
    <3>2. PICK n \in Nat : n = Len(rx1.words)
      BY <2>4
    <3>3. n <= EP1_WORDS
      BY <2>4, <3>2
    <3>4. n + k < 2 * EP1_WORDS
      BY <3>1, <3>3, UsbAssumption
    <3> QED
      BY <2>4, <2>6, <3>2, <3>4 DEF RX_DEPTH
  <2>8. k + 1 = bus.sent
    BY <1>1, <2>3
  <2>9. rx1' = IF bus.sent = WordCount
               THEN [words |-> IF error THEN rx1.words
                               ELSE rx1.words \o Copies(bus.sent, host.out_no), tmp |-> <<>>]
               ELSE [words |-> rx1.words, tmp |-> Copies(bus.sent, host.out_no)]
    <3>1. Append(rx1.tmp, WordOf) = Copies(bus.sent, host.out_no)
      BY <2>4, <2>5, <2>6, <2>8
    <3>2. rx1' = IF bus.sent = WordCount
                 THEN [words |-> IF error THEN rx1.words
                                 ELSE rx1.words \o Append(rx1.tmp, WordOf), tmp |-> <<>>]
                 ELSE [words |-> rx1.words, tmp |-> Append(rx1.tmp, WordOf)]
      BY <1>3, <2>7, OpenWord
    <3> QED
      BY <3>1, <3>2
  <2>10. CASE bus.sent # WordCount
    <3>1. /\ rx1' = [words |-> rx1.words, tmp |-> Copies(bus.sent, host.out_no)]
          /\ core'.st = "RX_DATA" /\ core'.out_bit = core.out_bit
      BY <1>1, <1>3, <2>9, <2>10
    <3>2. Receiving(1)' /\ bus'.sent - 1 = bus.sent /\ bus'.sent > 0 /\ ~Answering("out", 1)'
      BY <1>1, <1>3, <3>1 DEF Receiving, Answering
    <3>3. /\ host'.bulk # <<>> /\ host' = host /\ core'.out_bit[1] = host.out_no % 2
          /\ bus'.t = bus.t /\ out_due' = out_due
      BY <1>1, <2>2, <3>1
    <3> QED
      BY <2>1, <2>2, <2>4, <3>1, <3>2, <3>3 DEF OutInv
  <2>11. CASE bus.sent = WordCount /\ error
    <3>1. /\ rx1' = [words |-> rx1.words, tmp |-> <<>>]
          /\ core'.st = "RX_IDLE" /\ core'.out_bit = core.out_bit
      BY <1>1, <1>3, <2>9, <2>11
    <3>2. ~Receiving(1)' /\ ~Answering("out", 1)'
      BY <3>1 DEF Receiving, Answering
    <3>3. /\ host'.bulk # <<>> /\ host' = host /\ core'.out_bit[1] = host.out_no % 2
          /\ bus'.t = bus.t /\ out_due' = out_due
      BY <1>1, <2>2, <3>1
    <3> QED
      BY <2>1, <2>2, <2>4, <3>1, <3>2, <3>3 DEF OutInv
  <2>12. CASE bus.sent = WordCount /\ ~error
    <3>1. /\ rx1' = [words |-> rx1.words \o Copies(EP1_WORDS, host.out_no), tmp |-> <<>>]
          /\ core'.st = "TX_HANDSHAKE" /\ core'.out_bit[1] = 1 - (host.out_no % 2)
      BY <1>1, <1>2, <1>3, <2>1, <2>2, <2>9, <2>12
    <3>2. ~Receiving(1)'
      BY <3>1 DEF Receiving
    <3>3. Copies(EP1_WORDS, host.out_no) \in Seq(Nat)
      <4>1. EP1_WORDS \in Nat /\ host.out_no \in Nat
        BY <2>2, UsbAssumption
      <4> QED
        BY <4>1, CopiesGrow
    <3>4. out_due \in Seq(Nat) /\ out_due = rx1'.words
      <4>1. out_due = rx1.words \o Copies(EP1_WORDS, host.out_no) /\ rx1.words \in Seq(Nat)
        BY <2>4
      <4>2. rx1'.words = out_due
        BY <3>1, <4>1
      <4>3. out_due \in Seq(Nat)
        BY <3>3, <4>1, ConcatProperties
      <4> QED
        BY <4>2, <4>3
    <3>5. out_due \o <<>> = out_due
      BY <3>4, ConcatEmptySeq
    <3>6. core'.out_bit[1] # host.out_no % 2
      BY <2>2, <3>1
    <3>7. /\ host'.bulk # <<>> /\ host' = host /\ bus'.t = bus.t /\ out_due' = out_due
      BY <1>1, <2>2
    <3> QED
      BY <2>1, <2>2, <3>1, <3>2, <3>4, <3>5, <3>6, <3>7 DEF OutInv
  <2> QED
    BY <2>10, <2>11, <2>12
<1>4. CASE ~(core.st = "RX_DATA" /\ core.endp = 1)
  <2>1. rx1' = rx1
    BY <1>4, OpenWord
  <2>2. core'.out_bit[1] = core.out_bit[1]
    BY <1>1, <1>2, <1>4 DEF Endpoints
  <2>3. ~Receiving(1) /\ ~Receiving(1)'
    BY <1>1, <1>4 DEF Receiving
  <2>4. ~(Answering("out", 1)' /\ core'.tx_pid = "HS_ACK")
    BY <1>1, <1>4 DEF Answering, UsbInv, TransactionInv
  <2>5. bus'.kind = bus.kind /\ bus'.t = bus.t
    BY <1>1
  <2> QED
    BY <1>1, <2>1, <2>2, <2>3, <2>4, <2>5 DEF UsbInv, OutInv
<1> QED
  BY <1>3, <1>4

\* A request is taken by the control endpoint, and the end of its data is confirmed by it.
LEMMA WordKeepsControl ==
  ASSUME UsbInv, NEW error \in BOOLEAN, SendsData(FALSE, error), bus.sent # 0
  PROVE  ControlInv'
<1>1. /\ bus.sent \in 1 .. WordCount /\ WordCount \in Nat \ {0}
      /\ bus' = [kind |-> "out", t |-> bus.t, sent |-> bus.sent + 1]
      /\ host' = host /\ bus.kind = "out" /\ bus # NoTransaction
      /\ core.st \in {"RX_IDLE", "RX_DATA", "RX_DATA_IGNORE", "RX_DATA_IGNORE_NO_RESP"}
      /\ core'.endp = core.endp /\ core'.in_bit = core.in_bit
      /\ IF bus.sent = WordCount
         THEN core'.st = IF error \/ core.st \notin {"RX_DATA", "RX_DATA_IGNORE"}
                         THEN "RX_IDLE" ELSE "TX_HANDSHAKE"
         ELSE core'.st = core.st
      /\ core'.tx_pid = IF core.st = "RX_DATA" /\ bus.sent = WordCount THEN "HS_ACK" ELSE core.tx_pid
      /\ ep0' = IF core.st = "RX_DATA" /\ core.endp = 0 /\ bus.sent = WordCount
                THEN IF ep0.stage = "IDLE" THEN [ep0 EXCEPT !.stage = "SETUP", !.req = WordOf]
                     ELSE IF ep0.stage = "STATUS_OUT" THEN [ep0 EXCEPT !.stage = "IDLE"]
                     ELSE ep0
                ELSE ep0
      /\ error => bus.t.ep = 1
  BY OpenWord DEF SendsData, NoTransaction
<1>2. ControlInv /\ bus'.t = bus.t /\ bus'.kind = bus.kind
  BY <1>1 DEF UsbInv
<1>3. TokensInv'
  BY <1>1, <1>2 DEF ControlInv, TokensInv
<1>4. ~Sending(0) /\ ~Sending(0)' /\ ~Sent(0) /\ ~Sent(0)' /\ ~Answering("out", 0)
  BY <1>1 DEF Sending, Sent, Answering
<1>5. CASE core.st = "RX_DATA" /\ core.endp = 0
  <2>1. bus.t.ep = 0 /\ bus.sent = WordCount /\ ~error
    BY <1>1, <1>5 DEF UsbInv, TransactionInv, WordCount
  <2>2. Answering("out", 0)' /\ core'.tx_pid = "HS_ACK"
    BY <1>1, <1>5, <2>1 DEF Answering
  <2>3. \/ bus.t.kind = "TOKEN_SETUP" /\ host.ctl.phase = "setup" /\ WordOf = host.ctl
        \/ bus.t.kind = "TOKEN_OUT" /\ host.ctl.phase = "status_out"
    <3>1. bus.t.kind \in {"TOKEN_OUT", "TOKEN_SETUP"}
      BY <1>1 DEF UsbInv, UsbTypeInv, BusOK
    <3> QED
      BY <1>1, <1>2, <2>1, <3>1 DEF ControlInv, TokensInv, WordOf
  <2>4. ep0 = [stage |-> ep0.stage, stall |-> ep0.stall, trans_len |-> ep0.trans_len,
               split |-> ep0.split, addr |-> ep0.addr, addr_next |-> ep0.addr_next,
               configured |-> ep0.configured, req |-> ep0.req, descr_addr |-> ep0.descr_addr]
    BY DEF UsbInv, UsbTypeInv
  <2>5. CASE host.ctl.phase = "setup"
    <3>1. SetupInv /\ core.in_bit[0] = 1
      BY <1>1, <1>2, <1>5, <2>1, <2>5 DEF ControlInv, SetupInv
    <3>2. ep0' = [ep0 EXCEPT !.stage = "SETUP", !.req = host.ctl]
      BY <1>1, <1>4, <1>5, <2>1, <2>3, <2>5, <3>1 DEF SetupInv
    <3>3. ep0'.stage = "SETUP" /\ ep0'.req = host.ctl /\ ep0'.stall = ep0.stall
          /\ ep0'.addr = ep0.addr /\ ep0'.configured = ep0.configured
      BY <2>4, <3>2
    <3>4. SetupInv'
      BY <1>1, <2>2, <3>1, <3>3 DEF SetupInv, SameAddress, SameConfig
    <3> QED
      BY <1>1, <1>3, <2>5, <3>4 DEF ControlInv
  <2>6. CASE host.ctl.phase = "status_out"
    <3>1. StatusOutInv /\ ep0.stage = "STATUS_OUT" /\ host.ctl.kind = "get_descriptor"
      BY <1>2, <1>4, <2>6 DEF ControlInv, StatusOutInv
    <3>2. ep0' = [ep0 EXCEPT !.stage = "IDLE"]
      BY <1>1, <1>5, <2>1, <3>1
    <3>3. ep0'.stage = "IDLE" /\ ep0'.stall = ep0.stall
          /\ ep0'.addr = ep0.addr /\ ep0'.configured = ep0.configured
      BY <2>4, <3>2
    <3>4. StatusOutInv'
      BY <1>1, <2>2, <3>1, <3>3 DEF StatusOutInv, SameAddress, SameConfig, Asked
    <3> QED
      BY <1>1, <1>3, <2>6, <3>1, <3>4 DEF ControlInv
  <2> QED
    BY <2>3, <2>5, <2>6
<1>6. CASE ~(core.st = "RX_DATA" /\ core.endp = 0)
  <2>1. ep0' = ep0
    BY <1>1, <1>6
  <2>2. ~(Answering("out", 0)' /\ core'.tx_pid = "HS_ACK")
    BY <1>1, <1>6 DEF Answering, UsbInv, TransactionInv
  <2>3. (IdleInv => IdleInv') /\ (RefusalInv => RefusalInv')
    BY <1>1, <1>4, <2>1 DEF IdleInv, RefusalInv, SameAddress, SameConfig
  <2>4. SetupInv => SetupInv'
    <3>1. core'.st = "RX_DATA" => core.st = "RX_DATA"
      BY <1>1
    <3> QED
      BY <1>1, <1>2, <1>4, <2>1, <2>2, <3>1 DEF SetupInv, SameAddress, SameConfig
  <2>5. DescriptorInv => DescriptorInv'
    BY <1>1, <1>4, <2>1 DEF DescriptorInv, SameAddress, SameConfig, GotLen, Asked
  <2>6. (StatusInInv => StatusInInv') /\ (StatusOutInv => StatusOutInv')
    BY <1>1, <1>4, <2>1, <2>2 DEF StatusInInv, StatusOutInv, SameAddress, SameConfig, Asked
  <2> QED
    BY <1>1, <1>2, <1>3, <2>3, <2>4, <2>5, <2>6 DEF ControlInv
<1> QED
  BY <1>5, <1>6

\* A word of a packet; with the last one the packet is taken, dropped or was ignored.
LEMMA WordKeeps ==
  ASSUME UsbInv, NEW error \in BOOLEAN, SendsData(FALSE, error), bus.sent # 0
  PROVE  UsbInv'
<1>1. /\ bus.sent \in 1 .. WordCount /\ WordCount' = WordCount /\ WordCount \in Nat \ {0}
      /\ bus' = [kind |-> "out", t |-> bus.t, sent |-> bus.sent + 1]
      /\ UNCHANGED <<host, out_due, in_due, tx1>> /\ bus.kind = "out" /\ bus # NoTransaction
      /\ error => bus.sent = WordCount
      /\ core.st \in {"RX_IDLE", "RX_DATA", "RX_DATA_IGNORE", "RX_DATA_IGNORE_NO_RESP"}
      /\ core'.endp = core.endp /\ core'.in_bit = core.in_bit
      /\ IF bus.sent = WordCount
         THEN core'.st = IF error \/ core.st \notin {"RX_DATA", "RX_DATA_IGNORE"}
                         THEN "RX_IDLE" ELSE "TX_HANDSHAKE"
         ELSE core'.st = core.st
      /\ core'.tx_pid = IF core.st = "RX_DATA" /\ bus.sent = WordCount THEN "HS_ACK" ELSE core.tx_pid
      /\ core'.out_bit = IF core.st = "RX_DATA" /\ bus.sent = WordCount /\ ~error
                         THEN [core.out_bit EXCEPT ![core.endp] = 1 - @] ELSE core.out_bit
      /\ ep0' = IF core.st = "RX_DATA" /\ core.endp = 0 /\ bus.sent = WordCount
                THEN IF ep0.stage = "IDLE" THEN [ep0 EXCEPT !.stage = "SETUP", !.req = WordOf]
                     ELSE IF ep0.stage = "STATUS_OUT" THEN [ep0 EXCEPT !.stage = "IDLE"]
                     ELSE ep0
                ELSE ep0
  BY OpenWord DEF SendsData, NoTransaction
<1>2. /\ ep0'.stall = ep0.stall
      /\ ep0' = [stage |-> ep0'.stage, stall |-> ep0'.stall, trans_len |-> ep0'.trans_len,
                 split |-> ep0'.split, addr |-> ep0'.addr, addr_next |-> ep0'.addr_next,
                 configured |-> ep0'.configured, req |-> ep0'.req, descr_addr |-> ep0'.descr_addr]
  <2>1. ep0 = [stage |-> ep0.stage, stall |-> ep0.stall, trans_len |-> ep0.trans_len,
               split |-> ep0.split, addr |-> ep0.addr, addr_next |-> ep0.addr_next,
               configured |-> ep0.configured, req |-> ep0.req, descr_addr |-> ep0.descr_addr]
    BY DEF UsbInv, UsbTypeInv
  <2> QED
    BY <1>1, <2>1
<1>3. core'.out_bit \in [Endpoints -> {0, 1}]
  BY <1>1 DEF UsbInv, UsbTypeInv
<1>4. UsbTypeInv'
  <2>1. core' = [st |-> core'.st, tx_pid |-> core'.tx_pid, out_bit |-> core'.out_bit,
                 in_bit |-> core'.in_bit, endp |-> core'.endp]
    BY DEF SendsData, DeviceCycle, CoreCycle
  <2>2. /\ bus.t = [kind |-> bus.t.kind, ep |-> bus.t.ep, bit |-> bus.t.bit]
        /\ bus.t.kind \in {"TOKEN_OUT", "TOKEN_SETUP"} /\ bus.t.ep \in Endpoints /\ bus.t.bit \in {0, 1}
    BY <1>1 DEF UsbInv, UsbTypeInv, BusOK
  <2>3. BusOK'
    <3>1. bus.sent + 1 \in 0 .. WordCount + 1
      BY <1>1
    <3> QED
      BY <1>1, <2>2, <3>1 DEF BusOK
  <2>4. core'.st \in CoreStates
    BY <1>1 DEF CoreStates
  <2> QED
    BY <1>1, <1>2, <1>3, <2>1, <2>3, <2>4 DEF UsbInv, UsbTypeInv, TransferOK
<1>5. TransactionInv'
  <2>1. bus'.kind = "out" /\ bus'.t = bus.t /\ bus'.sent = bus.sent + 1 /\ bus' # NoTransaction
    BY <1>1 DEF NoTransaction
  <2>2. core'.st \notin {"TX_DATA", "TX_DATA_COMPLETE"} /\ (core'.st # "RX_IDLE" => core.st # "RX_IDLE")
    BY <1>1
  <2>3. core'.st \in {"RX_DATA", "RX_DATA_IGNORE", "RX_DATA_IGNORE_NO_RESP"} =>
          bus.sent + 1 <= WordCount /\ core'.st = core.st
    BY <1>1
  <2>4. core'.st = "TX_HANDSHAKE" => /\ bus.sent = WordCount
                                     /\ core.st = "RX_DATA_IGNORE" \/ core'.tx_pid = "HS_ACK"
    BY <1>1
  <2>5. core'.st = "RX_DATA" => bus.sent > 0 /\ core'.out_bit = core.out_bit
    BY <1>1
  <2>6. core.st = "RX_DATA_IGNORE" => core'.tx_pid = "HS_NACK"
    BY <1>1 DEF UsbInv, TransactionInv
  <2> QED
    BY <1>1, <1>2, <2>1, <2>2, <2>3, <2>4, <2>5, <2>6 DEF UsbInv, TransactionInv
<1>6. InInv'
  <2>1. ~Sending(1) /\ ~Sent(1) /\ ~Sending(1)' /\ ~Sent(1)'
    BY <1>1 DEF Sending, Sent
  <2>2. bus'.kind = "out"
    BY <1>1
  <2> QED
    BY <1>1, <2>1, <2>2 DEF UsbInv, InInv
<1>7. OutInv' /\ ControlInv'
  BY WordKeepsOut, WordKeepsControl
<1> QED
  BY <1>4, <1>5, <1>6, <1>7 DEF UsbInv

---------------------------------------------------------------------------
(* The answer to a transaction *)

\* What the clock of a handshake does to the device.
LEMMA AnswerCycle ==
  ASSUME UsbInv, NEW lost \in BOOLEAN, DeviceAnswers(lost)
  PROVE  /\ core.st = "TX_HANDSHAKE" /\ bus # NoTransaction /\ bus.kind \in {"in", "out"}
         /\ core.endp = bus.t.ep /\ bus.t.ep \in Endpoints /\ bus' = NoTransaction
         /\ UNCHANGED <<out_due, in_due>> /\ rx1' = rx1 /\ tx1' = tx1
         /\ core' = [st |-> "RX_IDLE", tx_pid |-> core.tx_pid, out_bit |-> core.out_bit,
                     in_bit |-> core.in_bit, endp |-> core.endp]
         /\ ep0' = IF ep0.stage = "SETUP" THEN Decoded
                   ELSE IF ep0.stage = "DATA_GET" /\ core.endp = 0 /\ ep0.stall THEN DataGone
                   ELSE IF ep0.stage = "STATUS_IN" /\ core.endp = 0 /\ ep0.stall
                        THEN [ep0 EXCEPT !.stage = "IDLE", !.addr = ep0.addr_next]
                   ELSE ep0
         /\ ~ep0.stall => Handshake = core.tx_pid
         /\ core.tx_pid = "HS_STALL" => Handshake = "HS_STALL"
<1>1. /\ core.st = "TX_HANDSHAKE" /\ bus' = NoTransaction /\ DeviceCycle(Nothing, FALSE, <<>>)
      /\ UNCHANGED <<out_due, in_due>>
  BY DEF DeviceAnswers
<1>2. bus # NoTransaction /\ core.endp = bus.t.ep
  BY <1>1 DEF UsbInv, TransactionInv
<1>3. bus.kind \in {"in", "out"} /\ bus.t.ep \in Endpoints
  BY <1>2 DEF UsbInv, UsbTypeInv, BusOK
<1>4. DeviceWorks
  BY <1>1 DEF DeviceWorks
<1>5. /\ core'.st = "RX_IDLE" /\ core'.tx_pid = core.tx_pid /\ core'.endp = core.endp
      /\ core'.out_bit = core.out_bit /\ core'.in_bit = core.in_bit
      /\ rx1' = rx1
      /\ ep0' = IF ep0.stage = "SETUP" THEN Decoded
                ELSE IF ep0.stage = "DATA_GET" /\ TxReady(0) THEN DataGone
                ELSE IF ep0.stage = "STATUS_IN" /\ TxReady(0)
                     THEN [ep0 EXCEPT !.stage = "IDLE", !.addr = ep0.addr_next]
                ELSE ep0
      /\ ~TxReady(1) => tx1' = tx1
  BY <1>1, <1>4, WorkCycle DEF UsbInv
<1>6. core' = [st |-> core'.st, tx_pid |-> core'.tx_pid, out_bit |-> core'.out_bit,
               in_bit |-> core'.in_bit, endp |-> core'.endp]
  BY <1>1 DEF DeviceCycle, CoreCycle
<1>7. Endp(Nothing) = core.endp
  BY DEF Endp, Nothing, IsHeader
<1>8. EpTxStall(Nothing) <=>
        ep0.stall /\ (IF core.endp = 0 THEN ep0.stage \in {"DATA_GET", "STATUS_IN"}
                      ELSE tx1.packets # <<>>)
  BY <1>7 DEF EpTxStall, EpTxValid
<1>9. ~TxReady(1)
  BY <1>1, <1>2, <1>8 DEF TxReady, UsbInv, TransactionInv
<1>10. ep0.stage \in {"DATA_GET", "STATUS_IN"} => (TxReady(0) <=> core.endp = 0 /\ ep0.stall)
  BY <1>1, <1>8 DEF TxReady
<1>11. /\ ~ep0.stall => Handshake = core.tx_pid
       /\ core.tx_pid = "HS_STALL" => Handshake = "HS_STALL"
  BY <1>8 DEF Handshake
<1>12. ep0' = IF ep0.stage = "SETUP" THEN Decoded
              ELSE IF ep0.stage = "DATA_GET" /\ core.endp = 0 /\ ep0.stall THEN DataGone
              ELSE IF ep0.stage = "STATUS_IN" /\ core.endp = 0 /\ ep0.stall
                   THEN [ep0 EXCEPT !.stage = "IDLE", !.addr = ep0.addr_next]
              ELSE ep0
  BY <1>5, <1>10
<1> QED
  BY <1>1, <1>2, <1>3, <1>5, <1>6, <1>9, <1>11, <1>12

\* With the transaction over, the parts of the invariant about it hold of themselves.
LEMMA OverInv ==
  ASSUME UsbInv, bus' = NoTransaction, core' = [st |-> "RX_IDLE", tx_pid |-> core.tx_pid,
         out_bit |-> core.out_bit, in_bit |-> core.in_bit, endp |-> core.endp]
  PROVE  /\ TransactionInv' /\ BusOK' /\ TokensInv'
         /\ core'.st \in CoreStates /\ core'.endp \in Endpoints
         /\ core'.out_bit \in [Endpoints -> {0, 1}] /\ core'.in_bit \in [Endpoints -> {0, 1}]
         /\ core' = [st |-> core'.st, tx_pid |-> core'.tx_pid, out_bit |-> core'.out_bit,
                     in_bit |-> core'.in_bit, endp |-> core'.endp]
         /\ ~Sending(0)' /\ ~Sending(1)' /\ ~Sent(0)' /\ ~Sent(1)' /\ ~Receiving(1)'
         /\ ~Answering("out", 0)' /\ ~Answering("out", 1)'
<1>1. core'.st = "RX_IDLE" /\ core'.endp = core.endp /\ core'.out_bit = core.out_bit
      /\ core'.in_bit = core.in_bit
  OBVIOUS
<1>2. TransactionInv'
  BY <1>1 DEF TransactionInv, NoTransaction
<1>3. BusOK' /\ TokensInv'
  BY DEF BusOK, TokensInv
<1> QED
  BY <1>1, <1>2, <1>3 DEF UsbInv, UsbTypeInv, CoreStates, Sending, Sent, Receiving, Answering

\* The answer of the bulk endpoint.
LEMMA BulkAnswerKeeps ==
  ASSUME UsbInv, NEW lost \in BOOLEAN, DeviceAnswers(lost), bus.t.ep = 1
  PROVE  UsbInv'
<1> DEFINE taken == ~lost /\ core.tx_pid = "HS_ACK" /\ bus.kind = "out"
<1>1. /\ core.st = "TX_HANDSHAKE" /\ bus # NoTransaction /\ bus.kind \in {"in", "out"}
      /\ core.endp = 1 /\ bus' = NoTransaction
      /\ UNCHANGED <<out_due, in_due>> /\ rx1' = rx1 /\ tx1' = tx1
      /\ core' = [st |-> "RX_IDLE", tx_pid |-> core.tx_pid, out_bit |-> core.out_bit,
                  in_bit |-> core.in_bit, endp |-> core.endp]
      /\ ~ep0.stall => Handshake = core.tx_pid
  BY AnswerCycle
<1>2. ep0' = ep0
  <2>1. ep0.stage # "SETUP"
    BY <1>1, SetupIsAnswered
  <2> QED
    BY <1>1, <2>1, AnswerCycle
<1>3. Handshake = core.tx_pid /\ core.tx_pid \in {"HS_NACK", "HS_ACK"}
      /\ (bus.kind = "in" => core.tx_pid = "HS_NACK")
  BY <1>1 DEF UsbInv, TransactionInv
<1>4. /\ host.out_no \in 0 .. PACKET_NUMBERS - 1 /\ host.out_no % 2 \in {0, 1}
      /\ Following(host.out_no) \in 0 .. PACKET_NUMBERS - 1
      /\ Following(host.out_no) % 2 = 1 - (host.out_no % 2)
  BY Numbering DEF UsbInv, UsbTypeInv
<1>5. host' = IF taken THEN [host EXCEPT !.bulk = <<>>, !.out_no = Following(@)] ELSE host
  BY <1>1, <1>3 DEF DeviceAnswers, AfterAck
<1>6. host' = [addr |-> host.addr, config |-> host.config, ctl |-> host.ctl, got |-> host.got,
               ctl_bit |-> host.ctl_bit, bulk |-> IF taken THEN <<>> ELSE host.bulk,
               out_no |-> IF taken THEN Following(host.out_no) ELSE host.out_no,
               in_no |-> host.in_no]
  BY <1>5 DEF UsbInv, UsbTypeInv
<1> HIDE DEF taken
<1>7. /\ TransactionInv' /\ BusOK' /\ TokensInv'
      /\ core'.st \in CoreStates /\ core'.endp \in Endpoints
      /\ core'.out_bit \in [Endpoints -> {0, 1}] /\ core'.in_bit \in [Endpoints -> {0, 1}]
      /\ core' = [st |-> core'.st, tx_pid |-> core'.tx_pid, out_bit |-> core'.out_bit,
                  in_bit |-> core'.in_bit, endp |-> core'.endp]
      /\ ~Sending(0)' /\ ~Sending(1)' /\ ~Sent(0)' /\ ~Sent(1)' /\ ~Receiving(1)'
      /\ ~Answering("out", 0)' /\ ~Answering("out", 1)'
  BY <1>1, OverInv
<1>8. UsbTypeInv'
  <2>1. TransferOK'
    BY <1>6 DEF UsbInv, UsbTypeInv, TransferOK
  <2>2. host'.out_no \in 0 .. PACKET_NUMBERS - 1
    BY <1>4, <1>6
  <2> QED
    BY <1>2, <1>6, <1>7, <2>1, <2>2 DEF UsbInv, UsbTypeInv
<1>9. OutInv'
  <2>1. ~Receiving(1) /\ rx1.tmp = <<>>
    BY <1>1 DEF UsbInv, OutInv, Receiving
  <2>2. bus'.kind # "out" /\ core'.out_bit = core.out_bit
    BY <1>1 DEF NoTransaction
  <2>3. CASE taken
    <3>1. core.out_bit[1] # host.out_no % 2
      BY <1>1, <2>3 DEF UsbInv, OutInv, Answering, taken
    <3>2. core.out_bit[1] \in {0, 1}
      BY DEF UsbInv, UsbTypeInv, Endpoints
    <3>3. host'.bulk = <<>> /\ core.out_bit[1] = host'.out_no % 2
      BY <1>4, <1>6, <2>3, <3>1, <3>2
    <3>4. out_due = rx1.words \o <<>>
      BY <3>1 DEF UsbInv, OutInv
    <3> QED
      BY <1>1, <1>7, <2>1, <2>2, <3>3, <3>4 DEF UsbInv, OutInv
  <2>4. CASE ~taken
    <3>1. host'.bulk = host.bulk /\ host'.out_no = host.out_no
      BY <1>6, <2>4
    <3> QED
      BY <1>1, <1>7, <2>1, <2>2, <3>1 DEF UsbInv, OutInv
  <2> QED
    BY <2>3, <2>4
<1>10. InInv'
  <2>1. ~Sending(1) /\ ~Sent(1)
    BY <1>1 DEF Sending, Sent
  <2>2. bus'.kind # "in" /\ core'.in_bit = core.in_bit /\ host'.in_no = host.in_no
    BY <1>1, <1>6 DEF NoTransaction
  <2> QED
    BY <1>1, <1>7, <2>1, <2>2 DEF UsbInv, InInv
<1>11. ControlInv'
  <2>1. /\ host'.ctl = host.ctl /\ host'.got = host.got /\ host'.ctl_bit = host.ctl_bit
        /\ host'.addr = host.addr /\ host'.config = host.config
        /\ core'.in_bit = core.in_bit /\ core'.st = "RX_IDLE" /\ ControlInv
    BY <1>1, <1>6 DEF UsbInv
  <2>2. ~Sending(0) /\ ~Sent(0) /\ ~Answering("out", 0)
    BY <1>1 DEF Sending, Sent, Answering
  <2>3. (IdleInv => IdleInv') /\ (RefusalInv => RefusalInv')
    BY <1>2, <1>7, <2>1, <2>2 DEF IdleInv, RefusalInv, SameAddress, SameConfig
  <2>4. SetupInv => SetupInv'
    BY <1>2, <1>7, <2>1, <2>2 DEF SetupInv, SameAddress, SameConfig
  <2>5. DescriptorInv => DescriptorInv'
    BY <1>2, <1>7, <2>1, <2>2 DEF DescriptorInv, SameAddress, SameConfig, GotLen, Asked
  <2>6. (StatusInInv => StatusInInv') /\ (StatusOutInv => StatusOutInv')
    BY <1>2, <1>7, <2>1, <2>2 DEF StatusInInv, StatusOutInv, SameAddress, SameConfig, Asked
  <2> QED
    BY <1>7, <2>1, <2>3, <2>4, <2>5, <2>6 DEF ControlInv
<1> QED
  BY <1>7, <1>8, <1>9, <1>10, <1>11 DEF UsbInv

\* An answer of the control endpoint leaves the bulk endpoint as it is.
LEMMA ControlAnswerKeepsBulk ==
  ASSUME UsbInv, NEW lost \in BOOLEAN, DeviceAnswers(lost), bus.t.ep = 0,
         host'.bulk = host.bulk, host'.out_no = host.out_no, host'.in_no = host.in_no
  PROVE  OutInv' /\ InInv'
<1>1. /\ core.st = "TX_HANDSHAKE" /\ core.endp = 0 /\ bus' = NoTransaction
      /\ UNCHANGED <<out_due, in_due>> /\ rx1' = rx1 /\ tx1' = tx1
      /\ core' = [st |-> "RX_IDLE", tx_pid |-> core.tx_pid, out_bit |-> core.out_bit,
                  in_bit |-> core.in_bit, endp |-> core.endp]
  BY AnswerCycle
<1>2. ~Sending(1)' /\ ~Sent(1)' /\ ~Receiving(1)' /\ ~Answering("out", 1)'
  BY <1>1, OverInv
<1>3. ~Sending(1) /\ ~Sent(1) /\ ~Receiving(1)
  BY <1>1 DEF Sending, Sent, Receiving
<1>4. bus'.kind = "none" /\ core'.out_bit = core.out_bit /\ core'.in_bit = core.in_bit
  BY <1>1 DEF NoTransaction
<1> QED
  BY <1>1, <1>2, <1>3, <1>4 DEF UsbInv, OutInv, InInv

\* What the answer of the control endpoint leaves of the state.
LEMMA ControlAnswer ==
  ASSUME UsbInv, NEW lost \in BOOLEAN, DeviceAnswers(lost), bus.t.ep = 0
  PROVE  /\ core.st = "TX_HANDSHAKE" /\ bus # NoTransaction /\ bus.kind \in {"in", "out"} /\ core.endp = 0
         /\ core'.st = "RX_IDLE" /\ core'.in_bit = core.in_bit
         /\ TransactionInv' /\ BusOK' /\ TokensInv'
         /\ ~Sending(0)' /\ ~Sent(0)' /\ ~Answering("out", 0)'
         /\ ~Sending(0) /\ ~Sent(0)
         /\ ep0' = IF ep0.stage = "SETUP" THEN Decoded
                   ELSE IF ep0.stage = "DATA_GET" /\ ep0.stall THEN DataGone
                   ELSE IF ep0.stage = "STATUS_IN" /\ ep0.stall
                        THEN [ep0 EXCEPT !.stage = "IDLE", !.addr = ep0.addr_next]
                   ELSE ep0
         /\ host' = IF Handshake = "HS_ACK" THEN AfterAck
                    ELSE IF Handshake = "HS_STALL" THEN EndsTransfer ELSE host
         /\ ~ep0.stall => Handshake = core.tx_pid
         /\ core.tx_pid = "HS_STALL" => Handshake = "HS_STALL"
<1>1. /\ core.st = "TX_HANDSHAKE" /\ bus # NoTransaction /\ bus.kind \in {"in", "out"}
      /\ core.endp = 0 /\ bus' = NoTransaction
      /\ core' = [st |-> "RX_IDLE", tx_pid |-> core.tx_pid, out_bit |-> core.out_bit,
                  in_bit |-> core.in_bit, endp |-> core.endp]
      /\ ep0' = IF ep0.stage = "SETUP" THEN Decoded
                ELSE IF ep0.stage = "DATA_GET" /\ core.endp = 0 /\ ep0.stall THEN DataGone
                ELSE IF ep0.stage = "STATUS_IN" /\ core.endp = 0 /\ ep0.stall
                     THEN [ep0 EXCEPT !.stage = "IDLE", !.addr = ep0.addr_next]
                ELSE ep0
      /\ ~ep0.stall => Handshake = core.tx_pid
      /\ core.tx_pid = "HS_STALL" => Handshake = "HS_STALL"
  BY AnswerCycle
<1>2. TransactionInv' /\ BusOK' /\ TokensInv' /\ ~Sending(0)' /\ ~Sent(0)' /\ ~Answering("out", 0)'
  BY <1>1, OverInv
<1>3. ~Sending(0) /\ ~Sent(0)
  BY <1>1 DEF Sending, Sent
<1>4. host' = IF Handshake = "HS_ACK" THEN AfterAck
              ELSE IF Handshake = "HS_STALL" THEN EndsTransfer ELSE host
  BY DEF DeviceAnswers
<1> QED
  BY <1>1, <1>2, <1>3, <1>4

\* The types hold when the records of the device and of the host keep their fields.
LEMMA OverTypes ==
  ASSUME UsbInv, bus' = NoTransaction,
         core' = [st |-> "RX_IDLE", tx_pid |-> core.tx_pid, out_bit |-> core.out_bit,
                  in_bit |-> core.in_bit, endp |-> core.endp],
         ep0' = [stage |-> ep0'.stage, stall |-> ep0'.stall, trans_len |-> ep0'.trans_len,
                 split |-> ep0'.split, addr |-> ep0'.addr, addr_next |-> ep0'.addr_next,
                 configured |-> ep0'.configured, req |-> ep0'.req, descr_addr |-> ep0'.descr_addr],
         ep0'.stall \in BOOLEAN, TransferOK',
         host' = [addr |-> host'.addr, config |-> host'.config, ctl |-> host'.ctl, got |-> host'.got,
                  ctl_bit |-> host'.ctl_bit, bulk |-> host'.bulk, out_no |-> host'.out_no,
                  in_no |-> host'.in_no],
         host'.ctl_bit \in {0, 1}, host'.out_no \in 0 .. PACKET_NUMBERS - 1,
         host'.in_no \in 0 .. PACKET_NUMBERS - 1
  PROVE  UsbTypeInv'
<1>1. /\ BusOK' /\ core'.st \in CoreStates /\ core'.endp \in Endpoints
      /\ core'.out_bit \in [Endpoints -> {0, 1}] /\ core'.in_bit \in [Endpoints -> {0, 1}]
      /\ core' = [st |-> core'.st, tx_pid |-> core'.tx_pid, out_bit |-> core'.out_bit,
                  in_bit |-> core'.in_bit, endp |-> core'.endp]
  BY OverInv
<1> QED
  BY <1>1 DEF UsbTypeInv

\* An answer changes neither the numbers of the packets nor the shape of the records.
LEMMA AnswerTypes ==
  ASSUME UsbInv, NEW lost \in BOOLEAN, DeviceAnswers(lost),
         ep0' = [stage |-> ep0'.stage, stall |-> ep0'.stall, trans_len |-> ep0'.trans_len,
                 split |-> ep0'.split, addr |-> ep0'.addr, addr_next |-> ep0'.addr_next,
                 configured |-> ep0'.configured, req |-> ep0'.req, descr_addr |-> ep0'.descr_addr],
         ep0'.stall \in BOOLEAN, TransferOK', NEW got, NEW bit \in {0, 1}, NEW ctl,
         host' = [addr |-> host.addr, config |-> host.config, ctl |-> ctl, got |-> got,
                  ctl_bit |-> bit, bulk |-> host.bulk, out_no |-> host.out_no,
                  in_no |-> host.in_no]
  PROVE  UsbTypeInv'
<1>1. /\ bus' = NoTransaction
      /\ core' = [st |-> "RX_IDLE", tx_pid |-> core.tx_pid, out_bit |-> core.out_bit,
                  in_bit |-> core.in_bit, endp |-> core.endp]
  BY AnswerCycle
<1>2. /\ host' = [addr |-> host'.addr, config |-> host'.config, ctl |-> host'.ctl, got |-> host'.got,
                  ctl_bit |-> host'.ctl_bit, bulk |-> host'.bulk, out_no |-> host'.out_no,
                  in_no |-> host'.in_no]
      /\ host'.out_no = host.out_no /\ host'.in_no = host.in_no /\ host'.ctl_bit = bit
  OBVIOUS
<1>3. host.out_no \in 0 .. PACKET_NUMBERS - 1 /\ host.in_no \in 0 .. PACKET_NUMBERS - 1
  BY DEF UsbInv, UsbTypeInv
<1> QED
  BY <1>1, <1>2, <1>3, OverTypes

\* A transfer that ends keeps the host's addresses and bulk packets.
LEMMA EndsTransferShape ==
  ASSUME UsbTypeInv
  PROVE  EndsTransfer = [addr |-> host.addr, config |-> host.config, ctl |-> NoTransfer, got |-> <<>>,
                         ctl_bit |-> 0, bulk |-> host.bulk, out_no |-> host.out_no,
                         in_no |-> host.in_no]
<1>1. host = [addr |-> host.addr, config |-> host.config, ctl |-> host.ctl, got |-> host.got,
              ctl_bit |-> host.ctl_bit, bulk |-> host.bulk, out_no |-> host.out_no,
              in_no |-> host.in_no]
  BY DEF UsbTypeInv
<1>2. DOMAIN EndsTransfer = {"addr", "config", "ctl", "got", "ctl_bit", "bulk", "out_no", "in_no"}
  BY <1>1 DEF EndsTransfer
<1>3. /\ EndsTransfer.addr = host.addr /\ EndsTransfer.config = host.config
      /\ EndsTransfer.ctl = NoTransfer /\ EndsTransfer.got = <<>> /\ EndsTransfer.ctl_bit = 0
      /\ EndsTransfer.bulk = host.bulk /\ EndsTransfer.out_no = host.out_no
      /\ EndsTransfer.in_no = host.in_no
  BY <1>1 DEF EndsTransfer
<1>4. EndsTransfer = [f \in DOMAIN EndsTransfer |-> EndsTransfer[f]]
  BY DEF EndsTransfer
<1> QED
  BY <1>2, <1>3, <1>4

\* A request for what there is not is refused: the transfer is over on both sides.
LEMMA RefusalKeeps ==
  ASSUME UsbInv, NEW lost \in BOOLEAN, DeviceAnswers(lost), bus.t.ep = 0, bus.kind = "in"
  PROVE  UsbInv'
<1>1. /\ core.st = "TX_HANDSHAKE" /\ bus # NoTransaction /\ core.endp = 0
      /\ TransactionInv' /\ BusOK' /\ TokensInv'
      /\ ep0' = IF ep0.stage = "SETUP" THEN Decoded
                ELSE IF ep0.stage = "DATA_GET" /\ ep0.stall THEN DataGone
                ELSE IF ep0.stage = "STATUS_IN" /\ ep0.stall
                     THEN [ep0 EXCEPT !.stage = "IDLE", !.addr = ep0.addr_next]
                ELSE ep0
      /\ host' = IF Handshake = "HS_ACK" THEN AfterAck
                 ELSE IF Handshake = "HS_STALL" THEN EndsTransfer ELSE host
      /\ core.tx_pid = "HS_STALL" => Handshake = "HS_STALL"
  BY ControlAnswer
<1>2. core.tx_pid = "HS_STALL" /\ ep0.stall
  BY <1>1 DEF UsbInv, TransactionInv
<1>3. host' = EndsTransfer
  BY <1>1, <1>2
<1>4. host' = [addr |-> host.addr, config |-> host.config, ctl |-> NoTransfer, got |-> <<>>,
               ctl_bit |-> 0, bulk |-> host.bulk, out_no |-> host.out_no, in_no |-> host.in_no]
  BY <1>3, EndsTransferShape DEF UsbInv
<1>5. RefusalInv
  <2>1. bus.t.kind = "TOKEN_IN"
    BY <1>1 DEF UsbInv, UsbTypeInv, BusOK
  <2>2. host.ctl.phase \in {"data", "status_in"}
    BY <1>1, <2>1 DEF UsbInv, ControlInv, TokensInv
  <2> QED
    BY <1>2, <2>2 DEF UsbInv, ControlInv, DescriptorInv, StatusInInv
<1>6. ep0' = [ep0 EXCEPT !.stage = "IDLE", !.stall = FALSE]
  BY <1>1, <1>2, <1>5 DEF RefusalInv, DataGone
<1>7. /\ ep0' = [stage |-> ep0'.stage, stall |-> ep0'.stall, trans_len |-> ep0'.trans_len,
                 split |-> ep0'.split, addr |-> ep0'.addr, addr_next |-> ep0'.addr_next,
                 configured |-> ep0'.configured, req |-> ep0'.req, descr_addr |-> ep0'.descr_addr]
      /\ ep0'.stage = "IDLE" /\ ep0'.stall = FALSE /\ ep0'.addr = ep0.addr
      /\ ep0'.configured = ep0.configured
  BY <1>6 DEF UsbInv, UsbTypeInv
<1>8. UsbTypeInv'
  <2>1. TransferOK'
    BY <1>4 DEF TransferOK
  <2> QED
    BY <1>4, <1>7, <2>1, AnswerTypes
<1>9. OutInv' /\ InInv'
  BY <1>4, ControlAnswerKeepsBulk
<1>10. ControlInv'
  <2>1. IdleInv'
    BY <1>4, <1>5, <1>7 DEF IdleInv, RefusalInv, SameAddress, SameConfig
  <2> QED
    BY <1>1, <1>4, <2>1 DEF ControlInv, NoTransfer
<1> QED
  BY <1>1, <1>8, <1>9, <1>10 DEF UsbInv

\* The end of the data of a request is confirmed, or not yet.
LEMMA StatusAnswerKeeps ==
  ASSUME UsbInv, NEW lost \in BOOLEAN, DeviceAnswers(lost), bus.t.ep = 0, bus.kind = "out",
         bus.t.kind = "TOKEN_OUT"
  PROVE  UsbInv'
<1>1. /\ core.st = "TX_HANDSHAKE" /\ bus # NoTransaction /\ core.endp = 0
      /\ TransactionInv' /\ BusOK' /\ TokensInv' /\ ~Answering("out", 0)'
      /\ ep0' = IF ep0.stage = "SETUP" THEN Decoded
                ELSE IF ep0.stage = "DATA_GET" /\ ep0.stall THEN DataGone
                ELSE IF ep0.stage = "STATUS_IN" /\ ep0.stall
                     THEN [ep0 EXCEPT !.stage = "IDLE", !.addr = ep0.addr_next]
                ELSE ep0
      /\ host' = IF Handshake = "HS_ACK" THEN AfterAck
                 ELSE IF Handshake = "HS_STALL" THEN EndsTransfer ELSE host
      /\ ~ep0.stall => Handshake = core.tx_pid
  BY ControlAnswer
<1>2. host.ctl.phase = "status_out" /\ StatusOutInv
  BY <1>1 DEF UsbInv, ControlInv, TokensInv
<1>3. Answering("out", 0) /\ core.tx_pid \in {"HS_NACK", "HS_ACK"}
  BY <1>1 DEF Answering, UsbInv, TransactionInv
<1>4. ep0.stage = IF core.tx_pid = "HS_ACK" THEN "IDLE" ELSE "STATUS_OUT"
  BY <1>2, <1>3 DEF StatusOutInv
<1>5. ep0' = ep0
  BY <1>1, <1>4
<1>6. host' = IF core.tx_pid = "HS_ACK" THEN EndsTransfer ELSE host
  BY <1>1, <1>2, <1>3 DEF StatusOutInv, AfterAck
<1>7. /\ ep0 = [stage |-> ep0.stage, stall |-> ep0.stall, trans_len |-> ep0.trans_len,
                split |-> ep0.split, addr |-> ep0.addr, addr_next |-> ep0.addr_next,
                configured |-> ep0.configured, req |-> ep0.req, descr_addr |-> ep0.descr_addr]
      /\ ep0.stall \in BOOLEAN /\ host.ctl_bit \in {0, 1} /\ TransferOK
      /\ host = [addr |-> host.addr, config |-> host.config, ctl |-> host.ctl, got |-> host.got,
                 ctl_bit |-> host.ctl_bit, bulk |-> host.bulk, out_no |-> host.out_no,
                 in_no |-> host.in_no]
  BY DEF UsbInv, UsbTypeInv
<1>8. CASE core.tx_pid = "HS_ACK"
  <2>1. host' = [addr |-> host.addr, config |-> host.config, ctl |-> NoTransfer, got |-> <<>>,
                 ctl_bit |-> 0, bulk |-> host.bulk, out_no |-> host.out_no, in_no |-> host.in_no]
    BY <1>6, <1>8, EndsTransferShape DEF UsbInv
  <2>2. UsbTypeInv'
    <3>1. TransferOK'
      BY <2>1 DEF TransferOK
    <3>2. /\ ep0' = [stage |-> ep0'.stage, stall |-> ep0'.stall, trans_len |-> ep0'.trans_len,
                     split |-> ep0'.split, addr |-> ep0'.addr, addr_next |-> ep0'.addr_next,
                     configured |-> ep0'.configured, req |-> ep0'.req, descr_addr |-> ep0'.descr_addr]
          /\ ep0'.stall \in BOOLEAN
      BY <1>5, <1>7
    <3> QED
      BY <2>1, <3>1, <3>2, AnswerTypes
  <2>3. OutInv' /\ InInv'
    BY <2>1, ControlAnswerKeepsBulk
  <2>4. IdleInv'
    BY <1>2, <1>4, <1>5, <1>8, <2>1 DEF IdleInv, StatusOutInv, SameAddress, SameConfig
  <2>5. ControlInv'
    BY <1>1, <2>1, <2>4 DEF ControlInv, NoTransfer
  <2> QED
    BY <1>1, <2>2, <2>3, <2>5 DEF UsbInv
<1>9. CASE core.tx_pid = "HS_NACK"
  <2>1. host' = host
    BY <1>6, <1>9
  <2>2. UsbTypeInv'
    <3>1. TransferOK'
      BY <1>7, <2>1 DEF TransferOK
    <3>2. /\ ep0' = [stage |-> ep0'.stage, stall |-> ep0'.stall, trans_len |-> ep0'.trans_len,
                     split |-> ep0'.split, addr |-> ep0'.addr, addr_next |-> ep0'.addr_next,
                     configured |-> ep0'.configured, req |-> ep0'.req, descr_addr |-> ep0'.descr_addr]
          /\ ep0'.stall \in BOOLEAN
      BY <1>5, <1>7
    <3> QED
      BY <1>7, <2>1, <3>1, <3>2, AnswerTypes
  <2>3. OutInv' /\ InInv'
    BY <2>1, ControlAnswerKeepsBulk
  <2>4. StatusOutInv'
    BY <1>1, <1>2, <1>4, <1>5, <1>9, <2>1 DEF StatusOutInv, SameAddress, SameConfig, Asked
  <2>5. ControlInv'
    BY <1>1, <1>2, <2>1, <2>4 DEF UsbInv, ControlInv
  <2> QED
    BY <1>1, <2>2, <2>3, <2>5 DEF UsbInv
<1> QED
  BY <1>3, <1>8, <1>9

\* The lengths, apart from the other constants.
LEMMA LengthsAreNumbers == DESCR_LEN \in Nat /\ DESCR_LEN < 65536 /\ \A n \in RequestLens : n \in Nat
  BY UsbAssumption

\* A request that has been taken is decoded in the clock of its acknowledge.
LEMMA RequestIsDecoded ==
  ASSUME UsbInv, SetupInv, ep0.req = host.ctl, host.ctl.phase = "setup", ep0' = Decoded,
         host' = AfterAck, bus.t.ep = 0, bus.t.kind = "TOKEN_SETUP",
         core.in_bit[0] = 1, core'.in_bit = core.in_bit, ~Sending(0)', ~Sent(0)', TokensInv'
  PROVE  /\ ep0' = [stage |-> ep0'.stage, stall |-> ep0'.stall, trans_len |-> ep0'.trans_len,
                    split |-> ep0'.split, addr |-> ep0'.addr, addr_next |-> ep0'.addr_next,
                    configured |-> ep0'.configured, req |-> ep0'.req, descr_addr |-> ep0'.descr_addr]
         /\ ep0'.stall \in BOOLEAN /\ TransferOK' /\ ControlInv'
         /\ \E ctl : host' = [addr |-> host.addr, config |-> host.config, ctl |-> ctl,
                              got |-> host.got, ctl_bit |-> 1, bulk |-> host.bulk,
                              out_no |-> host.out_no, in_no |-> host.in_no]
<1> DEFINE get == host.ctl.kind \in {"get_descriptor", "get_unknown"}
<1>0. PICK c : c = [phase |-> IF get THEN "data" ELSE "status_in", kind |-> host.ctl.kind,
                    value |-> host.ctl.value]
  OBVIOUS
<1>1. /\ host.ctl = [phase |-> "setup", kind |-> host.ctl.kind, value |-> host.ctl.value]
      /\ host.ctl \in Transfers
      /\ host = [addr |-> host.addr, config |-> host.config, ctl |-> host.ctl, got |-> host.got,
                 ctl_bit |-> host.ctl_bit, bulk |-> host.bulk, out_no |-> host.out_no,
                 in_no |-> host.in_no]
      /\ ep0 = [stage |-> ep0.stage, stall |-> ep0.stall, trans_len |-> ep0.trans_len,
                split |-> ep0.split, addr |-> ep0.addr, addr_next |-> ep0.addr_next,
                configured |-> ep0.configured, req |-> ep0.req, descr_addr |-> ep0.descr_addr]
  BY DEF UsbInv, UsbTypeInv, TransferOK, NoTransfer
<1>2. [host.ctl EXCEPT !.phase = IF get THEN "data" ELSE "status_in"] = c
  BY <1>0, <1>1
<1>3. host' = [host EXCEPT !.ctl = c, !.ctl_bit = 1]
  <2>1. host' = [host EXCEPT !.ctl = [host.ctl EXCEPT !.phase = IF get THEN "data" ELSE "status_in"],
                             !.ctl_bit = 1]
    <3>1. AfterAck = [host EXCEPT !.ctl.phase = IF get THEN "data" ELSE "status_in", !.ctl_bit = 1]
      BY DEF AfterAck
    <3> QED
      BY <3>1, Zenon
  <2> QED
    BY <1>2, <2>1
<1>4. c.kind = host.ctl.kind /\ c.value = host.ctl.value
      /\ (get => c.phase = "data") /\ (~get => c.phase = "status_in")
  BY <1>0
<1>5. c = [phase |-> c.phase, kind |-> c.kind, value |-> c.value]
      /\ c.phase \in {"setup", "data", "status_in", "status_out"}
  BY <1>0
<1>6. host' = [addr |-> host.addr, config |-> host.config, ctl |-> c, got |-> host.got,
               ctl_bit |-> 1, bulk |-> host.bulk, out_no |-> host.out_no, in_no |-> host.in_no]
  BY <1>1, <1>3
<1>7. \/ host.ctl.kind = "get_descriptor" /\ host.ctl.value \in RequestLens
      \/ host.ctl.kind = "get_unknown"
      \/ host.ctl.kind = "set_address"
      \/ host.ctl.kind = "set_configuration" /\ host.ctl.value = TRUE
  BY <1>1 DEF Transfers
<1>8. /\ ep0' = [stage |-> ep0'.stage, stall |-> ep0'.stall, trans_len |-> ep0'.trans_len,
                 split |-> ep0'.split, addr |-> ep0'.addr, addr_next |-> ep0'.addr_next,
                 configured |-> ep0'.configured, req |-> ep0'.req, descr_addr |-> ep0'.descr_addr]
      /\ ep0'.stall \in BOOLEAN /\ (ep0'.stall <=> host.ctl.kind = "get_unknown")
      /\ ep0'.stage = IF get THEN "DATA_GET" ELSE "STATUS_IN"
      /\ host.ctl.kind = "get_descriptor" => /\ ep0'.trans_len = DescriptorWords
                                             /\ ep0'.descr_addr = 0
      /\ ep0'.split = 0 /\ ep0'.addr = ep0.addr
      /\ ep0'.addr_next = IF host.ctl.kind = "set_address" THEN host.ctl.value ELSE ep0.addr
      /\ ep0'.configured = IF host.ctl.kind = "set_configuration" THEN host.ctl.value
                           ELSE ep0.configured
  BY <1>1 DEF Decoded
<1>9. TransferOK'
  <2>1. host'.ctl = c
    BY <1>6
  <2>2. [phase |-> "setup", kind |-> c.kind, value |-> c.value] \in Transfers
    BY <1>1, <1>4
  <2> QED
    BY <1>5, <2>1, <2>2 DEF TransferOK, Transfers
<1>10. ControlInv'
  <2>1. /\ host'.ctl = c /\ host'.got = <<>> /\ host'.addr = host.addr /\ host'.config = host.config
        /\ host'.ctl_bit = 1
    BY <1>6 DEF SetupInv
  <2>2. CASE host.ctl.kind = "get_descriptor"
    <3>1. /\ ep0'.stage = "DATA_GET" /\ ~ep0'.stall /\ ep0'.split = 0 /\ ep0'.descr_addr = 0
          /\ ep0'.trans_len = DescriptorWords /\ ep0'.addr = ep0.addr
          /\ ep0'.configured = ep0.configured
      BY <1>8, <2>2
    <3>2. /\ Asked' = DescriptorWords /\ DescriptorWords \in Nat /\ DescriptorWords % EP0_MAX # 0
      <4>1. host.ctl.value \in RequestLens
        BY <1>7, <2>2
      <4>2. host.ctl.value \in Nat /\ DESCR_LEN \in Nat
        BY <4>1, LengthsAreNumbers
      <4>3. Asked' = DescriptorWords
        BY <1>4, <2>1 DEF Asked, DescriptorWords
      <4>4. DescriptorWords \in Nat
        BY <4>2 DEF DescriptorWords, Smaller
      <4> QED
        BY <4>1, <4>3, <4>4, NoFullLastPacket DEF DescriptorWords, Smaller
    <3>3. 0 % EP0_MAX = 0
      BY UsbAssumption
    <3>4. DescriptorWords # 0 /\ DescriptorWords - 0 = DescriptorWords
      BY <3>2, <3>3
    <3>5. GotLen' = 0 /\ Words0(0) = <<>>
      BY <2>1 DEF GotLen, Words0
    <3>6. DescriptorInv'
      <4>1. SameAddress' /\ SameConfig'
        BY <2>1, <3>1 DEF SetupInv, SameAddress, SameConfig
      <4>2. host'.got = Words0(GotLen') /\ GotLen' \in Nat
        BY <2>1, <3>5
      <4>3. (Asked' - GotLen') % EP0_MAX # 0 /\ GotLen' < Asked'
        BY <3>2, <3>4, <3>5
      <4>4. ep0'.split \in 0 .. EP0_MAX - 1 /\ ep0'.descr_addr = GotLen' + ep0'.split
        BY <3>1, <3>5, UsbAssumption
      <4>5. ep0'.descr_addr < Asked' /\ ep0'.trans_len = Asked' - ep0'.descr_addr
        BY <3>1, <3>2, <3>4
      <4> QED
        BY <2>1, <3>1, <4>1, <4>2, <4>3, <4>4, <4>5 DEF DescriptorInv
    <3> QED
      BY <1>4, <2>1, <2>2, <3>6 DEF ControlInv
  <2>3. CASE host.ctl.kind = "get_unknown"
    <3>1. /\ ep0'.stage = "DATA_GET" /\ ep0'.stall /\ ep0'.addr = ep0.addr
          /\ ep0'.configured = ep0.configured
      BY <1>8, <2>3
    <3>2. RefusalInv'
      BY <2>1, <3>1 DEF SetupInv, RefusalInv, SameAddress, SameConfig
    <3> QED
      BY <1>4, <2>1, <2>3, <3>2 DEF ControlInv
  <2>4. CASE host.ctl.kind \in {"set_address", "set_configuration"}
    <3>1. ep0'.stage = "STATUS_IN" /\ ~ep0'.stall /\ ep0'.addr = ep0.addr
      BY <1>8, <2>4
    <3>2. host.ctl.kind = "set_address" =>
            ep0'.addr_next = host.ctl.value /\ ep0'.configured = ep0.configured
      BY <1>8
    <3>3. host.ctl.kind = "set_configuration" =>
            ep0'.addr_next = ep0.addr /\ ep0'.configured = host.ctl.value
      BY <1>8
    <3>4. StatusInInv'
      BY <1>4, <2>1, <3>1, <3>2, <3>3 DEF SetupInv, StatusInInv, SameAddress, SameConfig
    <3> QED
      BY <1>4, <2>1, <2>4, <3>4 DEF ControlInv
  <2> QED
    BY <1>7, <2>2, <2>3, <2>4
<1> QED
  BY <1>6, <1>8, <1>9, <1>10

\* The acknowledge of a request, or its refusal for want of room.
LEMMA SetupAnswerKeeps ==
  ASSUME UsbInv, NEW lost \in BOOLEAN, DeviceAnswers(lost), bus.t.ep = 0, bus.kind = "out",
         bus.t.kind = "TOKEN_SETUP"
  PROVE  UsbInv'
<1>1. /\ core.st = "TX_HANDSHAKE" /\ bus # NoTransaction /\ core.endp = 0 /\ core'.in_bit = core.in_bit
      /\ core'.st = "RX_IDLE"
      /\ TransactionInv' /\ BusOK' /\ TokensInv' /\ ~Answering("out", 0)'
      /\ ~Sending(0)' /\ ~Sent(0)'
      /\ ep0' = IF ep0.stage = "SETUP" THEN Decoded
                ELSE IF ep0.stage = "DATA_GET" /\ ep0.stall THEN DataGone
                ELSE IF ep0.stage = "STATUS_IN" /\ ep0.stall
                     THEN [ep0 EXCEPT !.stage = "IDLE", !.addr = ep0.addr_next]
                ELSE ep0
      /\ host' = IF Handshake = "HS_ACK" THEN AfterAck
                 ELSE IF Handshake = "HS_STALL" THEN EndsTransfer ELSE host
      /\ ~ep0.stall => Handshake = core.tx_pid
  BY ControlAnswer
<1>2. host.ctl.phase = "setup" /\ SetupInv
  BY <1>1 DEF UsbInv, ControlInv, TokensInv
<1>3. Answering("out", 0) /\ core.tx_pid \in {"HS_NACK", "HS_ACK"} /\ Handshake = core.tx_pid
  BY <1>1, <1>2 DEF Answering, UsbInv, TransactionInv, SetupInv
<1>4. CASE core.tx_pid = "HS_ACK"
  <2>1. ep0.stage = "SETUP" /\ ep0.req = host.ctl /\ core.in_bit[0] = 1
    BY <1>2, <1>3, <1>4 DEF SetupInv
  <2>2. ep0' = Decoded /\ host' = AfterAck
    BY <1>1, <1>3, <1>4, <2>1
  <2>4. /\ ep0' = [stage |-> ep0'.stage, stall |-> ep0'.stall, trans_len |-> ep0'.trans_len,
                   split |-> ep0'.split, addr |-> ep0'.addr, addr_next |-> ep0'.addr_next,
                   configured |-> ep0'.configured, req |-> ep0'.req, descr_addr |-> ep0'.descr_addr]
        /\ ep0'.stall \in BOOLEAN /\ TransferOK' /\ ControlInv'
        /\ \E ctl : host' = [addr |-> host.addr, config |-> host.config, ctl |-> ctl,
                             got |-> host.got, ctl_bit |-> 1, bulk |-> host.bulk,
                             out_no |-> host.out_no, in_no |-> host.in_no]
    BY <1>1, <1>2, <2>1, <2>2, RequestIsDecoded
  <2>5. PICK ctl : host' = [addr |-> host.addr, config |-> host.config, ctl |-> ctl,
                            got |-> host.got, ctl_bit |-> 1, bulk |-> host.bulk,
                            out_no |-> host.out_no, in_no |-> host.in_no]
    BY <2>4
  <2>6. UsbTypeInv'
    BY <2>4, <2>5, AnswerTypes
  <2>7. OutInv' /\ InInv'
    BY <2>5, ControlAnswerKeepsBulk
  <2> QED
    BY <1>1, <2>4, <2>6, <2>7 DEF UsbInv
<1>5. CASE core.tx_pid = "HS_NACK"
  <2>1. host' = host
    BY <1>1, <1>3, <1>5
  <2>2. ep0.stage = "IDLE"
    BY <1>2, <1>5 DEF SetupInv
  <2>3. ep0' = ep0
    BY <1>1, <2>2
  <2>4. /\ ep0 = [stage |-> ep0.stage, stall |-> ep0.stall, trans_len |-> ep0.trans_len,
                  split |-> ep0.split, addr |-> ep0.addr, addr_next |-> ep0.addr_next,
                  configured |-> ep0.configured, req |-> ep0.req, descr_addr |-> ep0.descr_addr]
        /\ ep0.stall \in BOOLEAN /\ host.ctl_bit \in {0, 1} /\ TransferOK
        /\ host = [addr |-> host.addr, config |-> host.config, ctl |-> host.ctl, got |-> host.got,
                   ctl_bit |-> host.ctl_bit, bulk |-> host.bulk, out_no |-> host.out_no,
                   in_no |-> host.in_no]
    BY DEF UsbInv, UsbTypeInv
  <2>5. UsbTypeInv'
    <3>1. TransferOK'
      BY <2>1, <2>4 DEF TransferOK
    <3>2. /\ ep0' = [stage |-> ep0'.stage, stall |-> ep0'.stall, trans_len |-> ep0'.trans_len,
                     split |-> ep0'.split, addr |-> ep0'.addr, addr_next |-> ep0'.addr_next,
                     configured |-> ep0'.configured, req |-> ep0'.req, descr_addr |-> ep0'.descr_addr]
          /\ ep0'.stall \in BOOLEAN
      BY <2>3, <2>4
    <3> QED
      BY <2>1, <2>4, <3>1, <3>2, AnswerTypes
  <2>6. OutInv' /\ InInv'
    BY <2>1, ControlAnswerKeepsBulk
  <2>7. SetupInv'
    BY <1>1, <1>2, <2>1, <2>2, <2>3 DEF SetupInv, SameAddress, SameConfig
  <2>8. ControlInv'
    BY <1>1, <1>2, <2>1, <2>7 DEF ControlInv
  <2> QED
    BY <1>1, <2>5, <2>6, <2>8 DEF UsbInv
<1> QED
  BY <1>3, <1>4, <1>5

\* Every handshake of the device.
LEMMA AnswerKeeps ==
  ASSUME UsbInv, NEW lost \in BOOLEAN, DeviceAnswers(lost)
  PROVE  UsbInv'
<1>1. bus # NoTransaction /\ bus.kind \in {"in", "out"} /\ bus.t.ep \in {0, 1}
  BY AnswerCycle DEF Endpoints
<1>2. bus.kind = "out" => bus.t.kind \in {"TOKEN_OUT", "TOKEN_SETUP"}
  BY <1>1 DEF UsbInv, UsbTypeInv, BusOK
<1> QED
  BY <1>1, <1>2, BulkAnswerKeeps, RefusalKeeps, StatusAnswerKeeps, SetupAnswerKeeps

---------------------------------------------------------------------------
(* The packets of the device *)

\* A sequence that is not empty has a first word and a rest.
LEMMA HeadAndTail ==
  ASSUME NEW s \in Seq(Nat), s # <<>>
  PROVE  Head(s) \in Nat /\ Tail(s) \in Seq(Nat) /\ s = <<Head(s)>> \o Tail(s)
<1>1. Head(s) \in Nat /\ Tail(s) \in Seq(Nat) /\ Len(Tail(s)) = Len(s) - 1 /\ Len(s) \in Nat \ {0}
  BY HeadTailProperties, EmptySeq, LenProperties
<1>2. /\ <<Head(s)>> \o Tail(s) \in Seq(Nat) /\ Len(<<Head(s)>> \o Tail(s)) = Len(s)
  BY <1>1
<1>3. ASSUME NEW i \in 1 .. Len(s)
      PROVE  (<<Head(s)>> \o Tail(s))[i] = s[i]
  BY <1>1, <1>2
<1> QED
  BY <1>1, <1>2, <1>3

\* What the clock of a word does to the device.
LEMMA SendCycle ==
  ASSUME UsbInv, DeviceSends
  PROVE  /\ core.st = "TX_DATA" /\ bus.kind = "in" /\ core.endp = bus.t.ep /\ bus.t.ep \in Endpoints
         /\ bus = [kind |-> "in", t |-> bus.t, pid |-> bus.pid, words |-> bus.words]
         /\ bus.words \in Seq(Nat)
         /\ bus' = [kind |-> "in", t |-> bus.t, pid |-> core.tx_pid, words |-> bus.words \o TxWord]
         /\ UNCHANGED <<host, out_due, in_due>> /\ rx1' = rx1
         /\ core' = [st |-> IF WordIsLast THEN "TX_DATA_COMPLETE" ELSE "TX_DATA",
                     tx_pid |-> core.tx_pid, out_bit |-> core.out_bit,
                     in_bit |-> IF WordIsLast THEN [core.in_bit EXCEPT ![core.endp] = 1 - @]
                                ELSE core.in_bit,
                     endp |-> core.endp]
         /\ ep0' = IF core.endp = 1 THEN ep0
                   ELSE IF ep0.stage = "DATA_GET" THEN DataGone
                   ELSE IF ep0.stage = "STATUS_IN"
                        THEN [ep0 EXCEPT !.stage = "IDLE", !.addr = ep0.addr_next]
                   ELSE ep0
         /\ tx1' = IF core.endp = 0 THEN tx1
                   ELSE IF tx1.pos = EP1_WORDS THEN [packets |-> Tail(tx1.packets) \o <<>>, pos |-> 1]
                   ELSE [packets |-> tx1.packets, pos |-> tx1.pos + 1]
<1>1. /\ core.st = "TX_DATA" /\ bus' = [bus EXCEPT !.pid = core.tx_pid, !.words = @ \o TxWord]
      /\ DeviceCycle(Nothing, FALSE, <<>>) /\ UNCHANGED <<host, out_due, in_due>>
  BY DEF DeviceSends
<1>2. bus # NoTransaction /\ bus.kind # "out" /\ core.endp = bus.t.ep
  BY <1>1 DEF UsbInv, TransactionInv
<1>3. /\ bus = [kind |-> "in", t |-> bus.t, pid |-> bus.pid, words |-> bus.words]
      /\ bus.kind = "in" /\ bus.t.ep \in Endpoints /\ bus.words \in Seq(Nat)
  BY <1>2 DEF UsbInv, UsbTypeInv, BusOK
<1>4. bus' = [kind |-> "in", t |-> bus.t, pid |-> core.tx_pid, words |-> bus.words \o TxWord]
  BY <1>1, <1>3
<1>5. DeviceWorks
  BY <1>1 DEF DeviceWorks
<1>6. /\ core'.st = IF WordIsLast THEN "TX_DATA_COMPLETE" ELSE "TX_DATA"
      /\ core'.tx_pid = core.tx_pid /\ core'.endp = core.endp /\ core'.out_bit = core.out_bit
      /\ core'.in_bit = IF WordIsLast THEN [core.in_bit EXCEPT ![core.endp] = 1 - @] ELSE core.in_bit
      /\ rx1' = rx1
      /\ ep0' = IF ep0.stage = "SETUP" THEN Decoded
                ELSE IF ep0.stage = "DATA_GET" /\ TxReady(0) THEN DataGone
                ELSE IF ep0.stage = "STATUS_IN" /\ TxReady(0)
                     THEN [ep0 EXCEPT !.stage = "IDLE", !.addr = ep0.addr_next]
                ELSE ep0
      /\ tx1' = IF ~TxReady(1) THEN tx1
                ELSE IF tx1.pos = EP1_WORDS THEN [packets |-> Tail(tx1.packets) \o <<>>, pos |-> 1]
                ELSE [packets |-> tx1.packets, pos |-> tx1.pos + 1]
  BY <1>1, <1>5, WorkCycle DEF UsbInv
<1>7. core' = [st |-> core'.st, tx_pid |-> core'.tx_pid, out_bit |-> core'.out_bit,
               in_bit |-> core'.in_bit, endp |-> core'.endp]
  BY <1>1 DEF DeviceCycle, CoreCycle
<1>8. (TxReady(0) <=> core.endp = 0) /\ (TxReady(1) <=> core.endp = 1)
  BY <1>1 DEF TxReady
<1>9. core.endp \in {0, 1} /\ ep0.stage # "SETUP"
  BY <1>1, <1>2, <1>3, SetupIsAnswered DEF Endpoints
<1>10. ep0' = IF core.endp = 1 THEN ep0
              ELSE IF ep0.stage = "DATA_GET" THEN DataGone
              ELSE IF ep0.stage = "STATUS_IN"
                   THEN [ep0 EXCEPT !.stage = "IDLE", !.addr = ep0.addr_next]
              ELSE ep0
  BY <1>6, <1>8, <1>9
<1>11. tx1' = IF core.endp = 0 THEN tx1
              ELSE IF tx1.pos = EP1_WORDS THEN [packets |-> Tail(tx1.packets) \o <<>>, pos |-> 1]
              ELSE [packets |-> tx1.packets, pos |-> tx1.pos + 1]
  BY <1>6, <1>8, <1>9
<1> HIDE DEF WordIsLast, TxWord
<1> QED
  BY <1>1, <1>2, <1>3, <1>4, <1>6, <1>7, <1>10, <1>11

\* What does not depend on the endpoint.
LEMMA SendTypes ==
  ASSUME UsbInv, DeviceSends, TxWord \in Seq(Nat),
         ep0' = [stage |-> ep0'.stage, stall |-> ep0'.stall, trans_len |-> ep0'.trans_len,
                 split |-> ep0'.split, addr |-> ep0'.addr, addr_next |-> ep0'.addr_next,
                 configured |-> ep0'.configured, req |-> ep0'.req, descr_addr |-> ep0'.descr_addr],
         ep0'.stall = ep0.stall
  PROVE  /\ UsbTypeInv' /\ TransactionInv' /\ TokensInv' /\ OutInv'
         /\ ~Answering("out", 0)'
<1>1. /\ core.st = "TX_DATA" /\ bus.kind = "in" /\ core.endp = bus.t.ep /\ bus.t.ep \in Endpoints
      /\ bus.words \in Seq(Nat) /\ bus # NoTransaction
      /\ bus' = [kind |-> "in", t |-> bus.t, pid |-> core.tx_pid, words |-> bus.words \o TxWord]
      /\ UNCHANGED <<host, out_due, in_due>> /\ rx1' = rx1
      /\ core'.st \in {"TX_DATA", "TX_DATA_COMPLETE"}
      /\ core'.endp = core.endp /\ core'.out_bit = core.out_bit
      /\ core'.in_bit \in {core.in_bit, [core.in_bit EXCEPT ![core.endp] = 1 - @]}
      /\ core' = [st |-> core'.st, tx_pid |-> core'.tx_pid, out_bit |-> core'.out_bit,
                  in_bit |-> core'.in_bit, endp |-> core'.endp]
  BY SendCycle DEF NoTransaction
<1>2. bus.words \o TxWord \in Seq(Nat)
  BY <1>1, ConcatProperties
<1>3. /\ bus.t = [kind |-> bus.t.kind, ep |-> bus.t.ep, bit |-> bus.t.bit]
      /\ bus.t.kind = "TOKEN_IN" /\ bus.t.bit \in {0, 1}
  BY <1>1 DEF UsbInv, UsbTypeInv, BusOK
<1>4. BusOK'
  BY <1>1, <1>2, <1>3 DEF BusOK
<1>5. core'.in_bit \in [Endpoints -> {0, 1}] /\ core'.out_bit \in [Endpoints -> {0, 1}]
  BY <1>1 DEF UsbInv, UsbTypeInv
<1>6. UsbTypeInv'
  BY <1>1, <1>4, <1>5 DEF UsbInv, UsbTypeInv, TransferOK, CoreStates
<1>7. bus'.t = bus.t /\ bus'.kind = "in" /\ bus' # NoTransaction
  BY <1>1 DEF NoTransaction
<1>8. TransactionInv'
  BY <1>1, <1>7 DEF UsbInv, TransactionInv
<1>9. TokensInv'
  BY <1>1, <1>7 DEF UsbInv, ControlInv, TokensInv
<1>10. OutInv'
  BY <1>1, <1>7 DEF UsbInv, OutInv, Receiving, Answering
<1>11. ~Answering("out", 0)'
  BY <1>1 DEF Answering
<1> QED
  BY <1>6, <1>8, <1>9, <1>10, <1>11

\* A word of a bulk packet; with the last one the packet leaves the FIFO.
LEMMA SendsBulkKeeps ==
  ASSUME UsbInv, DeviceSends, core.endp = 1
  PROVE  UsbInv'
<1>1. /\ core.st = "TX_DATA" /\ bus.kind = "in" /\ bus.t.ep = 1
      /\ bus' = [kind |-> "in", t |-> bus.t, pid |-> core.tx_pid, words |-> bus.words \o TxWord]
      /\ UNCHANGED <<host, out_due, in_due>> /\ ep0' = ep0
      /\ core' = [st |-> IF WordIsLast THEN "TX_DATA_COMPLETE" ELSE "TX_DATA",
                  tx_pid |-> core.tx_pid, out_bit |-> core.out_bit,
                  in_bit |-> IF WordIsLast THEN [core.in_bit EXCEPT ![core.endp] = 1 - @]
                             ELSE core.in_bit,
                  endp |-> core.endp]
      /\ tx1' = IF tx1.pos = EP1_WORDS THEN [packets |-> Tail(tx1.packets) \o <<>>, pos |-> 1]
                ELSE [packets |-> tx1.packets, pos |-> tx1.pos + 1]
  BY SendCycle
<1>2. Sending(1) /\ ~Sent(1) /\ ~Sending(0) /\ ~Sent(0) /\ ~Answering("out", 0)
  BY <1>1 DEF Sending, Sent, Answering
<1>3. /\ tx1.packets \in Seq(Nat) /\ tx1.packets # <<>> /\ tx1.pos \in 1 .. EP1_WORDS
      /\ bus.words = Copies(tx1.pos - 1, Head(tx1.packets)) /\ core.tx_pid = Data(host.in_no % 2)
      /\ in_due = tx1.packets /\ core.in_bit[1] = host.in_no % 2 /\ bus.t.bit = host.in_no % 2
  BY <1>1, <1>2 DEF UsbInv, InInv
<1>4. PICK x \in Nat, rest \in Seq(Nat) :
         x = Head(tx1.packets) /\ rest = Tail(tx1.packets) /\ tx1.packets = <<x>> \o rest
  BY <1>3, HeadAndTail
<1>5. (WordIsLast <=> tx1.pos = EP1_WORDS) /\ TxWord = <<x>>
  BY <1>4 DEF WordIsLast, TxWord
<1>6. bus.words \o TxWord = Copies(tx1.pos, x)
  <2>1. PICK k \in Nat : k = tx1.pos - 1 /\ k + 1 = tx1.pos
    BY <1>3, UsbAssumption
  <2> QED
    BY <1>3, <1>4, <1>5, <2>1, CopiesGrow
<1>7. TxWord \in Seq(Nat)
  BY <1>5
<1>8. UsbTypeInv' /\ TransactionInv' /\ TokensInv' /\ OutInv' /\ ~Answering("out", 0)'
  <2>1. ep0' = [stage |-> ep0'.stage, stall |-> ep0'.stall, trans_len |-> ep0'.trans_len,
                split |-> ep0'.split, addr |-> ep0'.addr, addr_next |-> ep0'.addr_next,
                configured |-> ep0'.configured, req |-> ep0'.req, descr_addr |-> ep0'.descr_addr]
        /\ ep0'.stall = ep0.stall
    BY <1>1 DEF UsbInv, UsbTypeInv
  <2> QED
    BY <1>7, <2>1, SendTypes
<1>9. core.in_bit \in [Endpoints -> {0, 1}]
  BY DEF UsbInv, UsbTypeInv
<1>10. bus'.t = bus.t /\ bus'.kind = "in" /\ bus'.words = Copies(tx1.pos, x) /\ bus'.pid = core.tx_pid
  BY <1>1, <1>6
<1>11. InInv'
  <2>1. CASE tx1.pos # EP1_WORDS
    <3>1. /\ core'.st = "TX_DATA" /\ core'.in_bit = core.in_bit /\ core'.endp = 1
          /\ core'.tx_pid = core.tx_pid
          /\ tx1' = [packets |-> tx1.packets, pos |-> tx1.pos + 1]
      BY <1>1, <1>5, <2>1
    <3>2. Sending(1)' /\ ~Sent(1)' /\ tx1.pos + 1 \in 1 .. EP1_WORDS /\ tx1.pos + 1 - 1 = tx1.pos
      BY <1>3, <2>1, <3>1, UsbAssumption DEF Sending, Sent
    <3>3. /\ tx1'.packets = tx1.packets /\ tx1'.pos = tx1.pos + 1 /\ Head(tx1.packets) = x
          /\ tx1' = [packets |-> tx1'.packets, pos |-> tx1'.pos]
      BY <1>4, <3>1
    <3>4. host' = host /\ in_due' = tx1.packets /\ core'.in_bit[1] = host.in_no % 2
      BY <1>1, <1>3, <3>1
    <3> QED
      BY <1>3, <1>10, <3>1, <3>2, <3>3, <3>4 DEF InInv
  <2>2. CASE tx1.pos = EP1_WORDS
    <3>1. /\ core'.st = "TX_DATA_COMPLETE" /\ core'.endp = 1
          /\ core'.in_bit = [core.in_bit EXCEPT ![1] = 1 - @]
          /\ tx1' = [packets |-> rest \o <<>>, pos |-> 1]
      BY <1>1, <1>4, <1>5, <2>2
    <3>2. core'.in_bit[1] = 1 - (host.in_no % 2)
      BY <1>3, <1>9, <3>1 DEF Endpoints
    <3>3. rest \o <<>> = rest
      BY <1>4, ConcatEmptySeq
    <3>4. Sent(1)' /\ ~Sending(1)' /\ 1 \in 1 .. EP1_WORDS
      BY <3>1, UsbAssumption DEF Sending, Sent
    <3>5. in_due' # <<>> /\ Head(in_due') = x /\ in_due' = <<x>> \o rest
      BY <1>1, <1>3, <1>4
    <3> QED
      BY <1>1, <1>3, <1>4, <1>10, <2>2, <3>1, <3>2, <3>3, <3>4, <3>5 DEF InInv
  <2> QED
    BY <2>1, <2>2
<1>12. ControlInv'
  <2>1. core'.in_bit[0] = core.in_bit[0] /\ host' = host /\ ControlInv /\ core'.st # "RX_DATA"
    BY <1>1, <1>9 DEF UsbInv, Endpoints
  <2>2. ~Sending(0)' /\ ~Sent(0)'
    BY <1>1 DEF Sending, Sent
  <2>3. (IdleInv => IdleInv') /\ (RefusalInv => RefusalInv')
    BY <1>1, <1>2, <2>1, <2>2 DEF IdleInv, RefusalInv, SameAddress, SameConfig
  <2>4. SetupInv => SetupInv'
    BY <1>1, <1>2, <1>8, <2>1, <2>2 DEF SetupInv, SameAddress, SameConfig
  <2>5. DescriptorInv => DescriptorInv'
    BY <1>1, <1>2, <1>8, <2>1, <2>2 DEF DescriptorInv, SameAddress, SameConfig, GotLen, Asked
  <2>6. (StatusInInv => StatusInInv') /\ (StatusOutInv => StatusOutInv')
    BY <1>1, <1>2, <1>8, <2>1, <2>2 DEF StatusInInv, StatusOutInv, SameAddress, SameConfig, Asked
  <2> QED
    BY <1>8, <2>1, <2>3, <2>4, <2>5, <2>6 DEF ControlInv
<1> QED
  BY <1>8, <1>11, <1>12 DEF UsbInv

\* A piece of the descriptor, and its next word.
LEMMA WordsGrow ==
  ASSUME NEW l \in Nat, NEW n \in Nat
  PROVE  /\ Words(l, n) \in Seq(Nat) /\ Len(Words(l, n)) = n
         /\ Words(l, n) \o <<l + n>> = Words(l, n + 1)
<1>1. Words(l, n) \in Seq(Nat) /\ Len(Words(l, n)) = n
  BY DEF Words
<1>2. Append(Words(l, n), l + n) = Words(l, n + 1)
  <2>1. \A i \in 1 .. n + 1 : Append(Words(l, n), l + n)[i] = l + i - 1
    BY <1>1 DEF Words
  <2> QED
    BY <1>1, <2>1 DEF Words
<1>3. Words(l, n) \o <<l + n>> = Append(Words(l, n), l + n)
  BY <1>1
<1> QED
  BY <1>1, <1>2, <1>3

\* The length of what was read of it.
LEMMA WordsLength ==
  ASSUME NEW n \in Nat
  PROVE  Len(Words0(n)) = n
  BY DEF Words0

\* A piece of the descriptor continues what was read of it.
LEMMA WordsFollow ==
  ASSUME NEW l \in Nat, NEW n \in Nat
  PROVE  /\ Words0(l) \o Words(l, n) = Words0(l + n) /\ Len(Words0(l)) = l
         /\ Words0(l) \in Seq(Nat)
<1>1. Words0(l) \in Seq(Nat) /\ Len(Words0(l)) = l /\ Words(l, n) \in Seq(Nat)
      /\ Len(Words(l, n)) = n
  BY DEF Words0, Words
<1>2. Words0(l) \o Words(l, n) \in Seq(Nat) /\ Len(Words0(l) \o Words(l, n)) = l + n
  BY <1>1, ConcatProperties
<1>3. Words0(l + n) \in Seq(Nat) /\ Len(Words0(l + n)) = l + n
  BY DEF Words0
<1>4. ASSUME NEW i \in 1 .. l + n
      PROVE  (Words0(l) \o Words(l, n))[i] = Words0(l + n)[i]
  <2>1. CASE i <= l
    BY <1>1, <2>1 DEF Words0
  <2>2. CASE i > l
    <3>1. i - l \in 1 .. n
      BY <2>2
    <3>2. PICK s \in Seq(Nat), t \in Seq(Nat) : s = Words0(l) /\ t = Words(l, n)
      BY <1>1
    <3>3. (s \o t)[i] = t[i - l]
      <4>1. Len(s) = l /\ Len(t) = n
        BY <1>1, <3>2
      <4> QED
        BY <2>2, <4>1
    <3>4. (Words0(l) \o Words(l, n))[i] = Words(l, n)[i - l]
      BY <3>2, <3>3
    <3> QED
      BY <3>1, <3>4 DEF Words0, Words
  <2>3. i <= l \/ i > l
    OBVIOUS
  <2> QED
    BY <2>1, <2>2, <2>3, Zenon
<1>5. Words0(l) \o Words(l, n) = Words0(l + n)
  BY <1>2, <1>3, <1>4, SeqEqual
<1> QED
  BY <1>1, <1>5

\* A word of the control endpoint leaves the bulk endpoint as it is.
LEMMA SendingControl ==
  ASSUME UsbInv, DeviceSends, core.endp = 0, TxWord \in Seq(Nat),
         ep0' = [stage |-> ep0'.stage, stall |-> ep0'.stall, trans_len |-> ep0'.trans_len,
                 split |-> ep0'.split, addr |-> ep0'.addr, addr_next |-> ep0'.addr_next,
                 configured |-> ep0'.configured, req |-> ep0'.req, descr_addr |-> ep0'.descr_addr],
         ep0'.stall = ep0.stall
  PROVE  UsbTypeInv' /\ TransactionInv' /\ TokensInv' /\ OutInv' /\ InInv'
<1>1. UsbTypeInv' /\ TransactionInv' /\ TokensInv' /\ OutInv'
  BY SendTypes
<1>2. /\ core.st = "TX_DATA" /\ bus.kind = "in" /\ bus'.t = bus.t /\ bus'.kind = bus.kind
      /\ UNCHANGED <<host, out_due, in_due>> /\ tx1' = tx1 /\ core'.endp = 0
      /\ core'.in_bit = IF WordIsLast THEN [core.in_bit EXCEPT ![core.endp] = 1 - @] ELSE core.in_bit
      /\ bus.t.ep = 0
  BY SendCycle
<1>3. core'.in_bit[1] = core.in_bit[1]
  BY <1>2 DEF UsbInv, UsbTypeInv, Endpoints
<1>4. ~Sending(1) /\ ~Sent(1) /\ ~Sending(1)' /\ ~Sent(1)'
  BY <1>2 DEF Sending, Sent
<1>5. InInv'
  BY <1>2, <1>3, <1>4 DEF UsbInv, InInv
<1> QED
  BY <1>1, <1>5

\* A word of the descriptor goes out; with the last one of a packet or of the descriptor the
\* packet is over.
LEMMA SendsDescriptorKeeps ==
  ASSUME UsbInv, DeviceSends, core.endp = 0, host.ctl.phase = "data"
  PROVE  UsbInv'
<1>1. /\ core.st = "TX_DATA" /\ bus.kind = "in" /\ bus.t.ep = 0
      /\ bus' = [kind |-> "in", t |-> bus.t, pid |-> core.tx_pid, words |-> bus.words \o TxWord]
      /\ host' = host
      /\ core' = [st |-> IF WordIsLast THEN "TX_DATA_COMPLETE" ELSE "TX_DATA",
                  tx_pid |-> core.tx_pid, out_bit |-> core.out_bit,
                  in_bit |-> IF WordIsLast THEN [core.in_bit EXCEPT ![core.endp] = 1 - @]
                             ELSE core.in_bit,
                  endp |-> core.endp]
      /\ ep0.stage = "DATA_GET" => ep0' = DataGone
  BY SendCycle
<1>2. Sending(0) /\ ~Sent(0)
  BY <1>1 DEF Sending, Sent
<1>3. host.ctl.kind = "get_descriptor" /\ DescriptorInv
  BY <1>2 DEF UsbInv, ControlInv, RefusalInv
<1>4. /\ ~ep0.stall /\ SameAddress /\ SameConfig
      /\ host.got = Words0(GotLen) /\ GotLen \in Nat /\ (Asked - GotLen) % EP0_MAX # 0 /\ GotLen < Asked
      /\ ep0.stage = "DATA_GET" /\ core.in_bit[0] = host.ctl_bit
      /\ ep0.split \in 0 .. EP0_MAX - 1 /\ ep0.descr_addr = GotLen + ep0.split
      /\ ep0.descr_addr < Asked /\ ep0.trans_len = Asked - ep0.descr_addr
      /\ bus.words = Words(GotLen, ep0.split) /\ core.tx_pid = Data(host.ctl_bit)
  BY <1>2, <1>3 DEF DescriptorInv
<1>5. Asked \in Nat /\ Asked < 65536
  <2>1. host.ctl.value \in RequestLens
    BY <1>3 DEF UsbInv, UsbTypeInv, TransferOK, Transfers, NoTransfer
  <2>2. host.ctl.value \in Nat
    BY <2>1, LengthsAreNumbers
  <2> QED
    BY <2>2, LengthsAreNumbers DEF Asked, Smaller
<1>6. PICK l \in Nat, s \in Nat, a \in Nat : l = GotLen /\ s = ep0.split /\ a = Asked
  BY <1>4, <1>5, UsbAssumption
<1>7. PICK m \in Nat \ {0} : m = EP0_MAX
  BY UsbAssumption
<1>8. s < m /\ l + s < a /\ a < 65536 /\ ep0.trans_len = a - (l + s) /\ ep0.descr_addr = l + s
      /\ (a - l) % m # 0
  BY <1>4, <1>5, <1>6, <1>7
<1>9. TxWord = <<l + s>>
  BY <1>1, <1>4, <1>8 DEF TxWord
<1>10. bus.words \o TxWord = Words(l, s + 1) /\ TxWord \in Seq(Nat) /\ Len(Words(l, s + 1)) = s + 1
  <2>1. bus.words = Words(l, s)
    BY <1>4, <1>6
  <2>2. Words(l, s) \o <<l + s>> = Words(l, s + 1) /\ Len(Words(l, s + 1)) = s + 1
    BY WordsGrow
  <2>3. <<l + s>> \in Seq(Nat)
    OBVIOUS
  <2> QED
    BY <1>9, <2>1, <2>2, <2>3
<1>11. WordIsLast <=> a - (l + s) = 1 \/ s = m - 1
  BY <1>4, <1>6, <1>7, <1>8 DEF WordIsLast
<1>12. a - (l + s) = 1 => s # m - 1
  <2> SUFFICES ASSUME a - l = m  PROVE  FALSE
    BY <1>8
  <2>1. m % m = 0
    BY ModuloOnce
  <2> QED
    BY <1>8, <2>1
<1>13. ep0 = [stage |-> ep0.stage, stall |-> ep0.stall, trans_len |-> ep0.trans_len,
              split |-> ep0.split, addr |-> ep0.addr, addr_next |-> ep0.addr_next,
              configured |-> ep0.configured, req |-> ep0.req, descr_addr |-> ep0.descr_addr]
  BY DEF UsbInv, UsbTypeInv
<1>14. /\ ep0' = [stage |-> ep0'.stage, stall |-> ep0'.stall, trans_len |-> ep0'.trans_len,
                  split |-> ep0'.split, addr |-> ep0'.addr, addr_next |-> ep0'.addr_next,
                  configured |-> ep0'.configured, req |-> ep0'.req, descr_addr |-> ep0'.descr_addr]
       /\ ep0'.stall = ep0.stall /\ ep0'.addr = ep0.addr /\ ep0'.configured = ep0.configured
       /\ a - (l + s) = 1 => ep0'.stage = "STATUS_OUT"
       /\ a - (l + s) # 1 => /\ ep0'.stage = "DATA_GET" /\ ep0'.descr_addr = l + s + 1
                             /\ ep0'.split = IF s = m - 1 THEN 0 ELSE s + 1
                             /\ ep0'.trans_len = a - (l + s + 1)
  <2>1. (a - (l + s) - 1) % 65536 = a - (l + s + 1)
    BY <1>8
  <2>2. (s + 1) % m = IF s = m - 1 THEN 0 ELSE s + 1
    <3>1. CASE s = m - 1
      <4>1. m % m = 0
        BY ModuloOnce
      <4> QED
        BY <3>1, <4>1
    <3>2. CASE s # m - 1
      <4>1. s + 1 \in 0 .. m - 1
        BY <1>8, <3>2
      <4> QED
        BY <3>2, <4>1
    <3> QED
      BY <3>1, <3>2
  <2>3. ep0' = IF ep0.trans_len = 1 /\ ep0.split # EP0_MAX - 1 THEN [ep0 EXCEPT !.stage = "STATUS_OUT"]
               ELSE [ep0 EXCEPT !.descr_addr = @ + 1, !.split = (@ + 1) % EP0_MAX,
                                !.trans_len = (@ - 1) % 65536]
    BY <1>1, <1>4 DEF DataGone
  <2>4. (ep0.trans_len = 1 /\ ep0.split # EP0_MAX - 1) <=> a - (l + s) = 1
    BY <1>6, <1>7, <1>8, <1>12
  <2>5. /\ ep0.descr_addr + 1 = l + s + 1 /\ (ep0.trans_len - 1) % 65536 = a - (l + s + 1)
        /\ (ep0.split + 1) % EP0_MAX = IF s = m - 1 THEN 0 ELSE s + 1
    BY <1>6, <1>7, <1>8, <2>1, <2>2
  <2>6. CASE a - (l + s) = 1
    <3>1. ep0' = [ep0 EXCEPT !.stage = "STATUS_OUT"]
      BY <2>3, <2>4, <2>6
    <3> QED
      BY <1>13, <2>6, <3>1
  <2>7. CASE a - (l + s) # 1
    <3>1. ep0' = [ep0 EXCEPT !.descr_addr = @ + 1, !.split = (@ + 1) % EP0_MAX,
                             !.trans_len = (@ - 1) % 65536]
      BY <2>3, <2>4, <2>7
    <3>2. PICK d, q, n : d = ep0.descr_addr + 1 /\ q = (ep0.split + 1) % EP0_MAX
                         /\ n = (ep0.trans_len - 1) % 65536
      OBVIOUS
    <3>3. ep0' = [ep0 EXCEPT !.descr_addr = d, !.split = q, !.trans_len = n]
      BY <3>1, <3>2
    <3>4. /\ ep0' = [stage |-> ep0'.stage, stall |-> ep0'.stall, trans_len |-> ep0'.trans_len,
                     split |-> ep0'.split, addr |-> ep0'.addr, addr_next |-> ep0'.addr_next,
                     configured |-> ep0'.configured, req |-> ep0'.req, descr_addr |-> ep0'.descr_addr]
          /\ ep0'.stall = ep0.stall /\ ep0'.addr = ep0.addr /\ ep0'.configured = ep0.configured
          /\ ep0'.stage = ep0.stage /\ ep0'.descr_addr = d /\ ep0'.split = q /\ ep0'.trans_len = n
      BY <1>13, <3>3
    <3> QED
      BY <1>4, <2>5, <2>7, <3>2, <3>4
  <2> QED
    BY <2>6, <2>7
<1>16. UsbTypeInv' /\ TransactionInv' /\ TokensInv' /\ OutInv' /\ InInv'
  BY <1>10, <1>14, SendingControl
<1>17. DescriptorInv'
  <2>1. GotLen' = l /\ Asked' = a /\ host'.got = Words0(l) /\ host'.ctl_bit = host.ctl_bit
    BY <1>1, <1>4, <1>6 DEF GotLen, Asked
  <2>2. ~ep0'.stall /\ SameAddress' /\ SameConfig'
    BY <1>1, <1>4, <1>14 DEF SameAddress, SameConfig
  <2>3. /\ bus'.words = Words(l, s + 1) /\ bus'.pid = Data(host.ctl_bit)
        /\ core'.tx_pid = Data(host.ctl_bit)
    BY <1>1, <1>4, <1>10
  <2>4. core.in_bit \in [Endpoints -> {0, 1}]
    BY DEF UsbInv, UsbTypeInv
  <2>5. CASE a - (l + s) = 1 \/ s = m - 1
    <3>1. Sent(0)' /\ core'.in_bit[0] = 1 - host.ctl_bit
      BY <1>1, <1>4, <1>11, <2>4, <2>5 DEF Sent, Endpoints
    <3>2. a - (l + s) = 1 => s + 1 < m /\ l + (s + 1) = a
      BY <1>8, <1>12
    <3>3. a - (l + s) # 1 => s + 1 = m /\ l + m < a /\ l + s + 1 = l + m
      BY <1>8, <2>5
    <3>4. CASE a - (l + s) = 1
      BY <1>4, <1>6, <1>7, <1>8, <1>10, <1>14, <2>1, <2>2, <2>3, <3>1, <3>2, <3>4 DEF DescriptorInv
    <3>5. CASE a - (l + s) # 1
      BY <1>4, <1>6, <1>7, <1>8, <1>10, <1>14, <2>1, <2>2, <2>3, <3>1, <3>3, <3>5 DEF DescriptorInv
    <3> QED
      BY <3>4, <3>5
  <2>6. CASE ~(a - (l + s) = 1 \/ s = m - 1)
    <3>1. Sending(0)' /\ ~Sent(0)' /\ core'.in_bit[0] = host.ctl_bit
      BY <1>1, <1>4, <1>11, <2>6 DEF Sending, Sent
    <3>2. s + 1 \in 0 .. m - 1 /\ l + s + 1 = l + (s + 1) /\ l + s + 1 < a
      BY <1>8, <2>6
    <3> QED
      BY <1>4, <1>6, <1>7, <1>8, <1>10, <1>14, <2>1, <2>2, <2>3, <2>6, <3>1, <3>2 DEF DescriptorInv
  <2> QED
    BY <2>5, <2>6
<1>18. ControlInv'
  BY <1>1, <1>3, <1>16, <1>17 DEF ControlInv
<1> QED
  BY <1>16, <1>18 DEF UsbInv

\* The empty packet of the status stage gives the address.
LEMMA SendsStatusKeeps ==
  ASSUME UsbInv, DeviceSends, core.endp = 0, host.ctl.phase = "status_in"
  PROVE  UsbInv'
<1>1. /\ core.st = "TX_DATA" /\ bus.kind = "in" /\ bus.t.ep = 0
      /\ bus' = [kind |-> "in", t |-> bus.t, pid |-> core.tx_pid, words |-> bus.words \o TxWord]
      /\ host' = host
      /\ core' = [st |-> IF WordIsLast THEN "TX_DATA_COMPLETE" ELSE "TX_DATA",
                  tx_pid |-> core.tx_pid, out_bit |-> core.out_bit,
                  in_bit |-> IF WordIsLast THEN [core.in_bit EXCEPT ![core.endp] = 1 - @]
                             ELSE core.in_bit,
                  endp |-> core.endp]
      /\ ep0' = IF core.endp = 1 THEN ep0
                ELSE IF ep0.stage = "DATA_GET" THEN DataGone
                ELSE IF ep0.stage = "STATUS_IN"
                     THEN [ep0 EXCEPT !.stage = "IDLE", !.addr = ep0.addr_next]
                ELSE ep0
  BY SendCycle
<1>2. Sending(0) /\ ~Sent(0)
  BY <1>1 DEF Sending, Sent
<1>3. host.ctl.kind \in {"set_address", "set_configuration"} /\ StatusInInv
  BY DEF UsbInv, ControlInv
<1>4. ep0.stage = "STATUS_IN" /\ core.tx_pid = Data(1)
  BY <1>2, <1>3 DEF StatusInInv
<1>5. TxWord = <<>> /\ WordIsLast
  BY <1>4 DEF TxWord, WordIsLast
<1>6. ep0' = [ep0 EXCEPT !.stage = "IDLE", !.addr = ep0.addr_next]
  BY <1>1, <1>4
<1>7. /\ ep0' = [stage |-> ep0'.stage, stall |-> ep0'.stall, trans_len |-> ep0'.trans_len,
                 split |-> ep0'.split, addr |-> ep0'.addr, addr_next |-> ep0'.addr_next,
                 configured |-> ep0'.configured, req |-> ep0'.req, descr_addr |-> ep0'.descr_addr]
      /\ ep0'.stall = ep0.stall /\ ep0'.stage = "IDLE" /\ ep0'.addr = ep0.addr_next
      /\ ep0'.addr_next = ep0.addr_next /\ ep0'.configured = ep0.configured
  BY <1>6 DEF UsbInv, UsbTypeInv
<1>8. UsbTypeInv' /\ TransactionInv' /\ TokensInv' /\ OutInv' /\ InInv'
  <2>1. TxWord \in Seq(Nat)
    BY <1>5, EmptySeq
  <2> QED
    BY <1>7, <2>1, SendingControl
<1>9. StatusInInv'
  <2>1. Sent(0)' /\ bus'.pid = Data(1)
    BY <1>1, <1>4, <1>5 DEF Sent
  <2> QED
    BY <1>1, <1>3, <1>7, <2>1 DEF StatusInInv, SameConfig
<1>10. ControlInv'
  BY <1>1, <1>3, <1>8, <1>9 DEF ControlInv
<1> QED
  BY <1>8, <1>10 DEF UsbInv

\* Every word of the device.
LEMMA SendsKeeps ==
  ASSUME UsbInv, DeviceSends
  PROVE  UsbInv'
<1>1. bus.kind = "in" /\ core.endp = bus.t.ep /\ bus.t.ep \in {0, 1} /\ bus # NoTransaction
  BY SendCycle DEF Endpoints, NoTransaction
<1>2. bus.t.kind = "TOKEN_IN"
  BY <1>1 DEF UsbInv, UsbTypeInv, BusOK
<1>3. bus.t.ep = 0 => host.ctl.phase \in {"data", "status_in"}
  BY <1>1, <1>2 DEF UsbInv, ControlInv, TokensInv
<1> QED
  BY <1>1, <1>3, SendsBulkKeeps, SendsDescriptorKeeps, SendsStatusKeeps

---------------------------------------------------------------------------
(* The acknowledge of the host *)

\* What the end of a packet of the device does; as in_data is not lost, the host sees it.
LEMMA AckCycle ==
  ASSUME UsbInv, UsedAsMeant, NEW lost \in BOOLEAN, NEW ackLost \in BOOLEAN, HostAcks(lost, ackLost)
  PROVE  /\ core.st = "TX_DATA_COMPLETE" /\ bus # NoTransaction /\ bus.kind = "in"
         /\ core.endp = bus.t.ep /\ bus.t.ep \in {0, 1} /\ bus.t.kind = "TOKEN_IN"
         /\ bus' = NoTransaction /\ out_due' = out_due /\ rx1' = rx1 /\ tx1' = tx1 /\ ep0' = ep0
         /\ core' = [st |-> "RX_IDLE", tx_pid |-> core.tx_pid, out_bit |-> core.out_bit,
                     in_bit |-> core.in_bit, endp |-> core.endp]
         /\ bus.pid = Data(bus.t.bit) =>
               /\ host' = IF bus.t.ep = 1 THEN [host EXCEPT !.in_no = Following(@)] ELSE TakesControl
               /\ in_due' = IF bus.t.ep = 1 THEN Tail(in_due) ELSE in_due
<1>1. /\ core.st = "TX_DATA_COMPLETE" /\ bus' = NoTransaction /\ DeviceCycle(Nothing, FALSE, <<>>)
      /\ out_due' = out_due /\ ~lost
  BY DEF HostAcks, Lose, UsedAsMeant
<1>2. bus # NoTransaction /\ core.endp = bus.t.ep /\ bus.kind # "out"
  BY <1>1 DEF UsbInv, TransactionInv
<1>3. bus.kind = "in" /\ bus.t.ep \in {0, 1} /\ bus.t.kind = "TOKEN_IN"
  BY <1>2 DEF UsbInv, UsbTypeInv, BusOK, Endpoints
<1>4. DeviceWorks
  BY <1>1 DEF DeviceWorks
<1>5. ~TxReady(0) /\ ~TxReady(1) /\ ep0.stage # "SETUP"
  BY <1>1, SetupIsAnswered DEF TxReady
<1>6. /\ core'.st = "RX_IDLE" /\ core'.tx_pid = core.tx_pid /\ core'.endp = core.endp
      /\ core'.out_bit = core.out_bit /\ core'.in_bit = core.in_bit
      /\ rx1' = rx1 /\ ep0' = ep0 /\ tx1' = tx1
  BY <1>1, <1>4, <1>5, WorkCycle DEF UsbInv
<1>7. core' = [st |-> core'.st, tx_pid |-> core'.tx_pid, out_bit |-> core'.out_bit,
               in_bit |-> core'.in_bit, endp |-> core'.endp]
  BY <1>1 DEF DeviceCycle, CoreCycle
<1>8. bus.pid = Data(bus.t.bit) =>
        /\ host' = IF bus.t.ep = 1 THEN [host EXCEPT !.in_no = Following(@)] ELSE TakesControl
        /\ in_due' = IF bus.t.ep = 1 THEN Tail(in_due) ELSE in_due
  BY <1>1 DEF HostAcks
<1> QED
  BY <1>1, <1>2, <1>3, <1>6, <1>7, <1>8

\* The host takes a bulk packet unless it has the data bit of the one before.
LEMMA AcksBulkKeeps ==
  ASSUME UsbInv, UsedAsMeant, NEW lost \in BOOLEAN, NEW ackLost \in BOOLEAN, HostAcks(lost, ackLost),
         bus.t.ep = 1
  PROVE  UsbInv'
<1>1. /\ core.st = "TX_DATA_COMPLETE" /\ bus # NoTransaction /\ bus.kind = "in" /\ core.endp = 1
      /\ bus' = NoTransaction /\ out_due' = out_due /\ rx1' = rx1 /\ tx1' = tx1 /\ ep0' = ep0
      /\ core' = [st |-> "RX_IDLE", tx_pid |-> core.tx_pid, out_bit |-> core.out_bit,
                  in_bit |-> core.in_bit, endp |-> core.endp]
      /\ bus.pid = Data(bus.t.bit) =>
            host' = [host EXCEPT !.in_no = Following(@)] /\ in_due' = Tail(in_due)
  BY AckCycle
<1>2. Sent(1) /\ ~Sending(1) /\ ~Receiving(1) /\ ~Sent(0) /\ ~Sending(0) /\ ~Answering("out", 0)
  BY <1>1 DEF Sent, Sending, Receiving, Answering
<1>3. /\ bus.pid = Data(host.in_no % 2) /\ core.in_bit[1] = 1 - (host.in_no % 2)
      /\ in_due # <<>> /\ in_due = <<Head(in_due)>> \o tx1.packets
      /\ bus.t.bit = host.in_no % 2 /\ tx1.packets \in Seq(Nat) /\ tx1.pos = 1
  BY <1>1, <1>2 DEF UsbInv, InInv
<1>4. /\ host.in_no \in 0 .. PACKET_NUMBERS - 1 /\ Following(host.in_no) \in 0 .. PACKET_NUMBERS - 1
      /\ Following(host.in_no) % 2 = 1 - (host.in_no % 2)
  BY Numbering DEF UsbInv, UsbTypeInv
<1>5. host' = [addr |-> host.addr, config |-> host.config, ctl |-> host.ctl, got |-> host.got,
               ctl_bit |-> host.ctl_bit, bulk |-> host.bulk, out_no |-> host.out_no,
               in_no |-> Following(host.in_no)]
  BY <1>1, <1>3 DEF UsbInv, UsbTypeInv
<1>6. in_due' = tx1.packets
  <2>1. PICK x : x = Head(in_due)
    OBVIOUS
  <2>2. in_due = <<x>> \o tx1.packets
    BY <1>3, <2>1
  <2>3. Tail(<<x>> \o tx1.packets) = tx1.packets
    BY <1>3
  <2> QED
    BY <1>1, <1>3, <2>2, <2>3
<1>7. /\ TransactionInv' /\ BusOK' /\ TokensInv'
      /\ ~Sending(0)' /\ ~Sending(1)' /\ ~Sent(0)' /\ ~Sent(1)' /\ ~Receiving(1)'
      /\ ~Answering("out", 0)' /\ ~Answering("out", 1)'
  BY <1>1, OverInv
<1>8. UsbTypeInv'
  <2>1. TransferOK'
    BY <1>5 DEF UsbInv, UsbTypeInv, TransferOK
  <2>2. /\ ep0' = [stage |-> ep0'.stage, stall |-> ep0'.stall, trans_len |-> ep0'.trans_len,
                   split |-> ep0'.split, addr |-> ep0'.addr, addr_next |-> ep0'.addr_next,
                   configured |-> ep0'.configured, req |-> ep0'.req, descr_addr |-> ep0'.descr_addr]
        /\ ep0'.stall \in BOOLEAN
    BY <1>1 DEF UsbInv, UsbTypeInv
  <2>3. /\ host' = [addr |-> host'.addr, config |-> host'.config, ctl |-> host'.ctl, got |-> host'.got,
                    ctl_bit |-> host'.ctl_bit, bulk |-> host'.bulk, out_no |-> host'.out_no,
                    in_no |-> host'.in_no]
        /\ host'.out_no = host.out_no /\ host'.in_no = Following(host.in_no)
        /\ host'.ctl_bit = host.ctl_bit
    BY <1>5
  <2>4. host.out_no \in 0 .. PACKET_NUMBERS - 1 /\ host.ctl_bit \in {0, 1}
    BY DEF UsbInv, UsbTypeInv
  <2> QED
    BY <1>1, <1>4, <2>1, <2>2, <2>3, <2>4, OverTypes
<1>9. bus'.kind = "none" /\ core'.out_bit = core.out_bit /\ core'.in_bit = core.in_bit
  BY <1>1 DEF NoTransaction
<1>10. OutInv'
  <2>1. host'.bulk = host.bulk /\ host'.out_no = host.out_no
    BY <1>5
  <2> QED
    BY <1>1, <1>2, <1>7, <1>9, <2>1 DEF UsbInv, OutInv
<1>11. InInv'
  <2>1. host'.in_no = Following(host.in_no)
    BY <1>5
  <2>2. core'.in_bit[1] = host'.in_no % 2
    BY <1>3, <1>4, <1>9, <2>1
  <2>3. tx1 = [packets |-> tx1.packets, pos |-> tx1.pos] /\ tx1.pos \in 1 .. EP1_WORDS
    BY DEF UsbInv, InInv
  <2> QED
    BY <1>1, <1>3, <1>6, <1>7, <1>9, <2>2, <2>3 DEF InInv
<1>12. ControlInv'
  <2>1. /\ host'.ctl = host.ctl /\ host'.got = host.got /\ host'.ctl_bit = host.ctl_bit
        /\ host'.addr = host.addr /\ host'.config = host.config /\ ControlInv /\ core'.st = "RX_IDLE"
    BY <1>1, <1>5 DEF UsbInv
  <2>2. (IdleInv => IdleInv') /\ (RefusalInv => RefusalInv')
    BY <1>1, <1>2, <1>7, <2>1 DEF IdleInv, RefusalInv, SameAddress, SameConfig
  <2>3. SetupInv => SetupInv'
    BY <1>1, <1>2, <1>7, <1>9, <2>1 DEF SetupInv, SameAddress, SameConfig
  <2>4. DescriptorInv => DescriptorInv'
    BY <1>1, <1>2, <1>7, <1>9, <2>1 DEF DescriptorInv, SameAddress, SameConfig, GotLen, Asked
  <2>5. (StatusInInv => StatusInInv') /\ (StatusOutInv => StatusOutInv')
    BY <1>1, <1>2, <1>7, <1>9, <2>1 DEF StatusInInv, StatusOutInv, SameAddress, SameConfig, Asked
  <2> QED
    BY <1>7, <2>1, <2>2, <2>3, <2>4, <2>5 DEF ControlInv
<1> QED
  BY <1>7, <1>8, <1>10, <1>11, <1>12 DEF UsbInv

\* What the acknowledge of a packet of the control endpoint leaves as it is.
LEMMA AcksControl ==
  ASSUME UsbInv, UsedAsMeant, NEW lost \in BOOLEAN, NEW ackLost \in BOOLEAN, HostAcks(lost, ackLost),
         bus.t.ep = 0, TransferOK', NEW addr, NEW config, NEW ctl, NEW got, NEW bit \in {0, 1},
         host' = [addr |-> addr, config |-> config, ctl |-> ctl, got |-> got, ctl_bit |-> bit,
                  bulk |-> host.bulk, out_no |-> host.out_no, in_no |-> host.in_no],
         in_due' = in_due
  PROVE  /\ UsbTypeInv' /\ TransactionInv' /\ TokensInv' /\ OutInv' /\ InInv'
         /\ ep0' = ep0 /\ core'.in_bit = core.in_bit
         /\ ~Sending(0)' /\ ~Sent(0)' /\ ~Answering("out", 0)'
<1>1. /\ core.st = "TX_DATA_COMPLETE" /\ core.endp = 0
      /\ bus' = NoTransaction /\ out_due' = out_due /\ rx1' = rx1 /\ tx1' = tx1 /\ ep0' = ep0
      /\ core' = [st |-> "RX_IDLE", tx_pid |-> core.tx_pid, out_bit |-> core.out_bit,
                  in_bit |-> core.in_bit, endp |-> core.endp]
  BY AckCycle
<1>2. /\ TransactionInv' /\ BusOK' /\ TokensInv'
      /\ ~Sending(0)' /\ ~Sending(1)' /\ ~Sent(0)' /\ ~Sent(1)' /\ ~Receiving(1)'
      /\ ~Answering("out", 0)' /\ ~Answering("out", 1)'
  BY <1>1, OverInv
<1>3. /\ host' = [addr |-> host'.addr, config |-> host'.config, ctl |-> host'.ctl, got |-> host'.got,
                  ctl_bit |-> host'.ctl_bit, bulk |-> host'.bulk, out_no |-> host'.out_no,
                  in_no |-> host'.in_no]
      /\ host'.out_no = host.out_no /\ host'.in_no = host.in_no /\ host'.ctl_bit = bit
      /\ host'.bulk = host.bulk
  OBVIOUS
<1>4. /\ host.out_no \in 0 .. PACKET_NUMBERS - 1 /\ host.in_no \in 0 .. PACKET_NUMBERS - 1
      /\ ep0' = [stage |-> ep0'.stage, stall |-> ep0'.stall, trans_len |-> ep0'.trans_len,
                 split |-> ep0'.split, addr |-> ep0'.addr, addr_next |-> ep0'.addr_next,
                 configured |-> ep0'.configured, req |-> ep0'.req, descr_addr |-> ep0'.descr_addr]
      /\ ep0'.stall \in BOOLEAN
  BY <1>1 DEF UsbInv, UsbTypeInv
<1>5. UsbTypeInv'
  BY <1>1, <1>3, <1>4, OverTypes
<1>6. ~Sending(1) /\ ~Sent(1) /\ ~Receiving(1)
  BY <1>1 DEF Sending, Sent, Receiving
<1>7. bus'.kind = "none" /\ core'.out_bit = core.out_bit /\ core'.in_bit = core.in_bit
  BY <1>1 DEF NoTransaction
<1>8. OutInv' /\ InInv'
  BY <1>1, <1>2, <1>3, <1>6, <1>7 DEF UsbInv, OutInv, InInv
<1> QED
  BY <1>1, <1>2, <1>5, <1>7, <1>8

\* A quotient and a remainder determine each other.
LEMMA RemainderIsUnique ==
  ASSUME NEW m \in Nat \ {0}, NEW q \in Int, NEW r \in 0 .. m - 1
  PROVE  (m * q + r) % m = r
  OBVIOUS

\* A full packet does not change what the last one will be.
LEMMA SameRemainder ==
  ASSUME NEW m \in Nat \ {0}, NEW x \in Nat
  PROVE  (x + m) % m = x % m
<1>1. PICK k, r : k \in Int /\ r \in 0 .. m - 1 /\ x = m * k + r /\ r = x % m
  <2>1. x \div m \in Int /\ x % m \in 0 .. m - 1 /\ x = m * (x \div m) + (x % m)
    OBVIOUS
  <2> QED
    BY <2>1, Zenon
<1>2. PICK j \in Int : j = k + 1
  BY <1>1
<1>3. x + m = m * j + r
  BY <1>1, <1>2
<1>4. (m * j + r) % m = r
  BY <1>1, RemainderIsUnique
<1> QED
  BY <1>1, <1>3, <1>4, Zenon

\* The host takes a packet of the descriptor: a full one asks for more, a shorter one ends the
\* data stage.
LEMMA AcksDescriptorKeeps ==
  ASSUME UsbInv, UsedAsMeant, NEW lost \in BOOLEAN, NEW ackLost \in BOOLEAN, HostAcks(lost, ackLost),
         bus.t.ep = 0, host.ctl.phase = "data"
  PROVE  UsbInv'
<1> DEFINE n == Len(bus.words)
           next == IF n < EP0_MAX THEN "status_out" ELSE "data"
<1>1. /\ core.st = "TX_DATA_COMPLETE" /\ bus # NoTransaction /\ bus.kind = "in" /\ core.endp = 0
      /\ bus.t.kind = "TOKEN_IN"
      /\ bus.pid = Data(bus.t.bit) => host' = TakesControl /\ in_due' = in_due
  BY AckCycle
<1>2. Sent(0)
  BY <1>1 DEF Sent
<1>3. host.ctl.kind = "get_descriptor" /\ DescriptorInv /\ bus.t.bit = host.ctl_bit
  BY <1>1, <1>2 DEF UsbInv, ControlInv, TokensInv, RefusalInv
<1>4. /\ ~ep0.stall /\ SameAddress /\ SameConfig
      /\ host.got = Words0(GotLen) /\ GotLen \in Nat /\ (Asked - GotLen) % EP0_MAX # 0 /\ GotLen < Asked
      /\ bus.pid = Data(host.ctl_bit) /\ core.in_bit[0] = 1 - host.ctl_bit
      /\ bus.words = Words(GotLen, n)
      /\ \/ /\ ep0.stage = "DATA_GET" /\ n = EP0_MAX /\ GotLen + EP0_MAX < Asked
            /\ ep0.descr_addr = GotLen + EP0_MAX /\ ep0.split = 0
            /\ ep0.trans_len = Asked - (GotLen + EP0_MAX)
         \/ ep0.stage = "STATUS_OUT" /\ n < EP0_MAX /\ GotLen + n = Asked
  BY <1>2, <1>3 DEF DescriptorInv
<1>5. Asked \in Nat
  <2>1. host.ctl.value \in RequestLens
    BY <1>3 DEF UsbInv, UsbTypeInv, TransferOK, Transfers, NoTransfer
  <2>2. host.ctl.value \in Nat
    BY <2>1, LengthsAreNumbers
  <2> QED
    BY <2>2, LengthsAreNumbers DEF Asked, Smaller
<1>6. n \in Nat
  <2>1. bus.words \in Seq(Nat)
    BY <1>1 DEF UsbInv, UsbTypeInv, BusOK
  <2> QED
    BY <2>1
<1>7. PICK l \in Nat, k \in Nat, a \in Nat : l = GotLen /\ k = n /\ a = Asked
  BY <1>4, <1>5, <1>6
<1>8. host.got \o bus.words = Words0(l + k) /\ Len(Words0(l + k)) = l + k
  <2>1. Words0(l) \o Words(l, k) = Words0(l + k)
    BY WordsFollow
  <2>2. Len(Words0(l + k)) = l + k
    <3>1. l + k \in Nat
      OBVIOUS
    <3> QED
      BY <3>1, WordsLength
  <2> QED
    BY <1>4, <1>7, <2>1, <2>2
<1>9. /\ host = [addr |-> host.addr, config |-> host.config, ctl |-> host.ctl, got |-> host.got,
                 ctl_bit |-> host.ctl_bit, bulk |-> host.bulk, out_no |-> host.out_no,
                 in_no |-> host.in_no]
      /\ host.ctl = [phase |-> host.ctl.phase, kind |-> host.ctl.kind, value |-> host.ctl.value]
      /\ [phase |-> "setup", kind |-> host.ctl.kind, value |-> host.ctl.value] \in Transfers
      /\ host.ctl_bit \in {0, 1}
  BY <1>3 DEF UsbInv, UsbTypeInv, TransferOK, NoTransfer
<1>10. PICK c : c = [phase |-> next, kind |-> host.ctl.kind, value |-> host.ctl.value]
  OBVIOUS
<1>11. PICK got : got = host.got \o bus.words
  OBVIOUS
<1>12. host' = [addr |-> host.addr, config |-> host.config, ctl |-> c, got |-> got,
                ctl_bit |-> 1 - host.ctl_bit, bulk |-> host.bulk, out_no |-> host.out_no,
                in_no |-> host.in_no]
       /\ in_due' = in_due
  <2>1. host' = TakesControl /\ in_due' = in_due
    BY <1>1, <1>3, <1>4
  <2>2. TakesControl = [host EXCEPT !.got = host.got \o bus.words, !.ctl_bit = 1 - @,
                                    !.ctl.phase = IF Len(bus.words) < EP0_MAX
                                                  THEN "status_out" ELSE "data"]
    <3>1. host.ctl.kind # "set_address"
      BY <1>3
    <3> QED
      BY <3>1 DEF TakesControl
  <2>3. [host.ctl EXCEPT !.phase = next] = c
    BY <1>9, <1>10
  <2>4. TakesControl = [host EXCEPT !.got = got, !.ctl_bit = 1 - @, !.ctl = c]
    BY <1>11, <2>2, <2>3
  <2> QED
    BY <1>9, <2>1, <2>4
<1>13. c.phase = next /\ c.kind = "get_descriptor" /\ c.value = host.ctl.value
       /\ c = [phase |-> c.phase, kind |-> c.kind, value |-> c.value]
       /\ c.phase \in {"data", "status_out"} /\ 1 - host.ctl_bit \in {0, 1}
  BY <1>3, <1>9, <1>10
<1>14. TransferOK'
  <2>1. host'.ctl = c
    BY <1>12
  <2>2. [phase |-> "setup", kind |-> c.kind, value |-> c.value] \in Transfers
    <3>1. c.kind = host.ctl.kind /\ c.value = host.ctl.value
      BY <1>10
    <3>2. [phase |-> "setup", kind |-> host.ctl.kind, value |-> host.ctl.value] \in Transfers
      BY <1>9
    <3> QED
      BY <3>1, <3>2, Zenon
  <2> QED
    BY <1>13, <2>1, <2>2 DEF TransferOK
<1>15. /\ UsbTypeInv' /\ TransactionInv' /\ TokensInv' /\ OutInv' /\ InInv'
       /\ ep0' = ep0 /\ core'.in_bit = core.in_bit
       /\ ~Sending(0)' /\ ~Sent(0)' /\ ~Answering("out", 0)'
  BY <1>12, <1>13, <1>14, AcksControl
<1>16. /\ host'.ctl = c /\ host'.got = Words0(l + k) /\ host'.ctl_bit = 1 - host.ctl_bit
       /\ Asked' = a /\ GotLen' = l + k /\ SameAddress' /\ SameConfig'
  <2>1. host'.ctl = c /\ host'.got = got /\ host'.ctl_bit = 1 - host.ctl_bit
        /\ host'.addr = host.addr /\ host'.config = host.config
    BY <1>12
  <2>2. Asked' = a
    BY <1>7, <1>13, <2>1 DEF Asked
  <2> QED
    BY <1>4, <1>8, <1>11, <1>15, <2>1, <2>2 DEF GotLen, SameAddress, SameConfig
<1>17. CASE ep0.stage = "DATA_GET"
  <2>1. PICK m \in Nat \ {0} : m = EP0_MAX
    BY UsbAssumption
  <2>2. k = m /\ l + m < a /\ ep0.descr_addr = l + m /\ ep0.split = 0
        /\ ep0.trans_len = a - (l + m) /\ next = "data" /\ (a - l) % m # 0
    BY <1>4, <1>7, <1>17, <2>1
  <2>3. (a - (l + m)) % m # 0
    <3>1. PICK x \in Nat : x = a - (l + m)
      BY <2>2
    <3>2. (x + m) % m = x % m
      BY SameRemainder
    <3>3. x + m = a - l
      BY <3>1
    <3> QED
      BY <2>2, <3>1, <3>2, <3>3
  <2>4. DescriptorInv'
    <3>1. 0 \in 0 .. m - 1 /\ l + m + 0 = l + m /\ l + m \in Nat
      OBVIOUS
    <3> QED
      BY <1>4, <1>15, <1>16, <1>17, <2>1, <2>2, <2>3, <3>1 DEF DescriptorInv
  <2> QED
    BY <1>13, <1>15, <1>16, <2>2, <2>4 DEF ControlInv, UsbInv
<1>18. CASE ep0.stage = "STATUS_OUT"
  <2>1. l + k = a /\ next = "status_out"
    BY <1>4, <1>7, <1>18
  <2>2. StatusOutInv'
    BY <1>4, <1>15, <1>16, <1>18, <2>1 DEF StatusOutInv
  <2> QED
    BY <1>13, <1>15, <1>16, <2>1, <2>2 DEF ControlInv, UsbInv
<1> QED
  BY <1>4, <1>17, <1>18

\* With the acknowledge of the status stage the host has the address or the configuration too.
LEMMA AcksStatusKeeps ==
  ASSUME UsbInv, UsedAsMeant, NEW lost \in BOOLEAN, NEW ackLost \in BOOLEAN, HostAcks(lost, ackLost),
         bus.t.ep = 0, host.ctl.phase = "status_in"
  PROVE  UsbInv'
<1>1. /\ core.st = "TX_DATA_COMPLETE" /\ bus # NoTransaction /\ bus.kind = "in" /\ core.endp = 0
      /\ bus.t.kind = "TOKEN_IN"
      /\ bus.pid = Data(bus.t.bit) => host' = TakesControl /\ in_due' = in_due
  BY AckCycle
<1>2. Sent(0)
  BY <1>1 DEF Sent
<1>3. /\ host.ctl.kind \in {"set_address", "set_configuration"} /\ StatusInInv /\ bus.t.bit = 1
  BY <1>1, <1>2 DEF UsbInv, ControlInv, TokensInv
<1>4. host' = TakesControl /\ in_due' = in_due
  BY <1>1, <1>2, <1>3 DEF StatusInInv
<1>5. EndsTransfer = [addr |-> host.addr, config |-> host.config, ctl |-> NoTransfer, got |-> <<>>,
                      ctl_bit |-> 0, bulk |-> host.bulk, out_no |-> host.out_no,
                      in_no |-> host.in_no]
  BY EndsTransferShape DEF UsbInv
<1>6. PICK addr, config :
        /\ addr = IF host.ctl.kind = "set_address" THEN host.ctl.value ELSE host.addr
        /\ config = IF host.ctl.kind = "set_address" THEN host.config ELSE host.ctl.value
  OBVIOUS
<1>7. host' = [addr |-> addr, config |-> config, ctl |-> NoTransfer, got |-> <<>>,
               ctl_bit |-> 0, bulk |-> host.bulk, out_no |-> host.out_no, in_no |-> host.in_no]
  <2>1. CASE host.ctl.kind = "set_address"
    <3>1. host' = [EndsTransfer EXCEPT !.addr = host.ctl.value]
      BY <1>4, <2>1 DEF TakesControl
    <3> QED
      BY <1>5, <1>6, <2>1, <3>1
  <2>2. CASE host.ctl.kind = "set_configuration"
    <3>1. host' = [EndsTransfer EXCEPT !.config = host.ctl.value]
      BY <1>4, <2>2 DEF TakesControl
    <3> QED
      BY <1>5, <1>6, <2>2, <3>1
  <2> QED
    BY <1>3, <2>1, <2>2
<1>8. TransferOK'
  BY <1>7 DEF TransferOK
<1>9. /\ UsbTypeInv' /\ TransactionInv' /\ TokensInv' /\ OutInv' /\ InInv' /\ ep0' = ep0
  BY <1>4, <1>7, <1>8, AcksControl
<1>10. IdleInv'
  <2>1. host'.addr = addr /\ host'.config = config /\ host'.got = <<>>
    BY <1>7
  <2>2. ep0.stage = "IDLE" /\ ~ep0.stall /\ ep0.addr = ep0.addr_next
    BY <1>2, <1>3 DEF StatusInInv
  <2>3. ep0.addr_next = addr /\ ep0.configured = config
    BY <1>3, <1>6 DEF StatusInInv, SameConfig
  <2> QED
    BY <1>9, <2>1, <2>2, <2>3 DEF IdleInv, SameAddress, SameConfig
<1>11. ControlInv'
  BY <1>7, <1>9, <1>10 DEF ControlInv, NoTransfer
<1> QED
  BY <1>9, <1>11 DEF UsbInv

\* The end of every packet of the device.
LEMMA AcksKeeps ==
  ASSUME UsbInv, UsedAsMeant, NEW lost \in BOOLEAN, NEW ackLost \in BOOLEAN, HostAcks(lost, ackLost)
  PROVE  UsbInv'
<1>1. bus # NoTransaction /\ bus.t.ep \in {0, 1} /\ bus.t.kind = "TOKEN_IN"
  BY AckCycle
<1>2. bus.t.ep = 0 => host.ctl.phase \in {"data", "status_in"}
  BY <1>1 DEF UsbInv, ControlInv, TokensInv
<1> QED
  BY <1>1, <1>2, AcksBulkKeeps, AcksDescriptorKeeps, AcksStatusKeeps

---------------------------------------------------------------------------

\* Every step, and one that leaves the USB device alone, keeps the invariant.
LEMMA StepKeeps ==
  ASSUME UsbInv, UsedAsMeant, [UsbNext]_usbVars
  PROVE  UsbInv'
<1>1. ASSUME NEW t \in Transactions, NEW lost \in BOOLEAN, SendsToken(t, lost)
      PROVE  UsbInv'
  BY <1>1, TokenKeeps, LostTokenKeeps
<1>2. ASSUME NEW lost \in BOOLEAN, NEW error \in BOOLEAN, SendsData(lost, error)
      PROVE  UsbInv'
  <2>1. CASE lost = TRUE
    BY <1>2, <2>1, LostPacketKeeps
  <2>2. CASE lost = FALSE /\ bus.sent = 0
    BY <1>2, <2>2, HeaderKeeps
  <2>3. CASE lost = FALSE /\ bus.sent # 0
    BY <1>2, <2>3, WordKeeps
  <2> QED
    BY <2>1, <2>2, <2>3
<1>3. CASE UNCHANGED usbVars
  <2>1. UsbTypeInv' /\ TransactionInv' /\ ControlInv'
    BY <1>3, Unchanged DEF usbVars
  <2>2. OutInv' /\ InInv'
    BY <1>3 DEF usbVars, UsbInv, OutInv, InInv, Receiving, Answering, Sending, Sent
  <2> QED
    BY <2>1, <2>2 DEF UsbInv
<1> QED
  BY <1>1, <1>2, <1>3, ReadsKeeps, WritesKeeps, StartsBulkOutKeeps, StartsTransferKeeps, AnswerKeeps,
     AcksKeeps, SendsKeeps, TimesOutKeeps DEF UsbNext

\* At first both sides are idle with address 0.
LEMMA InitHolds ==
  ASSUME UsbInit
  PROVE  UsbInv
<1>1. /\ core = [st |-> "RX_IDLE", tx_pid |-> "none", out_bit |-> [e \in Endpoints |-> 0],
                 in_bit |-> [e \in Endpoints |-> 0], endp |-> 0]
      /\ ep0 = [stage |-> "IDLE", stall |-> FALSE, trans_len |-> 0, split |-> 0, addr |-> 0,
                addr_next |-> 0, configured |-> FALSE, req |-> NoTransfer, descr_addr |-> 0]
      /\ rx1 = [words |-> <<>>, tmp |-> <<>>] /\ tx1 = [packets |-> <<>>, pos |-> 1]
      /\ host = [addr |-> 0, config |-> FALSE, ctl |-> NoTransfer, got |-> <<>>, ctl_bit |-> 0,
                 bulk |-> <<>>, out_no |-> 0, in_no |-> 0]
      /\ bus = NoTransaction /\ out_due = <<>> /\ in_due = <<>>
  BY DEF UsbInit
<1>2. core.out_bit \in [Endpoints -> {0, 1}] /\ core.in_bit \in [Endpoints -> {0, 1}]
      /\ core.out_bit[1] = 0 /\ core.in_bit[1] = 0
  BY <1>1 DEF Endpoints
<1>3. 0 \in 0 .. PACKET_NUMBERS - 1 /\ 0 % 2 = 0
  BY UsbAssumption
<1>4. UsbTypeInv
  BY <1>1, <1>2, <1>3 DEF UsbTypeInv, TransferOK, BusOK, CoreStates, Endpoints
<1>5. TransactionInv
  BY <1>1 DEF TransactionInv, NoTransaction
<1>6. OutInv
  <2>1. <<>> \in Seq(Nat) /\ <<>> \o <<>> = <<>>
    BY EmptySeq, ConcatEmptySeq
  <2> QED
    BY <1>1, <1>2, <1>3, <2>1 DEF OutInv, Receiving, Answering, NoTransaction
<1>7. InInv
  <2>1. <<>> \in Seq(Nat) /\ 1 \in 1 .. EP1_WORDS
    BY EmptySeq, UsbAssumption
  <2> QED
    BY <1>1, <1>2, <1>3, <2>1 DEF InInv, Sending, Sent, NoTransaction
<1>8. ControlInv
  BY <1>1 DEF ControlInv, TokensInv, IdleInv, SameAddress, SameConfig, NoTransfer
<1> QED
  BY <1>4, <1>5, <1>6, <1>7, <1>8 DEF UsbInv

\* What the run checks follows from the invariant.
LEMMA SidesAgree ==
  ASSUME UsbInv
  PROVE  UsbSidesAgree
<1>1. UsbDataOnce
  <2>1. IsPrefix(rx1.words, out_due)
    <3>1. PICK rest \in Seq(Nat) : out_due = rx1.words \o rest
      <4>1. Copies(EP1_WORDS, host.out_no) \in Seq(Nat)
        <5>1. EP1_WORDS \in Nat /\ host.out_no \in Nat
          BY UsbAssumption DEF UsbInv, UsbTypeInv
        <5> QED
          BY <5>1, CopiesGrow
      <4>2. <<>> \in Seq(Nat)
        BY EmptySeq
      <4>3. out_due = rx1.words \o (IF host.bulk # <<>> /\ core.out_bit[1] = host.out_no % 2
                                    THEN Copies(EP1_WORDS, host.out_no) ELSE <<>>)
        BY DEF UsbInv, OutInv
      <4> QED
        BY <4>1, <4>2, <4>3
    <3>2. rx1.words \in Seq(Nat)
      BY DEF UsbInv, OutInv
    <3>3. Len(out_due) = Len(rx1.words) + Len(rest) /\ Len(rx1.words) \in Nat /\ Len(rest) \in Nat
      BY <3>1, <3>2
    <3>4. \A i \in 1 .. Len(rx1.words) : rx1.words[i] = out_due[i]
      BY <3>1, <3>2
    <3>5. SubSeq(rx1.words, 1, Len(rx1.words)) = SubSeq(out_due, 1, Len(rx1.words))
      BY <3>1, <3>2, <3>3, <3>4
    <3> QED
      BY <3>3, <3>5 DEF IsPrefix
  <2>2. ASSUME core.st = "TX_DATA_COMPLETE", bus.t.ep = 1, bus.pid = Data(bus.t.bit)
        PROVE  in_due # <<>> /\ bus.words = Copies(EP1_WORDS, Head(in_due))
    <3>1. bus # NoTransaction /\ core.endp = 1
      BY <2>2 DEF UsbInv, TransactionInv
    <3> QED
      BY <2>2, <3>1 DEF UsbInv, InInv, Sent
  <2> QED
    BY <2>1, <2>2 DEF UsbDataOnce, Copies
<1>2. ControlTransfersAgree
  <2>1. host.ctl = NoTransfer =>
          ep0.stage = "IDLE" /\ ep0.addr = host.addr /\ ep0.configured = host.config
    BY DEF UsbInv, ControlInv, IdleInv, SameAddress, SameConfig, NoTransfer
  <2>2. host.ctl.phase = "status_out" => host.got = Words0(Asked)
    BY DEF UsbInv, ControlInv, StatusOutInv
  <2> QED
    BY <2>1, <2>2 DEF ControlTransfersAgree, Words0, Asked
<1> QED
  BY <1>1, <1>2 DEF UsbSidesAgree

\* For every size of packets, descriptors and FIFOs, and whatever tokens or data on their way to the
\* device (not both) and acknowledges get lost: the function and the host get each word and packet
\* once and in order, and between two control transfers the device has the address and the
\* configuration that the host thinks it has.
THEOREM UsbSidesStayAgreed ==
  ASSUME UsedAsMeant
  PROVE  UsbSpec => []UsbSidesAgree
<1>1. UsbInit => UsbInv
  BY InitHolds
<1>2. UsbInv /\ [UsbNext]_usbVars => UsbInv'
  BY StepKeeps
<1>3. UsbInv => UsbSidesAgree
  BY SidesAgree
<1> QED
  BY <1>1, <1>2, <1>3, PTL DEF UsbSpec
=============================================================================
