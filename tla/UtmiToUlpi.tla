---------------------------- MODULE UtmiToUlpi ----------------------------
(* Utmi_to_Ulpi between a UTMI user, which sends packets and sets the two control         *)
(* registers, and a ULPI PHY, which takes the shared wires whenever it likes to pass on a *)
(* packet or a status.  One step per clock.  A packet is a sequence of bytes, its first   *)
(* the PID; the status of an RX CMD and the registers are model values.                   *)
EXTENDS Integers, Sequences, SequencesExt

CONSTANTS
    TxPackets, RxPackets,   \* what the user, what the host behind the PHY sends
    Statuses,               \* line state and events in an RX CMD
    Controls,               \* values of a control register
    HASTY_CONTROL           \* a register may be changed while it is being written

Regs == {"function_control", "otg_control"}
Noop == <<"noop">>

VARIABLES
    utmi,     \* control: what the user wants; tx: bytes it has still to hand over; gap: it
              \* has handed over a packet whose end the link has not taken
    link,     \* the registers of Utmi_to_Ulpi
    ulpi_phy, \* dir, the command it is taking, its registers, the packet it passes on
    sent,     \* bytes the user handed over and the PHY has not taken, "end" after each packet
    passed    \* the same for the other direction

ulpiVars == <<utmi, link, ulpi_phy, sent, passed>>

Turnaround == link.dir_q # ulpi_phy.dir
LinkDrives == ~Turnaround /\ ulpi_phy.dir = "link"
PhyDrives == ~Turnaround /\ ulpi_phy.dir = "phy"
TxVld == utmi.tx # <<>>

UtmiTxAccept(nxt) ==
    LinkDrives /\ ((link.st = "idle" /\ link.update = {}) \/ (link.st = "data" /\ nxt))

\* The write of a register is complete when the PHY takes its value.
Completed(nxt) == IF link.st = "reg" /\ LinkDrives /\ nxt THEN link.write ELSE {}

\* Mutant: a register counts as written when its command is put on the wires.
NextUpdate_AtCommand(nxt) ==
    (link.update \cup {r \in Regs : link.control[r] # utmi.control[r]})
    \ (IF LinkDrives /\ nxt /\ link.st = "cmd" THEN link.write ELSE {})

\* A change that is seen in the clock of the completion, or that came since the value was
\* put into data_q, is forgotten by it.
NextUpdate(nxt) ==
    (link.update \cup {r \in Regs : link.control[r] # utmi.control[r]}) \ Completed(nxt)

\* A register write that has to make room for the PHY starts again.
Aborts(nxt) == Turnaround /\ link.st = "reg" /\ (ulpi_phy.dir = "link" \/ nxt)

Load == LinkDrives /\ link.st = "idle"
\* The register that is written next: function_control goes first.
Pending == IF "function_control" \in link.update THEN "function_control" ELSE "otg_control"

NextSt(nxt) ==
    CASE Aborts(nxt) -> "idle"
      [] Load /\ link.update # {} -> "cmd"
      [] Load /\ link.update = {} /\ TxVld -> "data"
      [] LinkDrives /\ nxt /\ link.st = "cmd" -> "reg"
      [] LinkDrives /\ nxt /\ link.st = "reg" -> "idle"
      [] LinkDrives /\ nxt /\ link.st = "data" /\ ~TxVld -> "idle"
      [] OTHER -> link.st

NextData(nxt) ==
    CASE Aborts(nxt) -> Noop
      [] Load /\ link.update # {} -> <<"regw", Pending>>
      [] Load /\ link.update = {} /\ TxVld -> <<"pid", Head(utmi.tx)>>
      [] LinkDrives /\ nxt /\ link.st = "cmd" -> <<"value", link.data_q>>
      [] LinkDrives /\ nxt /\ link.st = "data" /\ TxVld -> <<"byte", Head(utmi.tx)>>
      [] LinkDrives /\ nxt /\ (link.st = "reg" \/ (link.st = "data" /\ ~TxVld)) -> Noop
      [] OTHER -> link.data

\* A turnaround with nxt starts a packet and the one back ends it; an RX CMD says which of the
\* two holds.
NextRxActive(nxt, cmd) ==
    IF Turnaround THEN IF ulpi_phy.dir = "link" THEN FALSE ELSE nxt \/ link.rxactive
    ELSE IF PhyDrives THEN nxt \/ cmd.active ELSE link.rxactive

LinkCycle(nxt, byte, cmd) ==
    link' = [st |-> NextSt(nxt), update |-> NextUpdate(nxt), control |-> utmi.control,
             write |-> IF Load /\ link.update # {} THEN {Pending}
                       ELSE IF Completed(nxt) # {} THEN {} ELSE link.write,
             data |-> NextData(nxt),
             data_q |-> IF Load /\ link.update # {} THEN link.control[Pending]
                        ELSE link.data_q,
             stp |-> LinkDrives /\ nxt /\ (link.st = "reg" \/ (link.st = "data" /\ ~TxVld)),
             rxvalid |-> PhyDrives /\ nxt,
             rxdata |-> IF PhyDrives /\ nxt THEN byte ELSE link.rxdata,
             rxactive |-> NextRxActive(nxt, cmd),
             status |-> IF PhyDrives /\ ~nxt THEN cmd.status ELSE link.status,
             dir_q |-> ulpi_phy.dir]

---------------------------------------------------------------------------
(* The user *)

MayChange(r) == HASTY_CONTROL \/ (link.update = {} /\ link.control = utmi.control /\ link.st = "idle")

\* A packet is handed over byte by byte; valid stays low after it until the link has taken that.
UserCycle(nxt, packet, control) ==
    LET accept == UtmiTxAccept(nxt)
        starts == utmi.tx = <<>> /\ ~utmi.gap
    IN /\ \A r \in Regs : control[r] # utmi.control[r] => MayChange(r)
       /\ utmi' = [control |-> control,
                   tx |-> IF starts THEN packet
                          ELSE IF accept /\ TxVld THEN Tail(utmi.tx) ELSE utmi.tx,
                   gap |-> IF starts \/ TxVld THEN TxVld ELSE ~accept]

---------------------------------------------------------------------------
(* The PHY *)

\* nxt takes what the link drives, starts a packet in a turnaround, or passes on a byte.
MayTake(nxt) ==
    nxt => \/ LinkDrives /\ link.data # Noop
           \/ Turnaround /\ ulpi_phy.dir = "phy" /\ ulpi_phy.rx # <<>>
           \/ PhyDrives /\ ulpi_phy.rx # <<>> /\ ulpi_phy.rx_started

\* An RX CMD in a packet says that it goes on, and after it at some time that it has ended.
MaySay(cmd) ==
    PhyDrives => /\ ulpi_phy.rx_started /\ ulpi_phy.rx # <<>> => cmd.active
                 /\ ulpi_phy.rx = <<>> => (cmd.active => link.rxactive)
                 /\ ~ulpi_phy.rx_started => ~cmd.active

NextPhyCmd(nxt, dir) ==
    IF dir = "phy" \/ link.stp THEN "none"
    ELSE IF ~LinkDrives \/ ~nxt THEN ulpi_phy.cmd
    ELSE CASE link.data[1] = "regw" -> link.data[2]
           [] link.data[1] = "pid" -> "tx"
           [] link.data[1] = "value" -> "none"
           [] OTHER -> ulpi_phy.cmd

\* The wires are not taken in a packet of the link, and not given back in one of the PHY.
MayTurn(nxt, dir) ==
    dir # ulpi_phy.dir =>
        /\ ~Turnaround
        /\ ulpi_phy.dir = "link" => NextPhyCmd(nxt, "link") # "tx"
        /\ ulpi_phy.dir = "phy" => ~ulpi_phy.rx_started \/ ulpi_phy.rx = <<>>

\* A packet that waits starts with the turnaround.
RxStarted(nxt, dir) ==
    IF dir = "link" THEN FALSE
    ELSE IF Turnaround /\ ulpi_phy.dir = "phy" THEN nxt
    ELSE ulpi_phy.rx_started

PhyCycle(nxt, dir, packet) ==
    /\ MayTake(nxt) /\ MayTurn(nxt, dir)
    /\ ulpi_phy' =
          [dir |-> dir, cmd |-> NextPhyCmd(nxt, dir), rx_started |-> RxStarted(nxt, dir),
           rx |-> IF PhyDrives /\ nxt THEN Tail(ulpi_phy.rx)
                  ELSE IF ulpi_phy.rx = <<>> /\ ~ulpi_phy.rx_started THEN packet ELSE ulpi_phy.rx,
           regs |-> IF LinkDrives /\ nxt /\ link.data[1] = "value"
                    THEN [ulpi_phy.regs EXCEPT ![ulpi_phy.cmd] = link.data[2]]
                    ELSE ulpi_phy.regs]

---------------------------------------------------------------------------
(* The system *)

\* What goes on its way in this clock, and what comes out of the other end.
Handed(nxt) ==
    IF UtmiTxAccept(nxt) /\ TxVld
    THEN <<Head(utmi.tx)>> \o (IF Len(utmi.tx) = 1 THEN <<"end">> ELSE <<>>) ELSE <<>>
TakenByPhy(nxt) ==
    IF LinkDrives /\ nxt /\ link.data[1] \in {"pid", "byte"} THEN <<link.data[2]>>
    ELSE IF LinkDrives /\ link.stp /\ ulpi_phy.cmd = "tx" THEN <<"end">>
    ELSE <<>>
PassedByPhy(nxt) ==
    IF PhyDrives /\ nxt
    THEN <<Head(ulpi_phy.rx)>> \o (IF Len(ulpi_phy.rx) = 1 THEN <<"end">> ELSE <<>>) ELSE <<>>
SeenByUser(nxt, cmd) ==
    (IF link.rxvalid THEN <<link.rxdata>> ELSE <<>>)
    \o (IF link.rxactive /\ ~NextRxActive(nxt, cmd) THEN <<"end">> ELSE <<>>)

Without(q, taken) == SubSeq(q, Len(taken) + 1, Len(q))

UlpiCycle(nxt, dir, cmd, txPacket, rxPacket, control) ==
    /\ PhyCycle(nxt, dir, rxPacket)
    /\ MaySay(cmd)
    /\ LinkCycle(nxt, IF nxt /\ PhyDrives THEN Head(ulpi_phy.rx) ELSE 0, cmd)
    /\ UserCycle(nxt, txPacket, control)
    /\ sent' = Without(sent \o Handed(nxt), TakenByPhy(nxt))
    /\ passed' = Without(passed \o PassedByPhy(nxt), SeenByUser(nxt, cmd))

UlpiInit ==
    /\ \E c \in Controls :
          /\ utmi = [control |-> [r \in Regs |-> c], tx |-> <<>>, gap |-> FALSE]
          /\ \E s \in Statuses :
                link = [st |-> "idle", update |-> {}, control |-> [r \in Regs |-> c], write |-> {},
                        data |-> Noop, data_q |-> c, stp |-> FALSE, rxvalid |-> FALSE,
                        rxdata |-> 0, rxactive |-> FALSE, status |-> s, dir_q |-> "phy"]
          /\ ulpi_phy = [dir |-> "phy", cmd |-> "none", regs |-> [r \in Regs |-> c], rx |-> <<>>,
                         rx_started |-> FALSE]
    /\ sent = <<>> /\ passed = <<>>

UlpiNext ==
    \E nxt \in BOOLEAN, dir \in {"link", "phy"},
       cmd \in [status : Statuses, active : BOOLEAN],
       txPacket \in TxPackets \cup {<<>>}, rxPacket \in RxPackets \cup {<<>>},
       control \in [Regs -> Controls] :
        UlpiCycle(nxt, dir, cmd, txPacket, rxPacket, control)

---------------------------------------------------------------------------
(* Properties *)

IsNext(taken, q) == Len(taken) <= Len(q) /\ SubSeq(q, 1, Len(taken)) = taken

\* Packets get through Utmi_to_Ulpi both ways byte for byte and with their ends, whenever the
\* PHY takes the wires, while registers are written, and whatever nxt does.
UlpiPacketsPass ==
    \A nxt \in BOOLEAN, cmd \in [status : Statuses, active : BOOLEAN] :
        MayTake(nxt) /\ MaySay(cmd) =>
            IsNext(TakenByPhy(nxt), sent) /\ IsNext(SeenByUser(nxt, cmd), passed)

\* When no write is due the PHY has what the user set, also after writes that the PHY broke off.
PhyRegistersFollow ==
    link.update = {} /\ link.control = utmi.control => ulpi_phy.regs = utmi.control
===========================================================================
