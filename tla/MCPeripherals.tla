----------------------------- MODULE MCPeripherals -----------------------------
(* The controllers of serial buses and of USB, for TLC: a behaviour is one of one         *)
(* component, chosen at the start, with the other end of its wires.                       *)
EXTENDS SerialPorts, UtmiToUlpi, UsbDevice

CONSTANTS
    Peripherals,   \* of "uart", "spi", "mdio", "i2c", "ulpi", "usb"
    p, q, a, b, c  \* bytes of packets

VARIABLE component

vars == <<component, serialVars, ulpiVars, usbVars>>

Init ==
    /\ component \in Peripherals
    /\ SerialInit /\ UlpiInit /\ UsbInit
    /\ component # "ulpi" => link.data_q = CHOOSE v \in Controls : TRUE

Uart == component = "uart" /\ UartNext /\ UNCHANGED <<component, ulpiVars, usbVars>>
Spi == component = "spi" /\ SpiNext /\ UNCHANGED <<component, ulpiVars, usbVars>>
Mdio(rd) == component = "mdio" /\ MdioStep(rd) /\ UNCHANGED <<component, ulpiVars, usbVars>>
I2c == component = "i2c" /\ I2cNext /\ UNCHANGED <<component, ulpiVars, usbVars>>
Ulpi == component = "ulpi" /\ UlpiNext /\ UNCHANGED <<component, serialVars, usbVars>>
Usb == component = "usb" /\ UsbNext /\ UNCHANGED <<component, serialVars, ulpiVars>>

Next ==
    \/ Uart \/ Spi
    \/ \E rd \in BOOLEAN : Mdio(rd)
    \/ I2c \/ Ulpi \/ Usb

\* Clocks go on; UsbFair says what the host and the function of a USB device do.
FairSpec ==
    /\ Init /\ [][Next]_vars
    /\ WF_vars(Uart) /\ WF_vars(Spi) /\ WF_vars(I2c) /\ WF_vars(\E rd \in BOOLEAN : Mdio(rd))
    /\ UsbFair

\* A byte of one value and one in which each bit stands between others.
SomeBytes == {[i \in 1 .. 8 |-> 0], <<1, 0, 1, 0, 0, 1, 1, 0>>}
SomeRegisters == {<<1, 0, 0, 1>>, <<0, 1, 1, 0>>}
PacketsOut == {<<p, a, b>>, <<q>>}
PacketsIn == {<<p, a>>, <<q, b, c>>}

---------------------------------------------------------------------------
(* Properties *)

\* What one side of a serial controller puts in comes out at the other end of the wires: the
\* bytes of UartTx, the words of SpiMaster and of its slave, the frames of MdioMaster, the
\* commands of I2cMasterBitCtrl and the packets that Utmi_to_Ulpi passes on.
WordsArrive ==
    /\ UartBytesArrive /\ SpiWordsAreExchanged /\ MdioFramesMatch /\ I2cShowsCommands
    /\ UlpiPacketsPass

Works ==
    CASE component = "uart" -> uart_sent # <<>>
      [] component = "spi" -> spi_cmd # <<>>
      [] component = "mdio" -> mdio.st # "idle"
      [] component = "i2c" -> i2c_cmd # NOP
      [] OTHER -> FALSE

Ends ==
    CASE component = "uart" -> RxVld
      [] component = "spi" -> spi.endOfWordDelayed
      [] component = "mdio" -> Len(phy.bits) = FRAME_W
      [] component = "i2c" -> CmdAck
      [] OTHER -> TRUE

\* Each byte, word, frame and command comes to its end, and so do the control transfers and
\* the packets to a USB device, also after a loss.
TransfersEnd == (Works ~> Ends) /\ UsbTransfersEnd
================================================================================
