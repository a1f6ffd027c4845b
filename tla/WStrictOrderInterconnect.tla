---------------------- MODULE WStrictOrderInterconnect ----------------------
(***************************************************************************)
(* hwtLib.amba.datapump.interconnect.wStrictOrder.WStrictOrderInterconnect *)
(* with the drivers before it and hwtLib.amba.datapump.w.Axi_wDatapump and *)
(* a memory behind it.  The datapump, for aligned data, cuts the data of a *)
(* request to bursts by a counter of words and merges the answers to the   *)
(* bursts of one request to one acknowledge; orderInfoFifoW tells whose    *)
(* data are sent, orderInfoFifoAck who gets the acknowledge.  One action   *)
(* is one transfer (or a joint one), as in RStrictOrderInterconnect.       *)
(***************************************************************************)
EXTENDS AxiDatapumpBase, FiniteSetsExt, SequencesExt

---------------------------------------------------------------------------
(* The datapump *)

VARIABLES
    writeInfoFifo,  \* Seq({"burst"}): bursts whose data have not been sent, no content
    bInfoFifo,      \* Seq(BOOLEAN): isLast of the bursts to be answered
    wWordCntr,      \* words of the current burst that have been sent
    wErrFlag,
    \* the memory
    writeBursts,    \* bursts whose data it still waits for, in order
    answers         \* Seq([driver, last]): bursts it has not answered yet, whose they
                    \* are and whether they end the request

writeVars == <<writeInfoFifo, bInfoFifo, wWordCntr, wErrFlag, writeBursts, answers>>

WriteInit ==
    /\ writeInfoFifo = <<>>
    /\ bInfoFifo = <<>>
    /\ wWordCntr = 0
    /\ wErrFlag = FALSE
    /\ writeBursts = <<>>
    /\ answers = <<>>

\* aw, the transfer information and, with the last part, the request.
SendWriteBurst(r, reqVld) ==
    /\ "axiA" \in AddrTransfers(r, reqVld, writeInfoFifo, wErrFlag)
    /\ writeBursts' = Append(writeBursts, Burst(r))
    /\ writeInfoFifo' = Append(writeInfoFifo, "burst")
    /\ SendPart(r)
    /\ UNCHANGED <<bInfoFifo, wWordCntr, wErrFlag, answers>>

---------------------------------------------------------------------------
(* axiWHandler; last is the one of the driver *)

DoSplit(last) == wWordCntr = AXI_LEN_MAX \/ last

WNode(last) ==
    [wIn |-> PlainPort(TRUE),
     wInfo |-> Port(writeInfoFifo # <<>>, DoSplit(last), FALSE),
     bInfo |-> Port(HasRoom(bInfoFifo), DoSplit(last), FALSE),
     w |-> Port(writeBursts # <<>>, ~wErrFlag, FALSE)]

WTransfers(last) == Transfers(WNode(last), TRUE)

NextWWordCntr(last) ==
    IF wErrFlag THEN wWordCntr
    ELSE IF DoSplit(last) THEN 0 ELSE wWordCntr + 1

\* isLast of a burst that is followed by others of the request is 0.
BIsLast_Always(last) == TRUE
BIsLast(last) == last

\* A word of driver d; after an error it is taken and not written.
AxiWHandler(d, last) ==
    /\ "wIn" \in WTransfers(last)
    /\ writeInfoFifo' = IF "wInfo" \in WTransfers(last) THEN Tail(writeInfoFifo)
                        ELSE writeInfoFifo
    /\ bInfoFifo' = IF "bInfo" \in WTransfers(last) THEN Append(bInfoFifo, BIsLast(last))
                    ELSE bInfoFifo
    /\ wWordCntr' = NextWWordCntr(last)
    /\ IF "w" \notin WTransfers(last) THEN UNCHANGED <<writeBursts, answers>>
       ELSE IF DoSplit(last)
       THEN /\ writeBursts' = Tail(writeBursts)
            /\ answers' = Append(answers, [driver |-> d, last |-> last])
       ELSE /\ writeBursts' = [writeBursts EXCEPT
                                 ![1] = [addr |-> @.addr + 1, len |-> @.len - 1]]
            /\ UNCHANGED answers
    /\ UNCHANGED wErrFlag

---------------------------------------------------------------------------
(* axiBHandler *)

BNode(ackReady) ==
    [b |-> PlainPort(answers # <<>>),
     lastFlags |-> PlainPort(bInfoFifo # <<>>),
     ack |-> Port(ackReady, bInfoFifo # <<>> /\ Head(bInfoFifo), FALSE)]

BTransfers(ackReady) == Transfers(BNode(ackReady), TRUE)

\* The memory answers a burst, and the answer is taken.
AxiBHandler(ackReady, bad) ==
    /\ "b" \in BTransfers(ackReady)
    /\ answers' = Tail(answers)
    /\ bInfoFifo' = IF "lastFlags" \in BTransfers(ackReady) THEN Tail(bInfoFifo) ELSE bInfoFifo
    /\ wErrFlag' = (wErrFlag \/ bad)
    /\ UNCHANGED <<writeInfoFifo, wWordCntr, writeBursts>>

\* b.valid with an error response; that the answer waits does not matter.
SeeWriteError ==
    /\ answers # <<>>
    /\ wErrFlag' = TRUE
    /\ UNCHANGED <<writeInfoFifo, bInfoFifo, wWordCntr, writeBursts, answers>>

---------------------------------------------------------------------------
(* The interconnect *)

VARIABLES
    orderInfoFifoW,     \* Seq(Drivers)
    orderInfoFifoAck,   \* Seq(Drivers)
    sending,            \* [Drivers -> Seq([addr, len])]: what they have still to send
    written,            \* <<[driver, addr]>>: written in the last step, or <<>>
    acked               \* <<driver>>: acknowledged in the last step, or <<>>

wVars == <<writeVars, orderInfoFifoW, orderInfoFifoAck, sending, written, acked>>

WInit ==
    /\ WriteInit
    /\ orderInfoFifoW = <<>>
    /\ orderInfoFifoAck = <<>>
    /\ sending = [d \in Drivers |-> <<>>]
    /\ written = <<>>
    /\ acked = <<>>

WOffer(d) ==
    /\ Offer(d)
    /\ written' = <<>> /\ acked' = <<>>
    /\ UNCHANGED <<writeVars, orderInfoFifoW, orderInfoFifoAck, sending>>

\* A driver sends the words of a request after it has been acknowledged.
WDispatch(d) ==
    /\ Selected(d)
    /\ SendWriteBurst(req[d], HasRoom(orderInfoFifoW))
    /\ LET acknowledged == Acknowledges(d, writeInfoFifo, orderInfoFifoW, wErrFlag)
       IN  /\ req' = NextReq(d, acknowledged)
           /\ orderInfoFifoW' = NextOrderFifo(d, acknowledged, orderInfoFifoW)
           /\ sending' = IF acknowledged THEN [sending EXCEPT ![d] = Append(@, req[d])]
                         ELSE sending
    /\ written' = <<>> /\ acked' = <<>>
    /\ UNCHANGED <<orderInfoFifoAck, direction>>

\* wHandler: a word of the driver at the head of orderInfoFifoW.  There has to be room for
\* its acknowledge, whether or not it is the last word.
Word(d) ==
    LET q == Head(sending[d])
        last == q.len = 0
    IN  /\ orderInfoFifoW # <<>> /\ d = Head(orderInfoFifoW)
        /\ HasRoom(orderInfoFifoAck)
        /\ AxiWHandler(d, last)
        /\ sending' = [sending EXCEPT ![d] =
               IF last THEN Tail(@)
               ELSE <<[addr |-> q.addr + 1, len |-> q.len - 1]>> \o Tail(@)]
        /\ orderInfoFifoW' = IF last THEN Tail(orderInfoFifoW) ELSE orderInfoFifoW
        /\ orderInfoFifoAck' = IF last THEN Append(orderInfoFifoAck, d) ELSE orderInfoFifoAck
        /\ written' = IF "w" \in WTransfers(last)
                      THEN <<[driver |-> d, addr |-> Head(writeBursts).addr]>> ELSE <<>>
        /\ acked' = <<>>
        /\ UNCHANGED requestVars

\* ackHandler: the driver at the head of orderInfoFifoAck is ready.
Response(bad) ==
    /\ AxiBHandler(orderInfoFifoAck # <<>>, bad)
    /\ LET acknowledges == "ack" \in BTransfers(orderInfoFifoAck # <<>>)
       IN  /\ acked' = IF acknowledges THEN <<Head(orderInfoFifoAck)>> ELSE <<>>
           /\ orderInfoFifoAck' = IF acknowledges THEN Tail(orderInfoFifoAck)
                                  ELSE orderInfoFifoAck
    /\ written' = <<>>
    /\ UNCHANGED <<requestVars, orderInfoFifoW, sending>>

BadWriteAnswer ==
    /\ ~wErrFlag
    /\ SeeWriteError
    /\ written' = <<>> /\ acked' = <<>>
    /\ UNCHANGED <<requestVars, orderInfoFifoW, orderInfoFifoAck, sending>>

WNext ==
    /\ direction = "write"
    /\ \/ \E d \in Drivers : WOffer(d) \/ WDispatch(d) \/ Word(d)
       \/ \E bad \in BOOLEAN : Response(bad)
       \/ BadWriteAnswer

---------------------------------------------------------------------------
(* Properties *)

\* The drivers in the queue for an acknowledge are those of the bursts, answered in this
\* order, that end a request.
AcksMatch ==
    \E end \in [DOMAIN orderInfoFifoAck -> DOMAIN answers] :
        /\ {end[k] : k \in DOMAIN end} = {i \in DOMAIN answers : answers[i].last}
        /\ \A j, k \in DOMAIN end : j < k => end[j] < end[k]
        /\ \A k \in DOMAIN end : orderInfoFifoAck[k] = answers[end[k]].driver

\* The address side cuts a request by its length, the data side by counting words and by
\* the driver's last: both make the same bursts, so that w.last ends the burst the memory
\* is told of, and every burst, answer and acknowledge finds its information.
WriteFifosInStep ==
    direction = "write" /\ ~wErrFlag =>
        /\ Len(writeInfoFifo) = Len(writeBursts)
        /\ bInfoFifo = [i \in DOMAIN answers |-> answers[i].last]
        /\ AcksMatch
        /\ orderInfoFifoW # <<>> =>
              LET q == Head(sending[Head(orderInfoFifoW)])
              IN  /\ Head(writeBursts).addr = q.addr
                  /\ Head(writeBursts).len = 0 <=> DoSplit(q.len = 0)

writers == INSTANCE InOrderWriters
    WITH req <- IF direction = "write" THEN req ELSE [d \in Drivers |-> NoReq],
         pending <- IF wErrFlag THEN [d \in Drivers |-> <<>>] ELSE sending,
         failed <- wErrFlag

\* `Ensures that response on request is delivered to driver which asked for it while
\* transactions can overlap' (wStrictOrder.py).
WritersSpec == writers!Spec
===========================================================================
