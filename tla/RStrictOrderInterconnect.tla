---------------------- MODULE RStrictOrderInterconnect ----------------------
(***************************************************************************)
(* hwtLib.amba.datapump.interconnect.rStricOrder.RStrictOrderInterconnect  *)
(* with the drivers before it and hwtLib.amba.datapump.r.Axi_rDatapump and *)
(* a memory behind it.  The datapump, for aligned data, merges the bursts  *)
(* of a split request to one packet again (the number of valid bytes of    *)
(* the last word, which travels with propagateLast, is left out), and      *)
(* orderInfoFifo tells who gets the data.  One action is one transfer (or  *)
(* a joint one) on the interfaces; between two of them any number of       *)
(* clocks may pass.                                                        *)
(***************************************************************************)
EXTENDS AxiDatapumpBase, FiniteSetsExt, SequencesExt

---------------------------------------------------------------------------
(* The datapump *)

VARIABLES
    sizeRmFifo,   \* Seq(BOOLEAN): propagateLast of the bursts under way
    errorRead,
    bursts        \* the memory: the bursts it still has to answer, in order

readVars == <<sizeRmFifo, errorRead, bursts>>

ReadInit ==
    /\ sizeRmFifo = <<>>
    /\ errorRead = FALSE
    /\ bursts = <<>>

\* storeTransInfo
PropagateLast_Always(r) == TRUE
PropagateLast(r) == ~Splits(r)

\* ar, the transfer information and, with the last part, the request.
SendReadBurst(r, reqVld) ==
    /\ "axiA" \in AddrTransfers(r, reqVld, sizeRmFifo, errorRead)
    /\ bursts' = Append(bursts, Burst(r))
    /\ sizeRmFifo' = Append(sizeRmFifo, PropagateLast(r))
    /\ SendPart(r)
    /\ UNCHANGED errorRead

---------------------------------------------------------------------------
(* dataHandler *)

RLast == Head(bursts).len = 0

\* last of the packet
OutLast == Head(sizeRmFifo) /\ RLast

DataNode_PopsWithPacket(outReady) ==
    [r |-> PlainPort(bursts # <<>>),
     rmSize |-> Port(sizeRmFifo # <<>>, bursts # <<>> /\ sizeRmFifo # <<>> /\ OutLast, FALSE),
     rOut |-> Port(outReady, ~errorRead, FALSE)]
DataNode(outReady) ==
    [r |-> PlainPort(bursts # <<>>),
     rmSize |-> Port(sizeRmFifo # <<>>, bursts # <<>> /\ RLast, FALSE),
     rOut |-> Port(outReady, ~errorRead, FALSE)]

DataTransfers(outReady) == Transfers(DataNode(outReady), TRUE)

\* A word of the memory is taken; with an error it is taken and not delivered.
DataHandler(outReady, bad) ==
    /\ "r" \in DataTransfers(outReady)
    /\ bursts' = IF RLast THEN Tail(bursts)
                 ELSE [bursts EXCEPT ![1] = [addr |-> @.addr + 1, len |-> @.len - 1]]
    /\ sizeRmFifo' = IF "rmSize" \in DataTransfers(outReady)
                     THEN Tail(sizeRmFifo) ELSE sizeRmFifo
    /\ errorRead' = (errorRead \/ bad)

\* r.valid with an error response; that the word waits does not matter.
SeeError ==
    /\ bursts # <<>>
    /\ errorRead' = TRUE
    /\ UNCHANGED <<sizeRmFifo, bursts>>

---------------------------------------------------------------------------
(* The interconnect *)

VARIABLES
    orderInfoFifo,  \* Seq(Drivers)
    beat            \* <<[driver, addr, last]>>: delivered in the last step, or <<>>

rVars == <<readVars, orderInfoFifo, beat>>

RInit ==
    /\ ReadInit
    /\ orderInfoFifo = <<>>
    /\ beat = <<>>

ROffer(d) ==
    /\ Offer(d)
    /\ beat' = <<>>
    /\ UNCHANGED <<readVars, orderInfoFifo>>

\* The datapump sends a burst for the request it sees, which is the one the join selects
\* at that clock.
RDispatch(d) ==
    /\ Selected(d)
    /\ SendReadBurst(req[d], HasRoom(orderInfoFifo))
    /\ LET acknowledged == Acknowledges(d, sizeRmFifo, orderInfoFifo, errorRead)
       IN  /\ req' = NextReq(d, acknowledged)
           /\ orderInfoFifo' = NextOrderFifo(d, acknowledged, orderInfoFifo)
    /\ beat' = <<>>
    /\ UNCHANGED direction

\* r: the word goes to the driver at the head of orderInfoFifo, which is ready.
Beat(bad) ==
    /\ DataHandler(orderInfoFifo # <<>>, bad)
    /\ LET delivered == "rOut" \in DataTransfers(orderInfoFifo # <<>>)
       IN  /\ beat' = IF delivered
                      THEN <<[driver |-> Head(orderInfoFifo), addr |-> Head(bursts).addr,
                              last |-> OutLast]>>
                      ELSE <<>>
           /\ orderInfoFifo' = IF delivered /\ OutLast THEN Tail(orderInfoFifo)
                               ELSE orderInfoFifo
    /\ UNCHANGED requestVars

BadAnswer ==
    /\ ~errorRead
    /\ SeeError
    /\ beat' = <<>>
    /\ UNCHANGED <<requestVars, orderInfoFifo>>

RNext ==
    /\ direction = "read"
    /\ \/ \E d \in Drivers : ROffer(d) \/ RDispatch(d)
       \/ \E bad \in BOOLEAN : Beat(bad)
       \/ BadAnswer

---------------------------------------------------------------------------
(* Properties *)

\* The two fifos, which are filled and emptied by different handshakes, and the memory
\* stay in step: every burst has its information, every packet that ends has a driver
\* waiting for it, and what follows the last end is the request that is being split.
ReadFifosInStep ==
    direction = "read" /\ ~errorRead =>
        /\ Len(sizeRmFifo) = Len(bursts)
        /\ Cardinality({i \in DOMAIN sizeRmFifo : sizeRmFifo[i]}) = Len(orderInfoFifo)
        /\ transPartPending <=> sizeRmFifo # <<>> /\ ~Last(sizeRmFifo)

\* The packets under way: bursts up to and including one with propagateLast.
Ends == SelectSeq([i \in DOMAIN bursts |-> i], LAMBDA i : sizeRmFifo[i])

Packet(k) ==
    LET first == IF k = 1 THEN 1 ELSE Ends[k - 1] + 1
    IN  [addr |-> bursts[first].addr,
         len |-> FoldSet(LAMBDA i, n : n + bursts[i].len + 1, 0, first .. Ends[k]) - 1]

PacketsOf(d) ==
    LET ks == SelectSeq([k \in DOMAIN orderInfoFifo |-> k], LAMBDA k : orderInfoFifo[k] = d)
    IN  [i \in DOMAIN ks |-> Packet(ks[i])]

readers == INSTANCE InOrderReaders
    WITH req <- IF direction = "read" THEN req ELSE [d \in Drivers |-> NoReq],
         pending <- [d \in Drivers |-> IF errorRead THEN <<>> ELSE PacketsOf(d)],
         failed <- errorRead

\* `Response on request is delivered to driver which asked for it while transactions can
\* overlap' (rStricOrder.py) and `returned read data is a single packet as originally
\* requested' (r.py).
ReadersSpec == readers!Spec
===========================================================================
