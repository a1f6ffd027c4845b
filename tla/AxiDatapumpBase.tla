-------------------------- MODULE AxiDatapumpBase --------------------------
(***************************************************************************)
(* hwtLib.amba.datapump.base.AxiDatapumpBase: the address side of both     *)
(* datapumps.  A request for more words than an AXI burst can hold is      *)
(* split; it stays at the port until its last part has been sent.          *)
(* Addresses count words of the bus, every request is aligned to one       *)
(* (ALIGNAS = DATA_WIDTH), len is the number of words - 1.                 *)
(***************************************************************************)
EXTENDS Integers, Sequences, StreamNode

CONSTANTS
    AXI_LEN_MAX,        \* 2 ^ LEN_WIDTH - 1
    MAX_TRANS_OVERLAP   \* DEPTH of every HandshakedFifo around the datapumps

ASSUME AxiLenAssumption == AXI_LEN_MAX \in Nat
ASSUME OverlapAssumption == MAX_TRANS_OVERLAP \in Nat \ {0}

VARIABLES
    transPartPending,   \* a part of the request at the port has been sent
    addrTmp,            \* address and
    reqLenRemaining     \* length of what is left of it

splitVars == <<transPartPending, addrTmp, reqLenRemaining>>

ADDR_STEP == AXI_LEN_MAX + 1

SplitInit ==
    /\ transPartPending = FALSE
    /\ addrTmp = 0
    /\ reqLenRemaining = 0

ReqLen(req) == IF transPartPending THEN reqLenRemaining ELSE req.len

\* There will be a further part.
Splits(req) == ReqLen(req) > AXI_LEN_MAX

\* What goes to the address channel.
Burst(req) ==
    [addr |-> IF transPartPending THEN addrTmp ELSE req.addr,
     len |-> IF Splits(req) THEN AXI_LEN_MAX ELSE ReqLen(req)]

\* A fifo is here the queue it implements (HandshakedFifoProofs, ImplementsQueue).
HasRoom(fifo) == Len(fifo) < MAX_TRANS_OVERLAP

\* dispatchNode: the request is acknowledged with its last part.
DispatchNode(req, reqVld, axiReady, infoReady) ==
    [req |-> Port(reqVld, ~Splits(req), Splits(req)),
     axiA |-> Port(axiReady, reqVld, FALSE),
     transInfo |-> Port(infoReady, reqVld, FALSE)]

\* Transfers of addrHandler when the memory takes the address; an error closes the node.
AddrTransfers(req, reqVld, infoFifo, errFlag) ==
    Transfers(DispatchNode(req, reqVld, TRUE, HasRoom(infoFifo)), ~errFlag)

\* The registers after a part of req was sent.
NextAddrTmp_Restart(req) == req.addr + ADDR_STEP
NextAddrTmp(req) == IF transPartPending THEN addrTmp + ADDR_STEP ELSE req.addr + ADDR_STEP

NextReqLenRemaining(req) ==
    IF Splits(req) THEN ReqLen(req) - ADDR_STEP ELSE reqLenRemaining

SendPart(req) ==
    /\ transPartPending' = Splits(req)
    /\ addrTmp' = NextAddrTmp(req)
    /\ reqLenRemaining' = NextReqLenRemaining(req)

---------------------------------------------------------------------------
(* hwtLib.amba.axi_comp.interconnect.base.AxiInterconnectBase: the request side of both   *)
(* interconnects.  The drivers' requests are joined by a HsJoinFair; the number of the    *)
(* driver goes to an order fifo together with its request.                                *)

CONSTANTS
    DRIVER_CNT,
    Requests,     \* [addr, len] of the requests the drivers make
    NoReq,
    COMPETING     \* may a driver ask while the request of another one is being split

ASSUME DriverAssumption == DRIVER_CNT \in Nat \ {0} /\ NoReq \notin Requests
ASSUME RequestAssumption == Requests \subseteq [addr : Nat, len : Nat]

Drivers == 0 .. DRIVER_CNT - 1

VARIABLES
    req,         \* [Drivers -> request at the port, NoReq for none]
    direction    \* "read" or "write": which of the two interconnects this one is

requestVars == <<splitVars, req, direction>>

RequestInit(directions) ==
    /\ SplitInit
    /\ direction \in directions
    /\ req = [d \in Drivers |-> NoReq]

Long(q) == q # NoReq /\ q.len > AXI_LEN_MAX

\* The drivers keep a request at their port until it is taken.
Offer(d) ==
    /\ req[d] = NoReq
    /\ \E q \in Requests :
          /\ COMPETING \/ \A e \in Drivers : req[e] # NoReq => ~Long(q) /\ ~Long(req[e])
          /\ req' = [req EXCEPT ![d] = q]
    /\ UNCHANGED <<splitVars, direction>>

Asking == {d \in Drivers : req[d] # NoReq}

\* The join may select d: the position of the priority is arbitrary at a transfer.
Selected(d) == \E priority \in Drivers : IsSelected(priority, Asking, d)

\* reqHandler: a StreamNode without conditions, so the request, the datapump and the order
\* fifo transfer together or not at all (StreamNode, AllOrNothing).
Acknowledges(d, infoFifo, orderFifo, errFlag) ==
    /\ HasRoom(orderFifo)
    /\ "req" \in AddrTransfers(req[d], HasRoom(orderFifo), infoFifo, errFlag)

NextReq(d, acknowledged) == IF acknowledged THEN [req EXCEPT ![d] = NoReq] ELSE req

NextOrderFifo(d, acknowledged, orderFifo) ==
    IF acknowledged THEN Append(orderFifo, d) ELSE orderFifo
===========================================================================
