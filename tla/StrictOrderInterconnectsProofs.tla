------------------- MODULE StrictOrderInterconnectsProofs -------------------
(***************************************************************************)
(* The interconnects and their datapumps, for every number of drivers,     *)
(* length of a burst, depth of the fifos and set of requests.              *)
(*                                                                         *)
(*   ReadInv    ReadFifosInStep with the types; it needs no more           *)
(*   WriteInv   the bursts at the memory are a cut of the requests that    *)
(*              are to be sent, in the order of orderInfoFifoW, and the    *)
(*              acknowledges that wait are the bursts that end a request   *)
(*                                                                         *)
(* The write side is in step only when no driver asks while the request of *)
(* another one is split (~COMPETING): the datapump would send what is left *)
(* of one request as a part of the other.                                  *)
(***************************************************************************)
EXTENDS MCStrictOrderInterconnects, SequenceTheorems, FiniteSetTheorems, TLAPS

---------------------------------------------------------------------------
(* Reads.  ReadFifosInStep is inductive together with the types: a burst without           *)
(* propagateLast stays at the memory until the rest of its request has been sent, because  *)
(* orderInfoFifo does not know a driver for its words.                                     *)

BurstRecord == [addr : Int, len : Nat]

RequestTypes ==
    /\ transPartPending \in BOOLEAN
    /\ addrTmp \in Int
    /\ reqLenRemaining \in Int
    /\ transPartPending => reqLenRemaining \in Nat
    /\ req \in [Drivers -> Requests \cup {NoReq}]

ReadTypes ==
    /\ sizeRmFifo \in Seq(BOOLEAN)
    /\ errorRead \in BOOLEAN
    /\ bursts \in Seq(BurstRecord)
    /\ orderInfoFifo \in Seq(Drivers)

WriteTypes ==
    /\ writeInfoFifo \in Seq({"burst"})
    /\ bInfoFifo \in Seq(BOOLEAN)
    /\ wWordCntr \in Nat
    /\ wErrFlag \in BOOLEAN
    /\ writeBursts \in Seq(BurstRecord)
    /\ answers \in Seq([driver : Drivers, last : BOOLEAN])
    /\ orderInfoFifoW \in Seq(Drivers)
    /\ orderInfoFifoAck \in Seq(Drivers)
    /\ sending \in [Drivers -> Seq(BurstRecord)]

ReadInv == RequestTypes /\ ReadTypes /\ ReadFifosInStep

\* While a request is split it is the only one.
OneIsSplit ==
    /\ \A d, e \in Drivers : d # e /\ Long(req[d]) => req[e] = NoReq
    /\ transPartPending => \E d \in Drivers : Long(req[d])

\* rank[k]: the k-th driver in orderInfoFifoW sends the rank[k]-th of its requests.
Ranks(rank) ==
    /\ rank \in [DOMAIN orderInfoFifoW -> UNION {DOMAIN sending[d] : d \in Drivers}]
    /\ \A k \in DOMAIN orderInfoFifoW : rank[k] \in DOMAIN sending[orderInfoFifoW[k]]
    /\ \A j, k \in DOMAIN orderInfoFifoW :
          j < k /\ orderInfoFifoW[j] = orderInfoFifoW[k] => rank[j] < rank[k]
    /\ \A d \in Drivers : \A r \in DOMAIN sending[d] :
          \E k \in DOMAIN orderInfoFifoW : orderInfoFifoW[k] = d /\ rank[k] = r

Tasks == Len(orderInfoFifoW) + (IF transPartPending THEN 1 ELSE 0)

SplitRequest == req[CHOOSE d \in Drivers : Long(req[d])]

Task(rank) == [k \in 1 .. Tasks |->
    IF k <= Len(orderInfoFifoW) THEN sending[orderInfoFifoW[k]][rank[k]] ELSE SplitRequest]

End(q) == q.addr + q.len

Sent(i) == IF i = 1 THEN wWordCntr ELSE 0

\* The bursts are those the tasks are cut to: own[i] is the task of burst i.
Begins(task, own) == own[1] = 1 /\ writeBursts[1].addr = task[1].addr

Fits(task, own, i) ==
    /\ writeBursts[i].len + Sent(i) <= AXI_LEN_MAX
    /\ End(writeBursts[i]) <= End(task[own[i]])

Follows(task, own, i) ==
    \/ /\ own[i + 1] = own[i]
       /\ writeBursts[i].len + Sent(i) = AXI_LEN_MAX
       /\ writeBursts[i + 1].addr = End(writeBursts[i]) + 1
    \/ /\ own[i + 1] = own[i] + 1
       /\ End(writeBursts[i]) = End(task[own[i]])
       /\ writeBursts[i + 1].addr = task[own[i + 1]].addr

Finishes(task, own) ==
    LET m == Len(writeBursts)
    IN  /\ own[m] = Tasks
        /\ ~transPartPending => End(writeBursts[m]) = End(task[Tasks])
        /\ transPartPending => /\ writeBursts[m].len + Sent(m) = AXI_LEN_MAX
                               /\ addrTmp = End(writeBursts[m]) + 1
                               /\ addrTmp + reqLenRemaining = End(task[Tasks])

Cut(task, own) ==
    /\ own \in [DOMAIN writeBursts -> 1 .. Tasks]
    /\ \A i, j \in 1 .. Len(writeBursts) : i <= j => own[i] <= own[j]
    /\ Tasks > 0 <=> Len(writeBursts) > 0
    /\ Len(writeBursts) = 0 => wWordCntr = 0
    /\ Len(writeBursts) > 0 => Begins(task, own) /\ Finishes(task, own)
    /\ \A i \in 1 .. Len(writeBursts) : Fits(task, own, i)
    /\ \A i \in 1 .. Len(writeBursts) - 1 : Follows(task, own, i)

Acks(end) ==
    /\ end \in [DOMAIN orderInfoFifoAck -> DOMAIN bInfoFifo]
    /\ \A j, k \in DOMAIN orderInfoFifoAck : j < k => end[j] < end[k]
    /\ \A i \in DOMAIN bInfoFifo : bInfoFifo[i] <=> \E k \in DOMAIN orderInfoFifoAck : end[k] = i
    /\ \A k \in DOMAIN orderInfoFifoAck :
          end[k] <= Len(answers) => orderInfoFifoAck[k] = answers[end[k]].driver

AnswersInStep ==
    /\ Len(answers) <= Len(bInfoFifo)
    /\ ~wErrFlag => Len(answers) = Len(bInfoFifo) /\ Len(writeInfoFifo) = Len(writeBursts)
    /\ \A i \in DOMAIN answers : answers[i].last = bInfoFifo[i]
    /\ \E end \in [DOMAIN orderInfoFifoAck -> DOMAIN bInfoFifo] : Acks(end)

BurstsInStep ==
    \E rank \in [DOMAIN orderInfoFifoW -> UNION {DOMAIN sending[d] : d \in Drivers}] :
        /\ Ranks(rank)
        /\ ~wErrFlag => \E own \in [DOMAIN writeBursts -> 1 .. Tasks] : Cut(Task(rank), own)

WriteInv ==
    /\ RequestTypes /\ WriteTypes
    /\ direction = "write" => OneIsSplit /\ AnswersInStep /\ BurstsInStep
---------------------------------------------------------------------------
(* The nodes *)

\* A burst is sent when everyone is ready, and the request acknowledged with its last part.
LEMMA AddrTransfersAre ==
    ASSUME NEW r, NEW vld \in BOOLEAN, NEW fifo, NEW err \in BOOLEAN
    PROVE  /\ "axiA" \in AddrTransfers(r, vld, fifo, err) <=> vld /\ HasRoom(fifo) /\ ~err
           /\ "req" \in AddrTransfers(r, vld, fifo, err)
                <=> vld /\ HasRoom(fifo) /\ ~err /\ ~Splits(r)
<1> DEFINE node == DispatchNode(r, vld, TRUE, HasRoom(fifo))
<1> DEFINE more == Splits(r)
<1>0. more \in BOOLEAN
  BY DEF Splits
<1>1. DOMAIN node = {"req", "axiA", "transInfo"}
  BY DEF DispatchNode
<1>2. /\ node["req"] = Port(vld, ~more, more)
      /\ node["axiA"] = Port(TRUE, vld, FALSE)
      /\ node["transInfo"] = Port(HasRoom(fifo), vld, FALSE)
  BY DEF DispatchNode
<1>5. more = Splits(r)
  OBVIOUS
<1>4. AddrTransfers(r, vld, fifo, err) = Transfers(node, ~err)
  BY DEF AddrTransfers
<1> HIDE DEF more, node
<1>3. /\ node["req"].up = vld /\ node["req"].extra = ~more /\ node["req"].skip = more
      /\ node["axiA"].up = TRUE /\ node["axiA"].extra = vld /\ node["axiA"].skip = FALSE
      /\ node["transInfo"].up = HasRoom(fifo) /\ node["transInfo"].extra = vld
      /\ node["transInfo"].skip = FALSE
  BY <1>0, <1>2 DEF Port
<1> QED
  BY <1>0, <1>1, <1>3, <1>4, <1>5 DEF Transfers, Answer, InTheWay

\* A word is delivered when there is one, its size information and a driver, or an error.
LEMMA DataTransfersAre ==
    ASSUME NEW ready \in BOOLEAN, errorRead \in BOOLEAN
    PROVE  /\ "r" \in DataTransfers(ready)
                <=> bursts # <<>> /\ sizeRmFifo # <<>> /\ ready
           /\ "rmSize" \in DataTransfers(ready)
                <=> bursts # <<>> /\ sizeRmFifo # <<>> /\ ready /\ RLast
           /\ "rOut" \in DataTransfers(ready)
                <=> bursts # <<>> /\ sizeRmFifo # <<>> /\ ready /\ ~errorRead
<1> DEFINE node == DataNode(ready)
<1>1. DOMAIN node = {"r", "rmSize", "rOut"}
  BY DEF DataNode
<1>2. /\ node["r"] = Port(bursts # <<>>, TRUE, FALSE)
      /\ node["rmSize"] = Port(sizeRmFifo # <<>>, bursts # <<>> /\ RLast, FALSE)
      /\ node["rOut"] = Port(ready, ~errorRead, FALSE)
  BY DEF DataNode, PlainPort
<1>3. /\ node["r"].up = (bursts # <<>>) /\ node["r"].extra = TRUE /\ node["r"].skip = FALSE
      /\ node["rmSize"].up = (sizeRmFifo # <<>>)
      /\ node["rmSize"].extra = (bursts # <<>> /\ RLast)
      /\ node["rmSize"].skip = FALSE
      /\ node["rOut"].up = ready /\ node["rOut"].extra = ~errorRead /\ node["rOut"].skip = FALSE
  BY <1>2 DEF Port
<1>4. DataTransfers(ready) = Transfers(node, TRUE)
  BY DEF DataTransfers
<1> HIDE DEF node
<1> QED
  BY <1>1, <1>3, <1>4 DEF Transfers, Answer, InTheWay

\* A word is taken with its size information and a place for its answer; after an error the
\* memory does not get it.
LEMMA WTransfersAre ==
    ASSUME NEW last \in BOOLEAN, wErrFlag \in BOOLEAN
    PROVE  LET goes == writeInfoFifo # <<>> /\ HasRoom(bInfoFifo) /\ writeBursts # <<>>
           IN  /\ "wIn" \in WTransfers(last) <=> goes
               /\ "wInfo" \in WTransfers(last) <=> goes /\ DoSplit(last)
               /\ "bInfo" \in WTransfers(last) <=> goes /\ DoSplit(last)
               /\ "w" \in WTransfers(last) <=> goes /\ ~wErrFlag
<1> DEFINE node == WNode(last)
<1>1. DOMAIN node = {"wIn", "wInfo", "bInfo", "w"}
  BY DEF WNode
<1>2. /\ node["wIn"] = Port(TRUE, TRUE, FALSE)
      /\ node["wInfo"] = Port(writeInfoFifo # <<>>, DoSplit(last), FALSE)
      /\ node["bInfo"] = Port(HasRoom(bInfoFifo), DoSplit(last), FALSE)
      /\ node["w"] = Port(writeBursts # <<>>, ~wErrFlag, FALSE)
  BY DEF WNode, PlainPort
<1>3. /\ node["wIn"].up = TRUE /\ node["wIn"].extra = TRUE /\ node["wIn"].skip = FALSE
      /\ node["wInfo"].up = (writeInfoFifo # <<>>) /\ node["wInfo"].extra = DoSplit(last)
      /\ node["wInfo"].skip = FALSE
      /\ node["bInfo"].up = HasRoom(bInfoFifo) /\ node["bInfo"].extra = DoSplit(last)
      /\ node["bInfo"].skip = FALSE
      /\ node["w"].up = (writeBursts # <<>>) /\ node["w"].extra = ~wErrFlag
      /\ node["w"].skip = FALSE
  BY <1>2 DEF Port
<1>4. WTransfers(last) = Transfers(node, TRUE)
  BY DEF WTransfers
<1> HIDE DEF node
<1> QED
  BY <1>1, <1>3, <1>4 DEF Transfers, Answer, InTheWay

\* An answer is taken with its flag and, if that is set, with an acknowledge.
LEMMA BTransfersAre ==
    ASSUME NEW ready \in BOOLEAN, bInfoFifo \in Seq(BOOLEAN)
    PROVE  LET goes == answers # <<>> /\ bInfoFifo # <<>> /\ ready
           IN  /\ "b" \in BTransfers(ready) <=> goes
               /\ "lastFlags" \in BTransfers(ready) <=> goes
               /\ "ack" \in BTransfers(ready) <=> goes /\ Head(bInfoFifo)
<1> DEFINE node == BNode(ready)
<1> DEFINE ends == bInfoFifo # <<>> /\ Head(bInfoFifo)
<1>0. ends \in BOOLEAN
  OBVIOUS
<1>1. DOMAIN node = {"b", "lastFlags", "ack"}
  BY DEF BNode
<1>2. /\ node["b"] = Port(answers # <<>>, TRUE, FALSE)
      /\ node["lastFlags"] = Port(bInfoFifo # <<>>, TRUE, FALSE)
      /\ node["ack"] = Port(ready, ends, FALSE)
  BY DEF BNode, PlainPort
<1>5. ends = (bInfoFifo # <<>> /\ Head(bInfoFifo))
  OBVIOUS
<1> HIDE DEF ends
<1>3. /\ node["b"].up = (answers # <<>>) /\ node["b"].extra = TRUE /\ node["b"].skip = FALSE
      /\ node["lastFlags"].up = (bInfoFifo # <<>>) /\ node["lastFlags"].extra = TRUE
      /\ node["lastFlags"].skip = FALSE
      /\ node["ack"].up = ready /\ node["ack"].extra = ends
      /\ node["ack"].skip = FALSE
  BY <1>0, <1>2 DEF Port
<1>4. BTransfers(ready) = Transfers(node, TRUE)
  BY DEF BTransfers
<1> HIDE DEF node
<1> QED
  BY <1>0, <1>1, <1>3, <1>4, <1>5 DEF Transfers, Answer, InTheWay

---------------------------------------------------------------------------
(* Requests and their parts *)

\* Whoever the arbiter may select has a request.
LEMMA Selecting ==
    ASSUME RequestTypes, NEW d \in Drivers, Selected(d)
    PROVE  d \in Asking /\ req[d] \in Requests /\ req[d].addr \in Nat /\ req[d].len \in Nat
<1>1. d \in Asking
  BY DEF Selected, IsSelected
<1>2. req[d] # NoReq /\ req[d] \in Requests \cup {NoReq}
  BY <1>1 DEF Asking, RequestTypes
<1> QED
  BY <1>1, <1>2, RequestAssumption

\* A request at a port is one of the possible ones.
LEMMA OfferTypes ==
    ASSUME RequestTypes, NEW d \in Drivers, Offer(d)
    PROVE  RequestTypes'
<1>1. PICK q \in Requests : req' = [req EXCEPT ![d] = q]
  BY DEF Offer
<1> QED
  BY <1>1 DEF RequestTypes, Offer, splitVars

\* A part of a request is sent: it is a burst, and what is left has a length.
LEMMA SendTypes ==
    ASSUME RequestTypes, NEW d \in Drivers, Selected(d), SendPart(req[d]),
           NEW acknowledged, req' = NextReq(d, acknowledged), direction' = direction
    PROVE  RequestTypes' /\ Burst(req[d]) \in BurstRecord
<1> DEFINE q == req[d]
<1>1. q \in Requests /\ q.addr \in Nat /\ q.len \in Nat
  BY Selecting
<1>2. ReqLen(q) \in Nat
  BY <1>1 DEF ReqLen, RequestTypes
<1>3. Burst(q) \in BurstRecord
  BY <1>1, <1>2, AxiLenAssumption DEF Burst, BurstRecord, RequestTypes
<1>4. transPartPending' \in BOOLEAN /\ addrTmp' \in Int
  BY <1>1, AxiLenAssumption
     DEF SendPart, Splits, NextAddrTmp, ADDR_STEP, RequestTypes
<1>5. reqLenRemaining' \in Int /\ (transPartPending' => reqLenRemaining' \in Nat)
  BY <1>2, AxiLenAssumption
     DEF SendPart, Splits, NextReqLenRemaining, ADDR_STEP, RequestTypes
<1>6. req' \in [Drivers -> Requests \cup {NoReq}]
  BY DEF NextReq, RequestTypes
<1> QED
  BY <1>3, <1>4, <1>5, <1>6 DEF RequestTypes

---------------------------------------------------------------------------
(* Reads *)

TrueCount(s) == Cardinality({i \in DOMAIN s : s[i]})

\* How many elements are TRUE after an append,
LEMMA CountAppend ==
    ASSUME NEW s \in Seq(BOOLEAN), NEW b \in BOOLEAN
    PROVE  /\ TrueCount(s) \in Nat
           /\ TrueCount(Append(s, b)) = TrueCount(s) + (IF b THEN 1 ELSE 0)
<1> DEFINE S == {i \in DOMAIN s : s[i]}
           T == {i \in DOMAIN Append(s, b) : Append(s, b)[i]}
<1>1. S \subseteq 1 .. Len(s) /\ Len(s) \in Nat
  OBVIOUS
<1>2. IsFiniteSet(1 .. Len(s))
  BY <1>1, FS_Interval
<1>3. IsFiniteSet(S)
  BY <1>1, <1>2, FS_Subset
<1>4. Cardinality(S) \in Nat
  BY <1>3, FS_CardinalityType
<1>7. TrueCount(s) = Cardinality(S) /\ TrueCount(Append(s, b)) = Cardinality(T)
  BY Zenon DEF TrueCount
<1>5. CASE b
  <2>1. T = S \cup {Len(s) + 1}
    BY <1>5
  <2>2. Len(s) + 1 \notin S
    BY <1>1
  <2>3. Cardinality(S \cup {Len(s) + 1}) = Cardinality(S) + 1
    BY <1>3, <2>2, FS_AddElement, Zenon
  <2>4. Cardinality(T) = Cardinality(S \cup {Len(s) + 1})
    BY <2>1, Zenon
  <2> HIDE DEF S, T
  <2> QED
    BY <1>4, <1>5, <1>7, <2>3, <2>4
<1>6. CASE ~b
  <2>1. T = S
    BY <1>6
  <2>2. Cardinality(T) = Cardinality(S)
    BY <2>1, Zenon
  <2> HIDE DEF S, T
  <2> QED
    BY <1>4, <1>6, <1>7, <2>2
<1> QED
  BY <1>5, <1>6

\* and after the first one has gone.
LEMMA CountTail ==
    ASSUME NEW s \in Seq(BOOLEAN), s # <<>>
    PROVE  /\ s[1] => TrueCount(s) = TrueCount(Tail(s)) + 1
           /\ ~s[1] => TrueCount(s) = TrueCount(Tail(s))
<1> DEFINE S == {i \in DOMAIN Tail(s) : Tail(s)[i]}
           U == {i \in DOMAIN s : s[i] /\ i # 1}
           T == {i \in DOMAIN s : s[i]}
           f == [i \in S |-> i + 1]
<1>1. /\ Tail(s) \in Seq(BOOLEAN) /\ Len(Tail(s)) = Len(s) - 1 /\ Len(s) \in Nat
      /\ \A i \in 1 .. Len(s) - 1 : Tail(s)[i] = s[i + 1]
      /\ DOMAIN Tail(s) = 1 .. Len(s) - 1 /\ DOMAIN s = 1 .. Len(s)
  OBVIOUS
<1>2. IsFiniteSet(1 .. Len(s) - 1) /\ S \subseteq 1 .. Len(s) - 1
  BY <1>1, FS_Interval
<1>3. IsFiniteSet(S)
  BY <1>2, FS_Subset
<1>4. \A i \in S : i + 1 \in U
  BY <1>1
<1>5. \A j \in U : j - 1 \in S /\ j = (j - 1) + 1
  BY <1>1
<1>6. f \in [S -> U]
  BY <1>4
<1>7. \A i, j \in S : f[i] = f[j] => i = j
  BY <1>1
<1>8. \A j \in U : \E i \in S : f[i] = j
  BY <1>5
<1>9. f \in Bijection(S, U)
  BY <1>6, <1>7, <1>8 DEF Bijection, Injection, Surjection, IsInjective
<1>14. TrueCount(s) = Cardinality(T) /\ TrueCount(Tail(s)) = Cardinality(S)
  BY Zenon DEF TrueCount
<1>15. 1 \notin U
  OBVIOUS
<1>16. 1 \in DOMAIN s
  OBVIOUS
<1>17. s[1] => T = U \cup {1}
  BY <1>1, <1>16
<1>18. ~s[1] => T = U
  BY <1>1, <1>16
<1>19. ExistsBijection(S, U)
  BY <1>9 DEF ExistsBijection
<1> HIDE DEF S, T, U, f
<1>10. IsFiniteSet(U) /\ Cardinality(U) = Cardinality(S)
  BY <1>3, <1>19, FS_Bijection, Zenon
<1>11. Cardinality(S) \in Nat
  BY <1>3, FS_CardinalityType
<1>12. CASE s[1]
  <2>1. T = U \cup {1}
    BY <1>12, <1>17
  <2>2. Cardinality(U \cup {1}) = Cardinality(U) + 1
    BY <1>10, FS_AddElement, <1>15, Zenon
  <2>3. Cardinality(T) = Cardinality(U \cup {1})
    BY <2>1, Zenon
  <2> QED
    BY <1>10, <1>11, <1>12, <1>14, <2>2, <2>3
<1>13. CASE ~s[1]
  <2>1. T = U
    BY <1>13, <1>18
  <2>2. Cardinality(T) = Cardinality(U)
    BY <2>1, Zenon
  <2> QED
    BY <1>10, <1>13, <1>14, <2>2
<1> QED
  BY <1>12, <1>13

\* At power-up nothing is under way.
LEMMA InitReadInv == Init => ReadInv
<1> SUFFICES ASSUME Init PROVE ReadInv
  OBVIOUS
<1> USE DEF Init, RequestInit, SplitInit, RInit, ReadInit, vars
<1>1. RequestTypes
  <2>1. transPartPending = FALSE /\ addrTmp = 0 /\ reqLenRemaining = 0
        /\ req = [d \in Drivers |-> NoReq]
    OBVIOUS
  <2>2. addrTmp \in Int /\ reqLenRemaining \in Nat
    BY <2>1
  <2>3. req \in [Drivers -> Requests \cup {NoReq}]
    BY <2>1
  <2> QED
    BY <2>1, <2>2, <2>3 DEF RequestTypes
<1>2. ReadTypes
  <2>1. sizeRmFifo \in Seq(BOOLEAN)
    OBVIOUS
  <2>2. bursts \in Seq(BurstRecord)
    OBVIOUS
  <2>3. orderInfoFifo \in Seq(Drivers)
    OBVIOUS
  <2> QED
    BY <2>1, <2>2, <2>3 DEF ReadTypes
<1>3. ReadFifosInStep
  <2>1. {i \in DOMAIN sizeRmFifo : sizeRmFifo[i]} = {}
    OBVIOUS
  <2>2. Cardinality({i \in DOMAIN sizeRmFifo : sizeRmFifo[i]}) = 0
    BY <2>1, FS_EmptySet, Zenon
  <2> QED
    BY <2>2 DEF ReadFifosInStep
<1> QED
  BY <1>1, <1>2, <1>3 DEF ReadInv

\* A burst is sent: its information goes to the fifos with it.
LEMMA DispatchInStep ==
    ASSUME ReadInv, direction = "read", NEW d \in Drivers, RDispatch(d)
    PROVE  ReadInv'
<1> DEFINE q == req[d]
           acknowledged == Acknowledges(d, sizeRmFifo, orderInfoFifo, errorRead)
<1>1. RequestTypes /\ ReadTypes /\ Selected(d)
  BY DEF ReadInv, RDispatch
<1>2. /\ SendPart(q) /\ req' = NextReq(d, acknowledged) /\ direction' = direction
      /\ orderInfoFifo' = NextOrderFifo(d, acknowledged, orderInfoFifo)
      /\ bursts' = Append(bursts, Burst(q))
      /\ sizeRmFifo' = Append(sizeRmFifo, PropagateLast(q))
      /\ errorRead' = errorRead
      /\ "axiA" \in AddrTransfers(q, HasRoom(orderInfoFifo), sizeRmFifo, errorRead)
  BY DEF RDispatch, SendReadBurst
<1>3. RequestTypes' /\ Burst(q) \in BurstRecord
  BY <1>1, <1>2, SendTypes
<1>4. HasRoom(orderInfoFifo) \in BOOLEAN /\ Splits(q) \in BOOLEAN /\ errorRead \in BOOLEAN
  BY <1>1 DEF HasRoom, Splits, ReadTypes
<1>5. acknowledged <=> ~Splits(q)
  BY <1>2, <1>4, AddrTransfersAre DEF Acknowledges
<1>6. PropagateLast(q) = ~Splits(q) /\ transPartPending' = Splits(q)
  BY <1>2 DEF PropagateLast, SendPart
<1>7. ReadTypes'
  BY <1>1, <1>2, <1>3, <1>4, <1>6 DEF ReadTypes, NextOrderFifo
<1>8. ASSUME ~errorRead
      PROVE  ReadFifosInStep'
  <2>1. /\ Len(sizeRmFifo) = Len(bursts)
        /\ TrueCount(sizeRmFifo) = Len(orderInfoFifo)
    BY <1>8 DEF ReadInv, ReadFifosInStep, TrueCount
  <2>2. Len(sizeRmFifo)' = Len(bursts)'
    BY <1>1, <1>2, <1>3, <1>4, <1>6, <2>1 DEF ReadTypes
  <2>3. TrueCount(sizeRmFifo') = TrueCount(sizeRmFifo) + (IF ~Splits(q) THEN 1 ELSE 0)
    BY <1>1, <1>2, <1>4, <1>6, CountAppend DEF ReadTypes
  <2>4. TrueCount(sizeRmFifo') = Len(orderInfoFifo')
    <3>1. CASE Splits(q)
      BY <1>1, <1>2, <1>5, <2>1, <2>3, <3>1 DEF ReadTypes, NextOrderFifo
    <3>2. CASE ~Splits(q)
      BY <1>1, <1>2, <1>5, <2>1, <2>3, <3>2 DEF ReadTypes, NextOrderFifo
    <3> QED
      BY <3>1, <3>2
  <2>5. sizeRmFifo' # <<>> /\ (Last(sizeRmFifo') = ~Splits(q))
    BY <1>1, <1>2, <1>4, <1>6 DEF ReadTypes, Last
  <2> QED
    BY <1>6, <2>2, <2>4, <2>5 DEF ReadFifosInStep, TrueCount
<1>9. errorRead => ReadFifosInStep'
  BY <1>2 DEF ReadFifosInStep
<1> QED
  BY <1>3, <1>7, <1>8, <1>9 DEF ReadInv

\* A burst of which the packet goes on cannot be the only one when a word is delivered.
LEMMA BeatInStep ==
    ASSUME ReadInv, direction = "read", NEW bad \in BOOLEAN, Beat(bad)
    PROVE  ReadInv'
<1> DEFINE ready == orderInfoFifo # <<>>
           outs == DataTransfers(ready)
<1>1. RequestTypes /\ ReadTypes
  BY DEF ReadInv
<1>2. /\ "r" \in outs
      /\ bursts' = IF RLast THEN Tail(bursts)
                   ELSE [bursts EXCEPT ![1] = [addr |-> @.addr + 1, len |-> @.len - 1]]
      /\ sizeRmFifo' = IF "rmSize" \in outs THEN Tail(sizeRmFifo) ELSE sizeRmFifo
      /\ errorRead' = (errorRead \/ bad)
      /\ orderInfoFifo' = IF "rOut" \in outs /\ OutLast THEN Tail(orderInfoFifo)
                          ELSE orderInfoFifo
      /\ UNCHANGED requestVars
  BY DEF Beat, DataHandler
<1>3. /\ bursts # <<>> /\ sizeRmFifo # <<>> /\ orderInfoFifo # <<>>
      /\ "rmSize" \in outs <=> RLast
      /\ "rOut" \in outs <=> ~errorRead
  BY <1>1, <1>2, DataTransfersAre DEF ReadTypes
<1>4. RequestTypes'
  BY <1>1, <1>2 DEF RequestTypes, requestVars, splitVars
<1>5. /\ sizeRmFifo' = IF RLast THEN Tail(sizeRmFifo) ELSE sizeRmFifo
      /\ orderInfoFifo' = IF ~errorRead /\ OutLast THEN Tail(orderInfoFifo) ELSE orderInfoFifo
  BY <1>2, <1>3
<1>6. Head(bursts) = bursts[1] /\ bursts[1] \in BurstRecord /\ 1 \in DOMAIN bursts
  BY <1>1, <1>3 DEF ReadTypes
<1>7. bursts' \in Seq(BurstRecord)
      /\ Len(bursts') = IF RLast THEN Len(bursts) - 1 ELSE Len(bursts)
  <2>1. CASE RLast
    BY <1>1, <1>2, <1>3, <2>1 DEF ReadTypes
  <2>2. CASE ~RLast
    <3>1. [addr |-> bursts[1].addr + 1, len |-> bursts[1].len - 1] \in BurstRecord
      BY <1>6, <2>2 DEF RLast, BurstRecord
    <3>2. bursts' = [bursts EXCEPT ![1] = [addr |-> bursts[1].addr + 1,
                                           len |-> bursts[1].len - 1]]
      BY <1>2, <2>2
    <3> QED
      BY <1>1, <1>6, <2>2, <3>1, <3>2, ExceptSeq DEF ReadTypes
  <2> QED
    BY <2>1, <2>2
<1>8. ReadTypes'
  <2>1. sizeRmFifo' \in Seq(BOOLEAN)
    BY <1>1, <1>3, <1>5, HeadTailProperties, Zenon DEF ReadTypes
  <2>2. orderInfoFifo' \in Seq(Drivers)
    BY <1>1, <1>3, <1>5 DEF ReadTypes
  <2> QED
    BY <1>1, <1>2, <1>7, <2>1, <2>2 DEF ReadTypes
<1>9. ASSUME ~errorRead'
      PROVE  ReadFifosInStep'
  <2>1. ~errorRead
    BY <1>2, <1>9
  <2>2. /\ Len(sizeRmFifo) = Len(bursts)
        /\ TrueCount(sizeRmFifo) = Len(orderInfoFifo)
        /\ transPartPending <=> sizeRmFifo # <<>> /\ ~Last(sizeRmFifo)
    BY <2>1 DEF ReadInv, ReadFifosInStep, TrueCount
  <2>3. Len(sizeRmFifo') = Len(bursts')
    BY <1>1, <1>3, <1>5, <1>7, <2>2 DEF ReadTypes
  <2>4. /\ Head(sizeRmFifo) = sizeRmFifo[1]
        /\ sizeRmFifo[1] => TrueCount(sizeRmFifo) = TrueCount(Tail(sizeRmFifo)) + 1
        /\ ~sizeRmFifo[1] => TrueCount(sizeRmFifo) = TrueCount(Tail(sizeRmFifo))
    BY <1>1, <1>3, CountTail DEF ReadTypes
  <2>5. OutLast <=> sizeRmFifo[1] /\ RLast
    BY <2>4 DEF OutLast
  <2>6. /\ Tail(sizeRmFifo) \in Seq(BOOLEAN)
        /\ Len(Tail(sizeRmFifo)) = Len(sizeRmFifo) - 1
    BY <1>1, <1>3 DEF ReadTypes
  <2>13. /\ sizeRmFifo # <<>> => Len(sizeRmFifo) \in Nat \ {0}
         /\ Tail(sizeRmFifo) # <<>> => Len(Tail(sizeRmFifo)) \in Nat \ {0}
         /\ Len(<<>>) = 0
    BY <1>1, <2>6, EmptySeq, Zenon DEF ReadTypes
  <2>10. TrueCount(Tail(sizeRmFifo)) \in Nat
    BY <2>6, CountAppend
  <2>11. Len(orderInfoFifo) \in Nat /\ Len(Tail(orderInfoFifo)) = Len(orderInfoFifo) - 1
    BY <1>1, <1>3 DEF ReadTypes
  <2>12. Len(orderInfoFifo) # 0
    BY <1>1, <1>3, EmptySeq DEF ReadTypes
  <2>7. TrueCount(sizeRmFifo') = Len(orderInfoFifo')
    <3>1. CASE ~RLast
      BY <1>5, <2>2, <2>5, <3>1
    <3>2. CASE RLast /\ sizeRmFifo[1]
      BY <1>5, <2>1, <2>2, <2>4, <2>5, <2>10, <2>11, <3>2
    <3>3. CASE RLast /\ ~sizeRmFifo[1]
      BY <1>5, <2>2, <2>4, <2>5, <3>3
    <3> QED
      BY <3>1, <3>2, <3>3
  <2>8. RLast /\ Len(sizeRmFifo) = 1 => sizeRmFifo[1]
    <3> SUFFICES ASSUME Len(sizeRmFifo) = 1, ~sizeRmFifo[1]
                 PROVE  FALSE
      OBVIOUS
    <3>1. Tail(sizeRmFifo) = <<>>
      BY <2>6, <2>13
    <3>2. {i \in DOMAIN Tail(sizeRmFifo) : Tail(sizeRmFifo)[i]} = {}
      BY <3>1
    <3>3. TrueCount(Tail(sizeRmFifo)) = 0
      BY <3>2, FS_EmptySet, Zenon DEF TrueCount
    <3> QED
      BY <2>2, <2>4, <2>12, <3>3
  <2>9. transPartPending' <=> sizeRmFifo' # <<>> /\ ~Last(sizeRmFifo')
    <3>1. transPartPending' = transPartPending
      BY <1>2 DEF requestVars, splitVars
    <3>2. CASE ~RLast
      BY <1>5, <2>2, <3>1, <3>2
    <3>3. CASE RLast /\ Len(sizeRmFifo) = 1
      BY <1>1, <1>5, <2>2, <2>8, <3>1, <3>3 DEF ReadTypes, Last
    <3>4. CASE RLast /\ Len(sizeRmFifo) # 1
      <4>1. Len(sizeRmFifo) \in Nat /\ Len(sizeRmFifo) > 1
        <5>1. Len(sizeRmFifo) \in Nat /\ Len(sizeRmFifo) # 0
          BY <1>3, <2>13
        <5>3. \A n \in Nat : n # 0 /\ n # 1 => n > 1
          OBVIOUS
        <5>2. Len(sizeRmFifo) # 1
          BY <3>4, Zenon
        <5> QED
          BY <5>1, <5>2, <5>3
      <4>2. Tail(sizeRmFifo) # <<>>
        <5>1. Len(Tail(sizeRmFifo)) # 0
          BY <2>6, <4>1
        <5> QED
          BY <2>13, <5>1, Zenon
      <4>3. Tail(sizeRmFifo)[Len(sizeRmFifo) - 1] = sizeRmFifo[Len(sizeRmFifo)]
        BY <1>1, <1>3, <4>1 DEF ReadTypes
      <4>4. Last(Tail(sizeRmFifo)) = Last(sizeRmFifo)
        BY <2>6, <4>3 DEF Last
      <4> QED
        BY <1>3, <1>5, <2>2, <3>1, <3>4, <4>2, <4>4
    <3> QED
      BY <3>2, <3>3, <3>4
  <2> QED
    BY <2>3, <2>7, <2>9 DEF ReadFifosInStep, TrueCount
<1> QED
  BY <1>4, <1>8, <1>9 DEF ReadInv, ReadFifosInStep

\* The steps of the other interconnect.
LEMMA WriteKeepsReadInv ==
    ASSUME ReadInv, WNext, UNCHANGED rVars
    PROVE  ReadInv'
<1>1. RequestTypes'
  <2> USE DEF ReadInv
  <2>1. ASSUME NEW d \in Drivers, WOffer(d)
        PROVE  RequestTypes'
    BY <2>1, OfferTypes DEF WOffer
  <2>2. ASSUME NEW d \in Drivers, WDispatch(d)
        PROVE  RequestTypes'
    BY <2>2, SendTypes DEF WDispatch, SendWriteBurst
  <2>3. UNCHANGED requestVars => RequestTypes'
    BY DEF RequestTypes, requestVars, splitVars
  <2> QED
    BY <2>1, <2>2, <2>3 DEF WNext, Word, Response, BadWriteAnswer
<1>2. ReadTypes'
  BY DEF ReadInv, ReadTypes, rVars, readVars
<1>3. direction' = "write"
  <2>1. ASSUME NEW d \in Drivers, WOffer(d) \/ WDispatch(d)
        PROVE  direction' = direction
    BY <2>1 DEF WOffer, Offer, WDispatch
  <2> QED
    BY <2>1 DEF WNext, Word, Response, BadWriteAnswer, requestVars
<1> QED
  BY <1>1, <1>2, <1>3 DEF ReadInv, ReadFifosInStep

\* Every step of the composition keeps the read side in step.
LEMMA NextReadInv == ReadInv /\ [Next]_vars => ReadInv'
<1> SUFFICES ASSUME ReadInv, [Next]_vars PROVE ReadInv'
  OBVIOUS
<1>1. ASSUME NEW d \in Drivers, ROffer(d)
      PROVE  ReadInv'
  <2>1. RequestTypes'
    BY <1>1, OfferTypes DEF ROffer, ReadInv
  <2>2. UNCHANGED <<sizeRmFifo, errorRead, bursts, orderInfoFifo, transPartPending, direction>>
    BY <1>1 DEF ROffer, Offer, readVars, splitVars
  <2> QED
    BY <2>1, <2>2 DEF ReadInv, ReadTypes, ReadFifosInStep
<1>2. ASSUME BadAnswer
      PROVE  ReadInv'
  BY <1>2 DEF BadAnswer, SeeError, ReadInv, ReadTypes, ReadFifosInStep, RequestTypes,
              requestVars, splitVars
<1>3. CASE RNext
  BY <1>1, <1>2, <1>3, DispatchInStep, BeatInStep DEF RNext
<1>4. CASE UNCHANGED vars
  BY <1>4 DEF vars, rVars, readVars, requestVars, splitVars, ReadInv, ReadTypes,
              ReadFifosInStep, RequestTypes
<1> QED
  BY <1>3, <1>4, WriteKeepsReadInv DEF Next

\* The information the read datapump and its interconnect keep of the bursts under way is
\* that of these bursts, also when drivers compete: the size fifo, which is filled with the
\* address and emptied with the last word of a burst, the order fifo, which is filled with
\* the last burst of a request and emptied with the last word of its packet, and the splitting
\* register agree (Axi_rDatapump, RStrictOrderInterconnect).
THEOREM ReadsStayInStep == FairSpec => []ReadFifosInStep
<1>1. ReadInv => ReadFifosInStep
  BY DEF ReadInv
<1> QED
  BY <1>1, InitReadInv, NextReadInv, PTL DEF FairSpec

---------------------------------------------------------------------------
(* Writes: what a step does *)

\* What a part of a request changes when it is sent.
LEMMA WDispatchDoes ==
    ASSUME RequestTypes, WriteTypes, NEW d \in Drivers, WDispatch(d)
    PROVE  LET q == req[d]
           IN  /\ ~wErrFlag /\ Selected(d) /\ SendPart(q)
               /\ req' = IF Splits(q) THEN req ELSE [req EXCEPT ![d] = NoReq]
               /\ writeBursts' = Append(writeBursts, Burst(q))
               /\ writeInfoFifo' = Append(writeInfoFifo, "burst")
               /\ orderInfoFifoW' = IF Splits(q) THEN orderInfoFifoW
                                    ELSE Append(orderInfoFifoW, d)
               /\ sending' = IF Splits(q) THEN sending
                             ELSE [sending EXCEPT ![d] = Append(@, q)]
               /\ UNCHANGED <<bInfoFifo, wWordCntr, wErrFlag, answers, orderInfoFifoAck,
                              direction>>
               /\ written' = <<>> /\ acked' = <<>>
<1> DEFINE q == req[d]
           acknowledged == Acknowledges(d, writeInfoFifo, orderInfoFifoW, wErrFlag)
<1>1. /\ "axiA" \in AddrTransfers(q, HasRoom(orderInfoFifoW), writeInfoFifo, wErrFlag)
      /\ req' = NextReq(d, acknowledged)
      /\ orderInfoFifoW' = NextOrderFifo(d, acknowledged, orderInfoFifoW)
      /\ sending' = IF acknowledged THEN [sending EXCEPT ![d] = Append(@, req[d])]
                    ELSE sending
  BY DEF WDispatch, SendWriteBurst
<1>2. HasRoom(orderInfoFifoW) \in BOOLEAN /\ wErrFlag \in BOOLEAN
  BY DEF HasRoom, WriteTypes
<1>3. ~wErrFlag /\ (acknowledged <=> ~Splits(q))
  BY <1>1, <1>2, AddrTransfersAre DEF Acknowledges
<1>4. /\ req' = IF Splits(q) THEN req ELSE [req EXCEPT ![d] = NoReq]
      /\ orderInfoFifoW' = IF Splits(q) THEN orderInfoFifoW ELSE Append(orderInfoFifoW, d)
      /\ sending' = IF Splits(q) THEN sending ELSE [sending EXCEPT ![d] = Append(@, q)]
  BY <1>1, <1>3 DEF NextReq, NextOrderFifo
<1> QED
  BY <1>3, <1>4 DEF WDispatch, SendWriteBurst

\* A word of driver d; after an error the memory does not get it.
LEMMA WordDoes ==
    ASSUME WriteTypes, NEW d \in Drivers, Word(d)
    PROVE  LET q == Head(sending[d])
               last == q.len = 0
           IN  /\ orderInfoFifoW # <<>> /\ d = Head(orderInfoFifoW)
               /\ writeBursts # <<>> /\ writeInfoFifo # <<>>
               /\ writeInfoFifo' = IF DoSplit(last) THEN Tail(writeInfoFifo) ELSE writeInfoFifo
               /\ bInfoFifo' = IF DoSplit(last) THEN Append(bInfoFifo, last) ELSE bInfoFifo
               /\ wWordCntr' = NextWWordCntr(last)
               /\ wErrFlag => UNCHANGED <<writeBursts, answers>> /\ written' = <<>>
               /\ ~wErrFlag => written' = <<[driver |-> d, addr |-> Head(writeBursts).addr]>>
               /\ ~wErrFlag /\ DoSplit(last) =>
                     /\ writeBursts' = Tail(writeBursts)
                     /\ answers' = Append(answers, [driver |-> d, last |-> last])
               /\ ~wErrFlag /\ ~DoSplit(last) =>
                     /\ writeBursts' = [writeBursts EXCEPT ![1] = [addr |-> @.addr + 1,
                                                                   len |-> @.len - 1]]
                     /\ answers' = answers
               /\ sending' = [sending EXCEPT ![d] =
                                IF last THEN Tail(@)
                                ELSE <<[addr |-> q.addr + 1, len |-> q.len - 1]>> \o Tail(@)]
               /\ orderInfoFifoW' = IF last THEN Tail(orderInfoFifoW) ELSE orderInfoFifoW
               /\ orderInfoFifoAck' = IF last THEN Append(orderInfoFifoAck, d)
                                      ELSE orderInfoFifoAck
               /\ acked' = <<>>
               /\ UNCHANGED <<wErrFlag, requestVars>>
<1> DEFINE q == Head(sending[d])
           last == q.len = 0
           outs == WTransfers(last)
<1>1. AxiWHandler(d, last)
  BY DEF Word
<1>2. /\ "wIn" \in outs /\ last \in BOOLEAN /\ wErrFlag \in BOOLEAN
  BY <1>1 DEF AxiWHandler, WriteTypes
<1>3. /\ writeInfoFifo # <<>> /\ writeBursts # <<>>
      /\ "wInfo" \in outs <=> DoSplit(last)
      /\ "bInfo" \in outs <=> DoSplit(last)
      /\ "w" \in outs <=> ~wErrFlag
  BY <1>2, WTransfersAre
<1>4. /\ writeInfoFifo' = IF DoSplit(last) THEN Tail(writeInfoFifo) ELSE writeInfoFifo
      /\ bInfoFifo' = IF DoSplit(last) THEN Append(bInfoFifo, last) ELSE bInfoFifo
      /\ wWordCntr' = NextWWordCntr(last)
      /\ UNCHANGED wErrFlag
  BY <1>1, <1>3 DEF AxiWHandler, BIsLast
<1>5. IF "w" \notin outs THEN UNCHANGED <<writeBursts, answers>>
      ELSE IF DoSplit(last)
      THEN /\ writeBursts' = Tail(writeBursts)
           /\ answers' = Append(answers, [driver |-> d, last |-> last])
      ELSE /\ writeBursts' = [writeBursts EXCEPT
                                ![1] = [addr |-> @.addr + 1, len |-> @.len - 1]]
           /\ UNCHANGED answers
  BY <1>1 DEF AxiWHandler
<1>6. /\ sending' = [sending EXCEPT ![d] =
                       IF last THEN Tail(@)
                       ELSE <<[addr |-> q.addr + 1, len |-> q.len - 1]>> \o Tail(@)]
      /\ orderInfoFifoW' = IF last THEN Tail(orderInfoFifoW) ELSE orderInfoFifoW
      /\ orderInfoFifoAck' = IF last THEN Append(orderInfoFifoAck, d) ELSE orderInfoFifoAck
      /\ written' = IF "w" \in outs
                    THEN <<[driver |-> d, addr |-> Head(writeBursts).addr]>> ELSE <<>>
      /\ acked' = <<>> /\ UNCHANGED requestVars
      /\ orderInfoFifoW # <<>> /\ d = Head(orderInfoFifoW)
  BY DEF Word
<1> HIDE DEF q, last, outs
<1>7. /\ wErrFlag => UNCHANGED <<writeBursts, answers>> /\ written' = <<>>
      /\ ~wErrFlag => written' = <<[driver |-> d, addr |-> Head(writeBursts).addr]>>
  BY <1>3, <1>5, <1>6
<1>8. ~wErrFlag /\ DoSplit(last) =>
          /\ writeBursts' = Tail(writeBursts)
          /\ answers' = Append(answers, [driver |-> d, last |-> last])
  BY <1>3, <1>5
<1>9. ~wErrFlag /\ ~DoSplit(last) =>
          /\ writeBursts' = [writeBursts EXCEPT ![1] = [addr |-> @.addr + 1,
                                                        len |-> @.len - 1]]
          /\ answers' = answers
  BY <1>3, <1>5
<1> USE DEF q, last
<1> QED
  BY <1>3, <1>4, <1>6, <1>7, <1>8, <1>9, Zenon

\* What an answer of the memory changes.
LEMMA ResponseDoes ==
    ASSUME WriteTypes, NEW bad \in BOOLEAN, Response(bad)
    PROVE  /\ answers # <<>> /\ bInfoFifo # <<>> /\ orderInfoFifoAck # <<>>
           /\ answers' = Tail(answers)
           /\ bInfoFifo' = Tail(bInfoFifo)
           /\ orderInfoFifoAck' = IF Head(bInfoFifo) THEN Tail(orderInfoFifoAck)
                                  ELSE orderInfoFifoAck
           /\ acked' = IF Head(bInfoFifo) THEN <<Head(orderInfoFifoAck)>> ELSE <<>>
           /\ written' = <<>>
           /\ wErrFlag' = (wErrFlag \/ bad)
           /\ UNCHANGED <<requestVars, writeInfoFifo, wWordCntr, writeBursts, orderInfoFifoW,
                          sending>>
<1> DEFINE ready == orderInfoFifoAck # <<>>
           outs == BTransfers(ready)
<1>1. /\ "b" \in outs
      /\ answers' = Tail(answers)
      /\ bInfoFifo' = IF "lastFlags" \in outs THEN Tail(bInfoFifo) ELSE bInfoFifo
      /\ wErrFlag' = (wErrFlag \/ bad)
      /\ UNCHANGED <<writeInfoFifo, wWordCntr, writeBursts>>
      /\ acked' = IF "ack" \in outs THEN <<Head(orderInfoFifoAck)>> ELSE <<>>
      /\ orderInfoFifoAck' = IF "ack" \in outs THEN Tail(orderInfoFifoAck)
                             ELSE orderInfoFifoAck
      /\ written' = <<>>
      /\ UNCHANGED <<requestVars, orderInfoFifoW, sending>>
  BY DEF Response, AxiBHandler
<1>2. ready \in BOOLEAN /\ bInfoFifo \in Seq(BOOLEAN)
  BY DEF WriteTypes
<1>3. /\ answers # <<>> /\ bInfoFifo # <<>> /\ ready
      /\ "lastFlags" \in outs
      /\ "ack" \in outs <=> Head(bInfoFifo)
  BY <1>1, <1>2, BTransfersAre
<1> QED
  BY <1>1, <1>3

---------------------------------------------------------------------------
(* One request is split at a time *)

\* At power-up no request is split.
LEMMA InitOneIsSplit == Init => OneIsSplit
  BY DEF Init, RequestInit, SplitInit, OneIsSplit, Long

\* Nobody starts a request while a long one waits, and no long one starts beside others.
LEMMA OfferKeepsOne ==
    ASSUME ~COMPETING, RequestTypes, OneIsSplit, NEW d \in Drivers, Offer(d)
    PROVE  OneIsSplit'
<1>1. PICK q \in Requests :
          /\ \A e \in Drivers : req[e] # NoReq => ~Long(q) /\ ~Long(req[e])
          /\ req' = [req EXCEPT ![d] = q]
  BY DEF Offer
<1>2. req[d] = NoReq /\ transPartPending' = transPartPending
  BY DEF Offer, splitVars
<1>3. \A e \in Drivers : req'[e] = IF e = d THEN q ELSE req[e]
  BY <1>1 DEF RequestTypes
<1>4. \A a, b \in Drivers : a # b /\ Long(req'[a]) => req'[b] = NoReq
  BY <1>1, <1>3 DEF OneIsSplit, Long
<1>5. transPartPending' => \E e \in Drivers : Long(req'[e])
  BY <1>2, <1>3 DEF OneIsSplit, Long
<1> QED
  BY <1>4, <1>5 DEF OneIsSplit, Long

\* The arbiter cannot choose another request while one is split.
LEMMA SplitIsSelected ==
    ASSUME RequestTypes, OneIsSplit, transPartPending, NEW d \in Drivers, Selected(d)
    PROVE  Long(req[d]) /\ SplitRequest = req[d]
<1>1. req[d] # NoReq
  BY Selecting DEF Asking
<1>2. PICK e \in Drivers : Long(req[e])
  BY DEF OneIsSplit
<1>3. e = d /\ \A a \in Drivers : Long(req[a]) => a = d
  BY <1>1, <1>2 DEF OneIsSplit
<1>4. (CHOOSE a \in Drivers : Long(req[a])) = d
  BY <1>2, <1>3
<1> QED
  BY <1>2, <1>3, <1>4 DEF SplitRequest

\* A request that needs a further part stays where it is.
LEMMA SendKeepsOne ==
    ASSUME RequestTypes, OneIsSplit, NEW d \in Drivers, Selected(d), SendPart(req[d]),
           req' = IF Splits(req[d]) THEN req ELSE [req EXCEPT ![d] = NoReq]
    PROVE  /\ OneIsSplit'
           /\ Splits(req[d]) => SplitRequest' = req[d]
<1> DEFINE q == req[d]
<1>1. q \in Requests /\ q.len \in Nat /\ q # NoReq
  BY Selecting DEF Asking
<1>2. transPartPending' = Splits(q)
  BY DEF SendPart
<1>3. Splits(q) => Long(q)
  <2>1. CASE transPartPending
    BY <2>1, SplitIsSelected
  <2>2. CASE ~transPartPending
    BY <1>1, <2>2 DEF Splits, ReqLen, Long
  <2> QED
    BY <2>1, <2>2
<1>4. CASE Splits(q)
  <2>1. req' = req /\ Long(q)
    BY <1>3, <1>4
  <2>2. (CHOOSE a \in Drivers : Long(req[a])) = d
    BY <1>1, <2>1 DEF OneIsSplit
  <2>3. SplitRequest' = req[d]
    BY <2>1, <2>2 DEF SplitRequest, Long
  <2> QED
    BY <2>1, <2>3 DEF OneIsSplit, Long
<1>5. CASE ~Splits(q)
  <2>1. \A e \in Drivers : req'[e] = IF e = d THEN NoReq ELSE req[e]
    BY <1>5 DEF RequestTypes
  <2> QED
    BY <1>2, <1>5, <2>1 DEF OneIsSplit, Long
<1> QED
  BY <1>4, <1>5

---------------------------------------------------------------------------
(* Writes: how a request is cut to bursts *)

\* The tasks are the turns, and the request that is split.
LEMMA TasksAre ==
    ASSUME RequestTypes, WriteTypes
    PROVE  /\ Tasks \in Nat
           /\ ~transPartPending => Tasks = Len(orderInfoFifoW)
           /\ transPartPending => Tasks = Len(orderInfoFifoW) + 1
  BY DEF Tasks, RequestTypes, WriteTypes

\* A burst is appended for request q, which is the last of the tasks afterwards.
PartIsSent(q, task, task2) ==
    /\ q.addr \in Int /\ q.len \in Nat /\ Burst(q) \in BurstRecord
    /\ SendPart(q)
    /\ writeBursts' = Append(writeBursts, Burst(q))
    /\ wWordCntr' = wWordCntr
    /\ Tasks' = IF transPartPending THEN Tasks ELSE Tasks + 1
    /\ transPartPending => task[Tasks] = q
    /\ \A k \in 1 .. Tasks : task2[k] = task[k]
    /\ task2[Tasks'] = q

\* The burst of a part continues the cut.
LEMMA DispatchKeepsCut ==
    ASSUME RequestTypes, WriteTypes, NEW q, NEW task, NEW own, NEW task2,
           Cut(task, own), PartIsSent(q, task, task2)
    PROVE  \E own2 \in [DOMAIN writeBursts' -> 1 .. Tasks'] : Cut(task2, own2)'
<1> DEFINE b == Burst(q)
<1>21. /\ q.addr \in Int /\ q.len \in Nat /\ SendPart(q) /\ Burst(q) \in BurstRecord
       /\ writeBursts' = Append(writeBursts, Burst(q)) /\ wWordCntr' = wWordCntr
       /\ transPartPending => task[Tasks] = q
       /\ Tasks' = IF transPartPending THEN Tasks ELSE Tasks + 1
       /\ \A k \in 1 .. Tasks : task2[k] = task[k]
       /\ task2[Tasks'] = q
  BY DEF PartIsSent
<1> USE <1>21
<1>20. PICK m \in Nat : m = Len(writeBursts)
  BY DEF WriteTypes
<1>0. PICK own2 : own2 = [i \in 1 .. m + 1 |-> IF i <= m THEN own[i] ELSE Tasks']
  OBVIOUS
<1>1. /\ Tasks \in Nat /\ Tasks' \in Nat /\ Tasks' >= Tasks /\ Tasks' > 0 /\ m \in Nat
  BY TasksAre DEF WriteTypes
<1>2. /\ own \in [1 .. m -> 1 .. Tasks] /\ (Tasks > 0 <=> m > 0)
      /\ m = 0 => wWordCntr = 0
      /\ m > 0 => Begins(task, own) /\ Finishes(task, own)
      /\ \A i \in 1 .. m : Fits(task, own, i)
      /\ \A i \in 1 .. m - 1 : Follows(task, own, i)
  BY <1>20 DEF Cut, WriteTypes
<1>3. /\ Len(writeBursts)' = m + 1 /\ DOMAIN writeBursts' = 1 .. m + 1
      /\ \A i \in 1 .. m : writeBursts'[i] = writeBursts[i]
      /\ writeBursts'[m + 1] = b
  BY <1>20 DEF WriteTypes
<1>4. /\ \A i \in 1 .. m : own2[i] = own[i] /\ own[i] \in 1 .. Tasks
      /\ own2[m + 1] = Tasks'
  <2> HIDE <1>21
  <2> QED
    BY <1>0, <1>1, <1>2
<1>5. own2 \in [DOMAIN writeBursts' -> 1 .. Tasks']
  BY <1>0, <1>1, <1>2, <1>3
<1>6. /\ b.addr = IF transPartPending THEN addrTmp ELSE q.addr
      /\ b.len = IF Splits(q) THEN AXI_LEN_MAX ELSE ReqLen(q)
      /\ ReqLen(q) = IF transPartPending THEN reqLenRemaining ELSE q.len
      /\ Splits(q) <=> ReqLen(q) > AXI_LEN_MAX
      /\ ReqLen(q) \in Nat /\ b.addr \in Int /\ b.len \in Nat
  BY DEF Burst, ReqLen, Splits, RequestTypes, BurstRecord
<1>7. transPartPending => /\ m > 0 /\ own[m] = Tasks
                          /\ writeBursts[m].len + Sent(m) = AXI_LEN_MAX
                          /\ addrTmp = End(writeBursts[m]) + 1
                          /\ addrTmp + reqLenRemaining = End(q)
  <2>1. transPartPending => Tasks > 0
    BY TasksAre DEF WriteTypes
  <2> QED
    BY <1>2, <1>20, <2>1 DEF Finishes
<1>8. b.addr + ReqLen(q) = End(q) /\ End(q) \in Int
  BY <1>6, <1>7 DEF End
<1>9. End(b) <= End(q) /\ b.len <= AXI_LEN_MAX
  BY <1>6, <1>8, AxiLenAssumption DEF End
<1>10. Sent(m + 1)' = 0
  BY <1>1, <1>2 DEF Sent
<1>11. \A i \in 1 .. m : Sent(i)' = Sent(i)
  BY DEF Sent
<1>12. \A i \in 1 .. m : task2[own[i]] = task[own[i]]
  BY <1>4
<1>13. \A i \in 1 .. m + 1 : Fits(task2, own2, i)'
  <2>1. \A i \in 1 .. m : Fits(task2, own2, i)'
    BY <1>2, <1>3, <1>4, <1>11, <1>12 DEF Fits
  <2>2. Fits(task2, own2, m + 1)'
    BY <1>3, <1>4, <1>6, <1>9, <1>10 DEF Fits
  <2> QED
    BY <1>1, <2>1, <2>2
<1>14. \A i \in 1 .. m : Follows(task2, own2, i)'
  <2>1. ASSUME NEW i \in 1 .. m - 1
        PROVE  Follows(task2, own2, i)'
    <3>1. i \in 1 .. m /\ i + 1 \in 1 .. m
      BY <1>1
    <3>2. /\ own2[i] = own[i] /\ own2[i + 1] = own[i + 1]
          /\ writeBursts'[i] = writeBursts[i] /\ writeBursts'[i + 1] = writeBursts[i + 1]
          /\ task2[own[i]] = task[own[i]] /\ task2[own[i + 1]] = task[own[i + 1]]
          /\ Sent(i)' = Sent(i)
      BY <1>3, <1>4, <1>11, <1>12, <3>1
    <3>3. Follows(task, own, i)
      BY <1>2
    <3> QED
      BY <3>2, <3>3 DEF Follows
  <2>2. ASSUME m > 0
        PROVE  Follows(task2, own2, m)'
    <3>1. own2[m] = own[m] /\ writeBursts'[m] = writeBursts[m] /\ m \in 1 .. m
      BY <1>1, <1>3, <1>4, <2>2
    <3>2. CASE transPartPending
      BY <1>3, <1>4, <1>6, <1>7, <1>11, <3>1, <3>2 DEF Follows
    <3>3. CASE ~transPartPending
      <4>1. own[m] = Tasks /\ End(writeBursts[m]) = End(task[Tasks])
        BY <1>2, <1>20, <2>2, <3>3 DEF Finishes
      <4> QED
        BY <1>3, <1>4, <1>6, <1>12, <3>1, <3>3, <4>1 DEF Follows
    <3> QED
      BY <3>2, <3>3
  <2> QED
    BY <1>1, <2>1, <2>2
<1>15. Begins(task2, own2)'
  <2>1. CASE m = 0
    <3>1. Tasks = 0 /\ ~transPartPending
      BY <1>1, <1>2, <1>7, <2>1
    <3> QED
      BY <1>3, <1>4, <1>6, <2>1, <3>1 DEF Begins
  <2>2. CASE m > 0
    BY <1>1, <1>2, <1>3, <1>4, <1>12, <2>2 DEF Begins
  <2> QED
    BY <1>1, <2>1, <2>2
<1>16. Finishes(task2, own2)'
  <2>1. transPartPending' = Splits(q)
    BY DEF SendPart
  <2>2. Splits(q) => /\ reqLenRemaining' = ReqLen(q) - (AXI_LEN_MAX + 1)
                     /\ addrTmp' = b.addr + (AXI_LEN_MAX + 1)
    BY <1>6 DEF SendPart, NextReqLenRemaining, NextAddrTmp, ADDR_STEP
  <2>3. ~Splits(q) => End(b) = End(q)
    BY <1>6, <1>8 DEF End
  <2>4. ASSUME Splits(q)
        PROVE  /\ b.len + Sent(m + 1)' = AXI_LEN_MAX
               /\ addrTmp' = End(b) + 1
               /\ addrTmp' + reqLenRemaining' = End(q)
    <3>1. b.len = AXI_LEN_MAX /\ b.addr \in Int /\ ReqLen(q) \in Nat
      BY <1>6, <2>4
    <3>2. reqLenRemaining' = ReqLen(q) - (AXI_LEN_MAX + 1) /\ addrTmp' = b.addr + (AXI_LEN_MAX + 1)
      BY <2>2, <2>4
    <3>3. b.len + Sent(m + 1)' = AXI_LEN_MAX
      BY <1>10, <3>1, AxiLenAssumption
    <3>4. addrTmp' = End(b) + 1
      <4>1. End(b) = b.addr + AXI_LEN_MAX
        BY <3>1 DEF End
      <4> QED
        BY <3>1, <3>2, <4>1, AxiLenAssumption
    <3>5. addrTmp' + reqLenRemaining' = End(q)
      <4> HIDE <1>21
      <4> HIDE DEF b
      <4> QED
        BY <1>8, <3>1, <3>2, AxiLenAssumption
    <3> QED
      BY <3>3, <3>4, <3>5
  <2> QED
    BY <1>3, <1>4, <2>1, <2>3, <2>4 DEF Finishes
<1>18. \A i, j \in 1 .. m + 1 : i <= j => own2[i] <= own2[j]
  <2>1. \A i, j \in 1 .. m : i <= j => own[i] <= own[j]
    BY <1>20 DEF Cut
  <2>2. \A i \in 1 .. m : own[i] <= Tasks'
    BY <1>1, <1>4
  <2>3. \A i \in 1 .. m + 1 : i # m + 1 => i \in 1 .. m
    BY <1>1
  <2>4. \A i \in 1 .. m + 1 : m + 1 <= i => i = m + 1
    BY <1>1
  <2> QED
    BY <1>1, <1>4, <2>1, <2>2, <2>3, <2>4
<1>17. Cut(task2, own2)'
  BY <1>1, <1>3, <1>5, <1>18, <1>13, <1>14, <1>15, <1>16 DEF Cut
<1> QED
  BY <1>5, <1>17

\* The first burst and the request it belongs to.
LEMMA FirstBurst ==
    ASSUME RequestTypes, WriteTypes, NEW task \in [1 .. Tasks -> BurstRecord],
           NEW own, Cut(task, own), orderInfoFifoW # <<>>
    PROVE  /\ Len(writeBursts) > 0 /\ own[1] = 1 /\ Tasks > 0
           /\ task[1] \in BurstRecord /\ writeBursts[1] \in BurstRecord
           /\ writeBursts[1].addr = task[1].addr
           /\ writeBursts[1].len + wWordCntr <= AXI_LEN_MAX
           /\ writeBursts[1].len <= task[1].len
           /\ writeBursts[1].len = 0 <=> DoSplit(task[1].len = 0)
           \* it ends its request if that has but one word left
           /\ IF task[1].len = 0
              THEN Len(writeBursts) > 1 => own[2] = 2 /\ writeBursts[2].addr = task[2].addr
              ELSE writeBursts[1].len = 0 =>
                      /\ Len(writeBursts) > 1 /\ own[2] = 1
                      /\ writeBursts[2].addr = task[1].addr + 1
<1> DEFINE b == writeBursts[1]
           q == task[1]
           m == Len(writeBursts)
<1>1. m \in Nat /\ Tasks \in Nat /\ Tasks >= Len(orderInfoFifoW) /\ Len(orderInfoFifoW) > 0
  BY TasksAre DEF WriteTypes, RequestTypes
<1>2. m > 0 /\ Begins(task, own) /\ Finishes(task, own)
  BY <1>1 DEF Cut
<1>3. Fits(task, own, 1) /\ own[1] = 1 /\ b.addr = q.addr
  BY <1>1, <1>2 DEF Cut, Begins
<1>4. b \in BurstRecord /\ q \in BurstRecord
  BY <1>1, <1>2 DEF WriteTypes
<1>5. b.addr \in Int /\ b.len \in Nat /\ q.addr \in Int /\ q.len \in Nat
  BY <1>4 DEF BurstRecord
<1>6. b.len + wWordCntr <= AXI_LEN_MAX /\ b.len <= q.len
  BY <1>3, <1>5 DEF Fits, Sent, End
<1>7. wWordCntr \in Nat
  BY DEF WriteTypes
<1>8. CASE m = 1
  <2>1. own[1] = Tasks
    BY <1>2, <1>8 DEF Finishes
  <2>2. ~transPartPending
    BY <1>1, <1>3, <2>1, TasksAre
  <2>3. End(b) = End(q)
    BY <1>2, <1>3, <1>8, <2>1, <2>2 DEF Finishes
  <2>4. b.len = q.len
    BY <1>3, <1>5, <2>3 DEF End
  <2> QED
    BY <1>1, <1>2, <1>3, <1>4, <1>5, <1>6, <1>7, <1>8, <2>4, AxiLenAssumption DEF DoSplit
<1>9. CASE m > 1
  <2>1. Follows(task, own, 1) /\ 2 \in 1 .. m
    BY <1>1, <1>9 DEF Cut
  <2>2. CASE /\ own[2] = own[1]
             /\ b.len + Sent(1) = AXI_LEN_MAX
             /\ writeBursts[2].addr = End(b) + 1
    <3>1. Fits(task, own, 2) /\ writeBursts[2] \in BurstRecord
      BY <2>1 DEF Cut, WriteTypes
    <3>2. writeBursts[2].len \in Nat
      BY <3>1 DEF BurstRecord
    <3>3. b.len < q.len
      BY <1>3, <1>5, <2>2, <3>1, <3>2 DEF Fits, End
    <3> QED
      BY <1>1, <1>2, <1>3, <1>4, <1>5, <1>6, <1>7, <1>9, <2>2, <3>3, AxiLenAssumption
         DEF DoSplit, Sent, End
  <2>3. CASE /\ own[2] = own[1] + 1
             /\ End(b) = End(task[own[1]])
             /\ writeBursts[2].addr = task[own[2]].addr
    <3>1. b.len = q.len
      BY <1>3, <1>5, <2>3 DEF End
    <3> QED
      BY <1>1, <1>2, <1>3, <1>4, <1>5, <1>6, <1>7, <1>9, <2>3, <3>1, AxiLenAssumption
         DEF DoSplit
  <2> QED
    BY <2>1, <2>2, <2>3 DEF Follows
<1>10. m = 1 \/ m > 1
  <2> HIDE DEF m
  <2> QED
    BY <1>1, <1>2
<1> QED
  BY <1>8, <1>9, <1>10

\* Two numbers keep their distance when one is taken off both.
LEMMA OneLess ==
    ASSUME NEW x \in Nat, NEW y \in Nat
    PROVE  /\ y = x => y - 1 = x - 1
           /\ y = x + 1 => y - 1 = (x - 1) + 1
  OBVIOUS

\* A word less at the front of a range leaves its end.
LEMMA EndStays ==
    ASSUME NEW x \in Int, NEW y \in Int
    PROVE  x + y = (x + 1) + (y - 1) /\ (y - 1) + 1 = y
  OBVIOUS

\* A word is sent: the first burst and the first task lose it.
WordIsSent(task, task2) ==
    LET last == task[1].len = 0
    IN  /\ UNCHANGED splitVars
        /\ wWordCntr' = IF DoSplit(last) THEN 0 ELSE wWordCntr + 1
        /\ writeBursts' = IF DoSplit(last) THEN Tail(writeBursts)
                          ELSE [writeBursts EXCEPT ![1] = [addr |-> @.addr + 1,
                                                           len |-> @.len - 1]]
        /\ Tasks' = IF last THEN Tasks - 1 ELSE Tasks
        /\ last => \A k \in 1 .. Tasks - 1 : task2[k] = task[k + 1]
        /\ ~last => /\ task2[1] = [addr |-> task[1].addr + 1, len |-> task[1].len - 1]
                    /\ \A k \in 2 .. Tasks : task2[k] = task[k]

\* The word that is sent is the next one of both, the first burst and the first task.
LEMMA WordKeepsCut ==
    ASSUME RequestTypes, WriteTypes, NEW task \in [1 .. Tasks -> BurstRecord],
           NEW own, NEW task2, Cut(task, own), orderInfoFifoW # <<>>, WordIsSent(task, task2)
    PROVE  /\ \E own2 \in [DOMAIN writeBursts' -> 1 .. Tasks'] : Cut(task2, own2)'
           /\ writeBursts' \in Seq(BurstRecord) /\ wWordCntr' \in Nat
<1> DEFINE q == task[1]
           last == q.len = 0
           b == writeBursts[1]
<1>7. /\ UNCHANGED splitVars
      /\ wWordCntr' = IF DoSplit(last) THEN 0 ELSE wWordCntr + 1
      /\ writeBursts' = IF DoSplit(last) THEN Tail(writeBursts)
                        ELSE [writeBursts EXCEPT ![1] = [addr |-> @.addr + 1,
                                                         len |-> @.len - 1]]
      /\ Tasks' = IF last THEN Tasks - 1 ELSE Tasks
      /\ last => \A k \in 1 .. Tasks - 1 : task2[k] = task[k + 1]
      /\ ~last => /\ task2[1] = [addr |-> q.addr + 1, len |-> q.len - 1]
                  /\ \A k \in 2 .. Tasks : task2[k] = task[k]
  BY DEF WordIsSent
<1> USE <1>7
<1>0. PICK m \in Nat : m = Len(writeBursts)
  BY DEF WriteTypes
<1>1. /\ m > 0 /\ own[1] = 1 /\ Tasks > 0 /\ Tasks \in Nat
      /\ q.addr \in Int /\ q.len \in Nat /\ b.addr \in Int /\ b.len \in Nat
      /\ b.addr = q.addr
      /\ b.len + wWordCntr <= AXI_LEN_MAX /\ b.len <= q.len
      /\ b.len = 0 <=> DoSplit(last)
      /\ last => (m > 1 => own[2] = 2 /\ writeBursts[2].addr = task[2].addr)
      /\ ~last /\ b.len = 0 => m > 1 /\ own[2] = 1 /\ writeBursts[2].addr = q.addr + 1
  BY <1>0, FirstBurst, TasksAre DEF BurstRecord
<1>2. /\ own \in [1 .. m -> 1 .. Tasks]
      /\ \A i, j \in 1 .. m : i <= j => own[i] <= own[j]
      /\ Finishes(task, own)
      /\ \A i \in 1 .. m : Fits(task, own, i)
      /\ \A i \in 1 .. m - 1 : Follows(task, own, i)
  BY <1>0, <1>1 DEF Cut, WriteTypes
<1>3. /\ transPartPending' = transPartPending /\ addrTmp' = addrTmp
      /\ reqLenRemaining' = reqLenRemaining
  BY DEF splitVars
<1>4. \A i \in 1 .. m : writeBursts[i] \in BurstRecord
  BY <1>0 DEF WriteTypes
<1>5. CASE last
  <2>1. DoSplit(last) /\ wWordCntr' = 0 /\ Tasks' = Tasks - 1
    BY <1>5 DEF DoSplit
  <2>2. /\ writeBursts' = Tail(writeBursts) /\ writeBursts' \in Seq(BurstRecord)
        /\ Len(writeBursts') = m - 1 /\ DOMAIN writeBursts' = 1 .. m - 1
        /\ \A i \in 1 .. m - 1 : writeBursts'[i] = writeBursts[i + 1]
    BY <1>0, <1>1, <2>1 DEF WriteTypes
  <2>3. \A i \in 1 .. m : i # 1 => own[i] >= 2
    BY <1>1, <1>2, <1>5
  <2>4. PICK own2 : own2 = [i \in 1 .. m - 1 |-> own[i + 1] - 1]
    OBVIOUS
  <2>5. \A i \in 1 .. m - 1 : /\ i + 1 \in 1 .. m /\ own2[i] = own[i + 1] - 1
                              /\ own[i + 1] \in 2 .. Tasks
                              /\ task2[own2[i]] = task[own[i + 1]]
    <3> SUFFICES ASSUME NEW i \in 1 .. m - 1
                 PROVE  /\ i + 1 \in 1 .. m /\ own2[i] = own[i + 1] - 1
                        /\ own[i + 1] \in 2 .. Tasks
                        /\ task2[own2[i]] = task[own[i + 1]]
      OBVIOUS
    <3>1. i + 1 \in 1 .. m /\ i + 1 # 1 /\ own2[i] = own[i + 1] - 1
      BY <2>4
    <3>2. own[i + 1] \in 2 .. Tasks
      BY <1>2, <2>3, <3>1
    <3>3. own2[i] \in 1 .. Tasks - 1 /\ own2[i] + 1 = own[i + 1]
      <4>1. Tasks \in Nat
        BY <1>1
      <4> HIDE <1>7
      <4> QED
        BY <3>1, <3>2, <4>1
    <3>4. task2[own2[i]] = task[own2[i] + 1]
      BY <1>5, <3>3
    <3> QED
      BY <3>1, <3>2, <3>3, <3>4, Zenon
  <2>6. own2 \in [DOMAIN writeBursts' -> 1 .. Tasks']
    BY <1>1, <2>1, <2>2, <2>4, <2>5
  <2>7. \A i \in 1 .. m - 1 : Sent(i)' = 0 /\ Sent(i + 1) = 0
    BY <2>1 DEF Sent
  <2>8. \A i \in 1 .. m - 1 : Fits(task2, own2, i)'
    <3> SUFFICES ASSUME NEW i \in 1 .. m - 1
                 PROVE  Fits(task2, own2, i)'
      OBVIOUS
    <3>1. Fits(task, own, i + 1)
      BY <1>2, <2>5
    <3> QED
      BY <2>2, <2>5, <2>7, <3>1 DEF Fits
  <2>9. \A i \in 1 .. m - 2 : Follows(task2, own2, i)'
    <3> SUFFICES ASSUME NEW i \in 1 .. m - 2
                 PROVE  Follows(task2, own2, i)'
      OBVIOUS
    <3>1. i \in 1 .. m - 1 /\ i + 1 \in 1 .. m - 1
      BY <1>0
    <3>2. Follows(task, own, i + 1)
      BY <1>2, <3>1
    <3>3. /\ own2[i] = own[i + 1] - 1 /\ own2[i + 1] = own[(i + 1) + 1] - 1
          /\ own[i + 1] \in Nat /\ own[(i + 1) + 1] \in Nat
          /\ task2[own2[i]] = task[own[i + 1]]
          /\ task2[own2[i + 1]] = task[own[(i + 1) + 1]]
          /\ writeBursts'[i] = writeBursts[i + 1]
          /\ writeBursts'[i + 1] = writeBursts[(i + 1) + 1]
          /\ Sent(i)' = Sent(i + 1)
      <4>1. /\ own2[i] = own[i + 1] - 1 /\ own2[i + 1] = own[(i + 1) + 1] - 1
            /\ own[i + 1] \in 2 .. Tasks /\ own[(i + 1) + 1] \in 2 .. Tasks
            /\ task2[own2[i]] = task[own[i + 1]]
            /\ task2[own2[i + 1]] = task[own[(i + 1) + 1]]
        BY <2>5, <3>1
      <4>2. /\ writeBursts'[i] = writeBursts[i + 1]
            /\ writeBursts'[i + 1] = writeBursts[(i + 1) + 1]
            /\ Sent(i)' = Sent(i + 1)
        BY <2>2, <2>7, <3>1
      <4>3. 2 .. Tasks \subseteq Nat
        OBVIOUS
      <4> QED
        BY <4>1, <4>2, <4>3
    <3>4. /\ own[(i + 1) + 1] = own[i + 1] => own2[i + 1] = own2[i]
          /\ own[(i + 1) + 1] = own[i + 1] + 1 => own2[i + 1] = own2[i] + 1
      BY <3>3, OneLess, Zenon
    <3>5. CASE /\ own[(i + 1) + 1] = own[i + 1]
               /\ writeBursts[i + 1].len + Sent(i + 1) = AXI_LEN_MAX
               /\ writeBursts[(i + 1) + 1].addr = End(writeBursts[i + 1]) + 1
      BY <3>3, <3>4, <3>5 DEF Follows
    <3>6. CASE /\ own[(i + 1) + 1] = own[i + 1] + 1
               /\ End(writeBursts[i + 1]) = End(task[own[i + 1]])
               /\ writeBursts[(i + 1) + 1].addr = task[own[(i + 1) + 1]].addr
      BY <3>3, <3>4, <3>6 DEF Follows
    <3> QED
      BY <3>2, <3>5, <3>6 DEF Follows
  <2>10. (Tasks - 1 > 0 <=> m - 1 > 0) /\ own[m] = Tasks
    BY <1>0, <1>1, <1>2, <2>3 DEF Finishes
  <2>11. ASSUME m - 1 > 0
         PROVE  Begins(task2, own2)' /\ Finishes(task2, own2)'
    <3>1. Begins(task2, own2)'
      BY <1>0, <1>1, <1>5, <2>2, <2>5, <2>10, <2>11 DEF Begins
    <3>2. /\ m - 1 \in 1 .. m - 1 /\ own2[m - 1] = Tasks - 1
          /\ writeBursts'[m - 1] = writeBursts[m] /\ Sent(m - 1)' = 0 /\ Sent(m) = 0
          /\ task2[Tasks - 1] = task[Tasks]
      BY <1>0, <1>1, <1>5, <2>2, <2>5, <2>7, <2>10, <2>11
    <3>3. Finishes(task2, own2)'
      BY <1>0, <1>2, <1>3, <2>1, <2>2, <3>2 DEF Finishes
    <3> QED
      BY <3>1, <3>3
  <2>12. \A i, j \in 1 .. m - 1 : i <= j => own2[i] <= own2[j]
    BY <1>2, <2>5
  <2>13. Cut(task2, own2)'
    BY <1>0, <1>1, <2>1, <2>2, <2>6, <2>8, <2>9, <2>10, <2>11, <2>12 DEF Cut
  <2> QED
    BY <2>1, <2>2, <2>6, <2>13
<1>6. CASE ~last
  <2>1. /\ task2[1] = [addr |-> q.addr + 1, len |-> q.len - 1]
        /\ \A k \in 2 .. Tasks : task2[k] = task[k]
        /\ Tasks' = Tasks
    BY <1>6
  <2>2. End(task2[1]) = End(task[1])
    <3>1. q.addr \in Int /\ q.len \in Nat
      BY <1>1
    <3> HIDE <1>7
    <3> HIDE DEF q, b, last
    <3>2. task2[1].addr = q.addr + 1 /\ task2[1].len = q.len - 1
      BY <2>1
    <3>3. End(task2[1]) = q.addr + q.len
      BY <3>1, <3>2 DEF End
    <3> QED
      BY <3>3 DEF End, q
  <2>3. \A k \in 1 .. Tasks : End(task2[k]) = End(task[k])
    BY <1>1, <2>1, <2>2
  <2>4. CASE DoSplit(last)
    <3>1. /\ wWordCntr' = 0 /\ b.len = 0 /\ m > 1 /\ own[2] = 1
          /\ writeBursts[2].addr = q.addr + 1
      BY <1>1, <1>6, <2>4
    <3>2. /\ writeBursts' = Tail(writeBursts) /\ writeBursts' \in Seq(BurstRecord)
          /\ Len(writeBursts') = m - 1 /\ DOMAIN writeBursts' = 1 .. m - 1
          /\ \A i \in 1 .. m - 1 : writeBursts'[i] = writeBursts[i + 1]
      BY <1>0, <1>1, <2>4 DEF WriteTypes
    <3>3. PICK own2 : own2 = [i \in 1 .. m - 1 |-> own[i + 1]]
      OBVIOUS
    <3>4. \A i \in 1 .. m - 1 : /\ i + 1 \in 1 .. m /\ own2[i] = own[i + 1]
                                /\ own[i + 1] \in 1 .. Tasks
      BY <1>2, <3>3
    <3>5. own2 \in [DOMAIN writeBursts' -> 1 .. Tasks']
      BY <2>1, <3>2, <3>3, <3>4
    <3>6. \A i \in 1 .. m - 1 : Sent(i)' = 0 /\ Sent(i + 1) = 0
      BY <3>1 DEF Sent
    <3>7. \A i \in 1 .. m - 1 : Fits(task2, own2, i)'
      <4> SUFFICES ASSUME NEW i \in 1 .. m - 1
                   PROVE  Fits(task2, own2, i)'
        OBVIOUS
      <4>1. Fits(task, own, i + 1) /\ End(task2[own[i + 1]]) = End(task[own[i + 1]])
        BY <1>2, <2>3, <3>4
      <4> QED
        BY <3>2, <3>4, <3>6, <4>1 DEF Fits
    <3>8. \A i \in 1 .. m - 2 : Follows(task2, own2, i)'
      <4> SUFFICES ASSUME NEW i \in 1 .. m - 2
                   PROVE  Follows(task2, own2, i)'
        OBVIOUS
      <4>1. i \in 1 .. m - 1 /\ i + 1 \in 1 .. m - 1
        BY <1>0
      <4>2. Follows(task, own, i + 1)
        BY <1>2, <4>1
      <4>3. /\ own2[i] = own[i + 1] /\ own2[i + 1] = own[(i + 1) + 1]
            /\ own[i + 1] \in 1 .. Tasks /\ own[(i + 1) + 1] \in 1 .. Tasks
            /\ End(task2[own2[i]]) = End(task[own[i + 1]])
            /\ writeBursts'[i] = writeBursts[i + 1]
            /\ writeBursts'[i + 1] = writeBursts[(i + 1) + 1]
            /\ Sent(i)' = Sent(i + 1)
        BY <2>3, <3>2, <3>4, <3>6, <4>1
      <4>4. own[(i + 1) + 1] = own[i + 1] + 1 =>
               task2[own2[i + 1]] = task[own[(i + 1) + 1]]
        <5> HIDE <1>7
        <5> HIDE DEF q, b, last
        <5> QED
          BY <1>1, <2>1, <4>3
      <4> QED
        BY <4>2, <4>3, <4>4 DEF Follows
    <3>9. Begins(task2, own2)'
      BY <1>0, <2>1, <3>1, <3>2, <3>4 DEF Begins
    <3>10. Finishes(task2, own2)'
      <4>1. /\ m - 1 \in 1 .. m - 1 /\ own2[m - 1] = own[m]
            /\ writeBursts'[m - 1] = writeBursts[m] /\ Sent(m - 1)' = 0 /\ Sent(m) = 0
            /\ End(task2[Tasks]) = End(task[Tasks])
        BY <1>0, <1>1, <2>3, <3>1, <3>2, <3>4, <3>6
      <4> QED
        BY <1>0, <1>2, <1>3, <2>1, <3>2, <4>1 DEF Finishes
    <3>11. \A i, j \in 1 .. m - 1 : i <= j => own2[i] <= own2[j]
      BY <1>2, <3>4
    <3>12. Cut(task2, own2)'
      BY <1>0, <1>1, <2>1, <3>1, <3>2, <3>5, <3>7, <3>8, <3>9, <3>10, <3>11 DEF Cut
    <3> QED
      BY <3>1, <3>2, <3>5, <3>12
  <2>5. CASE ~DoSplit(last)
    <3> DEFINE c == [addr |-> b.addr + 1, len |-> b.len - 1]
    <3>1. wWordCntr' = wWordCntr + 1 /\ b.len > 0 /\ wWordCntr \in Nat
      <4>1. wWordCntr' = wWordCntr + 1 /\ wWordCntr \in Nat
        BY <2>5 DEF WriteTypes
      <4>2. b.len # 0 /\ b.len \in Nat
        BY <1>1, <2>5
      <4> QED
        BY <4>1, <4>2
    <3>2. c \in BurstRecord /\ 1 \in 1 .. m
      BY <1>0, <1>1, <3>1 DEF BurstRecord
    <3>3. writeBursts' = [writeBursts EXCEPT ![1] = c]
      BY <2>5
    <3>4. /\ writeBursts' \in Seq(BurstRecord) /\ Len(writeBursts') = m
          /\ DOMAIN writeBursts' = 1 .. m
          /\ \A i \in 1 .. m : writeBursts'[i] = IF i = 1 THEN c ELSE writeBursts[i]
      BY <1>0, <3>2, <3>3 DEF WriteTypes
    <3>14. c.len = b.len - 1 /\ c.addr = b.addr + 1
      OBVIOUS
    <3>15. b.addr + b.len = (b.addr + 1) + (b.len - 1) /\ (b.len - 1) + 1 = b.len
      <4>1. b.addr \in Int /\ b.len \in Int
        BY <1>1
      <4> QED
        BY <4>1, EndStays, Zenon
    <3>16. End(b) = b.addr + b.len /\ End(c) = c.addr + c.len
      BY DEF End
    <3> HIDE DEF c
    <3>5. End(c) = End(b) /\ c.len + 1 = b.len /\ c.addr = b.addr + 1
      BY <3>14, <3>15, <3>16
    <3>6. \A i \in 1 .. m : /\ End(writeBursts'[i]) = End(writeBursts[i])
                            /\ writeBursts'[i].len + Sent(i)' = writeBursts[i].len + Sent(i)
                            /\ i # 1 => writeBursts'[i] = writeBursts[i]
      BY <1>1, <3>1, <3>4, <3>5 DEF Sent
    <3>7. \A i \in 1 .. m : own[i] \in 1 .. Tasks
      BY <1>2
    <3>8. \A i \in 1 .. m : Fits(task2, own, i)'
      BY <1>2, <2>3, <3>6, <3>7 DEF Fits
    <3>9. \A i \in 1 .. m - 1 : Follows(task2, own, i)'
      <4> SUFFICES ASSUME NEW i \in 1 .. m - 1
                   PROVE  Follows(task2, own, i)'
        OBVIOUS
      <4>1. i \in 1 .. m /\ i + 1 \in 1 .. m /\ i + 1 # 1
        BY <1>0
      <4>2. Follows(task, own, i)
        BY <1>2
      <4>3. /\ writeBursts'[i + 1] = writeBursts[i + 1]
            /\ End(writeBursts'[i]) = End(writeBursts[i])
            /\ writeBursts'[i].len + Sent(i)' = writeBursts[i].len + Sent(i)
            /\ End(task2[own[i]]) = End(task[own[i]])
        BY <2>3, <3>6, <3>7, <4>1
      <4>4. own[i + 1] = own[i] + 1 => task2[own[i + 1]] = task[own[i + 1]]
        BY <1>1, <2>1, <3>7, <4>1
      <4> QED
        BY <4>2, <4>3, <4>4 DEF Follows
    <3>10. Begins(task2, own)'
      BY <1>1, <2>1, <3>2, <3>4, <3>5 DEF Begins
    <3>11. Finishes(task2, own)'
      <4>2. m \in 1 .. m /\ Tasks \in 1 .. Tasks
        BY <1>0, <1>1
      <4>1. /\ m \in 1 .. m /\ End(task2[Tasks]) = End(task[Tasks])
            /\ End(writeBursts'[m]) = End(writeBursts[m])
            /\ writeBursts'[m].len + Sent(m)' = writeBursts[m].len + Sent(m)
        BY <2>3, <3>6, <4>2, Zenon
      <4> QED
        BY <1>0, <1>2, <1>3, <2>1, <3>4, <4>1 DEF Finishes
    <3>12. own \in [DOMAIN writeBursts' -> 1 .. Tasks']
      BY <1>2, <2>1, <3>4
    <3>13. Cut(task2, own)'
      BY <1>0, <1>1, <1>2, <2>1, <3>4, <3>8, <3>9, <3>10, <3>11, <3>12 DEF Cut
    <3> QED
      BY <3>1, <3>4, <3>12, <3>13
  <2> QED
    BY <2>4, <2>5
<1> QED
  BY <1>5, <1>6


---------------------------------------------------------------------------
(* Writes: which request each turn of a driver stands for *)

\* A driver with a turn has a request, and the first turn stands for its first request.
LEMMA FirstRank ==
    ASSUME WriteTypes, NEW rank, Ranks(rank), orderInfoFifoW # <<>>
    PROVE  /\ sending[Head(orderInfoFifoW)] # <<>> /\ rank[1] = 1
           /\ Head(orderInfoFifoW) = orderInfoFifoW[1] /\ orderInfoFifoW[1] \in Drivers
           /\ Len(orderInfoFifoW) > 0
<1> DEFINE d == orderInfoFifoW[1]
<1>1. /\ Head(orderInfoFifoW) = d /\ d \in Drivers
      /\ Len(orderInfoFifoW) > 0 /\ 1 \in DOMAIN orderInfoFifoW
  BY DEF WriteTypes
<1>2. rank[1] \in DOMAIN sending[d]
  BY <1>1 DEF Ranks
<1>3. sending[d] \in Seq(BurstRecord)
  BY <1>1 DEF WriteTypes
<1>4. sending[d] # <<>> /\ 1 \in DOMAIN sending[d] /\ rank[1] \in Nat /\ rank[1] >= 1
  BY <1>2, <1>3
<1>5. PICK k \in DOMAIN orderInfoFifoW : orderInfoFifoW[k] = d /\ rank[k] = 1
  BY <1>1, <1>4 DEF Ranks
<1>6. k = 1
  <2>1. k \in Nat /\ k >= 1
    BY DEF WriteTypes
  <2>2. 1 < k => rank[1] < rank[k]
    BY <1>1, <1>5 DEF Ranks
  <2> QED
    BY <1>4, <1>5, <2>1, <2>2
<1> QED
  BY <1>1, <1>4, <1>5, <1>6

\* A request q of driver d is acknowledged.
TurnIsAdded(d, q, rank, rank2) ==
    LET n == Len(orderInfoFifoW)
    IN  /\ orderInfoFifoW' = Append(orderInfoFifoW, d)
        /\ sending' = [sending EXCEPT ![d] = Append(@, q)]
        /\ rank2 = [k \in 1 .. n + 1 |-> IF k <= n THEN rank[k] ELSE Len(sending[d]) + 1]

\* A new turn stands for the new request.
LEMMA AppendKeepsRanks ==
    ASSUME WriteTypes, NEW d \in Drivers, NEW q, NEW rank, NEW rank2,
           Ranks(rank), TurnIsAdded(d, q, rank, rank2)
    PROVE  LET n == Len(orderInfoFifoW)
           IN  /\ Ranks(rank2)'
               /\ \A k \in 1 .. n :
                     sending'[orderInfoFifoW'[k]][rank2[k]]
                        = sending[orderInfoFifoW[k]][rank[k]]
               /\ sending'[orderInfoFifoW'[n + 1]][rank2[n + 1]] = q
<1> DEFINE z == Len(sending[d])
<1>0. PICK n \in Nat : n = Len(orderInfoFifoW)
  BY DEF WriteTypes
<1>20. /\ orderInfoFifoW' = Append(orderInfoFifoW, d)
       /\ sending' = [sending EXCEPT ![d] = Append(@, q)]
       /\ rank2 = [k \in 1 .. n + 1 |-> IF k <= n THEN rank[k] ELSE z + 1]
  BY <1>0 DEF TurnIsAdded
<1> USE <1>0, <1>20
<1>1. /\ n \in Nat /\ z \in Nat /\ DOMAIN sending[d] = 1 .. z
      /\ DOMAIN orderInfoFifoW = 1 .. n
  BY DEF WriteTypes
<1>2. /\ DOMAIN orderInfoFifoW' = 1 .. n + 1 /\ orderInfoFifoW'[n + 1] = d
      /\ \A k \in 1 .. n : orderInfoFifoW'[k] = orderInfoFifoW[k]
      /\ \A k \in 1 .. n : orderInfoFifoW[k] \in Drivers
      /\ \A k \in 1 .. n + 1 : k # n + 1 => k \in 1 .. n
  BY <1>1 DEF WriteTypes
<1>3. /\ sending'[d] = Append(sending[d], q)
      /\ \A e \in Drivers : e # d => sending'[e] = sending[e]
  BY DEF WriteTypes
<1>4. /\ DOMAIN sending'[d] = 1 .. z + 1 /\ sending'[d][z + 1] = q
      /\ \A r \in 1 .. z : sending'[d][r] = sending[d][r]
  BY <1>3 DEF WriteTypes
<1>5. /\ rank2[n + 1] = z + 1
      /\ \A k \in 1 .. n : rank2[k] = rank[k] /\ rank[k] \in DOMAIN sending[orderInfoFifoW[k]]
  BY <1>1 DEF Ranks
<1>6. \A k \in 1 .. n + 1 : rank2[k] \in DOMAIN sending'[orderInfoFifoW'[k]]
  <2>1. ASSUME NEW k \in 1 .. n
        PROVE  rank2[k] \in DOMAIN sending'[orderInfoFifoW'[k]]
    <3>1. /\ orderInfoFifoW'[k] = orderInfoFifoW[k] /\ orderInfoFifoW[k] \in Drivers
          /\ rank2[k] \in DOMAIN sending[orderInfoFifoW[k]]
      BY <1>2, <1>5
    <3>2. CASE orderInfoFifoW[k] = d
      BY <1>1, <1>4, <3>1, <3>2
    <3>3. CASE orderInfoFifoW[k] # d
      BY <1>3, <3>1, <3>3
    <3> QED
      BY <3>2, <3>3
  <2>2. rank2[n + 1] \in DOMAIN sending'[orderInfoFifoW'[n + 1]]
    BY <1>1, <1>2, <1>4, <1>5
  <2> QED
    BY <1>2, <2>1, <2>2, Zenon
<1>7. rank2 \in [DOMAIN orderInfoFifoW' -> UNION {DOMAIN sending'[e] : e \in Drivers}]
  <2>1. \A k \in 1 .. n + 1 : orderInfoFifoW'[k] \in Drivers
    BY <1>2
  <2>2. \A k \in 1 .. n + 1 : rank2[k] \in UNION {DOMAIN sending'[e] : e \in Drivers}
    BY <1>6, <2>1
  <2> QED
    BY <1>2, <2>2
<1>8. \A j, k \in 1 .. n + 1 :
          j < k /\ orderInfoFifoW'[j] = orderInfoFifoW'[k] => rank2[j] < rank2[k]
  <2> SUFFICES ASSUME NEW j \in 1 .. n + 1, NEW k \in 1 .. n + 1, j < k,
                      orderInfoFifoW'[j] = orderInfoFifoW'[k]
               PROVE  rank2[j] < rank2[k]
    OBVIOUS
  <2>1. j \in 1 .. n
    BY <1>1
  <2>2. CASE k = n + 1
    <3>1. orderInfoFifoW[j] = d /\ rank2[j] = rank[j] /\ rank[j] \in DOMAIN sending[d]
      BY <1>2, <1>5, <2>1, <2>2
    <3> QED
      BY <1>1, <1>5, <2>2, <3>1
  <2>3. CASE k # n + 1
    <3>1. k \in 1 .. n
      BY <1>2, <2>3
    <3>2. rank[j] < rank[k]
      BY <1>1, <1>2, <2>1, <3>1 DEF Ranks
    <3> QED
      BY <1>5, <2>1, <3>1, <3>2
  <2> QED
    BY <2>2, <2>3
<1>9. \A e \in Drivers : \A r \in DOMAIN sending'[e] :
          \E k \in 1 .. n + 1 : orderInfoFifoW'[k] = e /\ rank2[k] = r
  <2> SUFFICES ASSUME NEW e \in Drivers, NEW r \in DOMAIN sending'[e]
               PROVE  \E k \in 1 .. n + 1 : orderInfoFifoW'[k] = e /\ rank2[k] = r
    OBVIOUS
  <2>1. CASE e = d /\ r = z + 1
    BY <1>1, <1>2, <1>5, <2>1
  <2>2. CASE ~(e = d /\ r = z + 1)
    <3>1. r \in DOMAIN sending[e]
      BY <1>1, <1>3, <1>4, <2>2
    <3>2. PICK k \in 1 .. n : orderInfoFifoW[k] = e /\ rank[k] = r
      BY <1>1, <3>1 DEF Ranks
    <3>3. k \in 1 .. n + 1
      BY <1>1
    <3> QED
      BY <1>2, <1>5, <3>2, <3>3
  <2> QED
    BY <2>1, <2>2
<1>10. Ranks(rank2)'
  <2>1. \A k \in DOMAIN orderInfoFifoW' : rank2[k] \in DOMAIN sending'[orderInfoFifoW'[k]]
    BY <1>2, <1>6
  <2>2. \A j, k \in DOMAIN orderInfoFifoW' :
            j < k /\ orderInfoFifoW'[j] = orderInfoFifoW'[k] => rank2[j] < rank2[k]
    BY <1>2, <1>8
  <2>3. \A e \in Drivers : \A r \in DOMAIN sending'[e] :
            \E k \in DOMAIN orderInfoFifoW' : orderInfoFifoW'[k] = e /\ rank2[k] = r
    <3> SUFFICES ASSUME NEW e \in Drivers, NEW r \in DOMAIN sending'[e]
                 PROVE  \E k \in DOMAIN orderInfoFifoW' : orderInfoFifoW'[k] = e /\ rank2[k] = r
      OBVIOUS
    <3>1. PICK k \in 1 .. n + 1 : orderInfoFifoW'[k] = e /\ rank2[k] = r
      BY <1>9
    <3> QED
      BY <1>2, <3>1
  <2> QED
    BY <1>7, <2>1, <2>2, <2>3, Zenon DEF Ranks
<1>11. \A k \in 1 .. n :
          sending'[orderInfoFifoW'[k]][rank2[k]] = sending[orderInfoFifoW[k]][rank[k]]
  <2> SUFFICES ASSUME NEW k \in 1 .. n
               PROVE  sending'[orderInfoFifoW'[k]][rank2[k]]
                         = sending[orderInfoFifoW[k]][rank[k]]
    OBVIOUS
  <2>1. /\ orderInfoFifoW'[k] = orderInfoFifoW[k] /\ orderInfoFifoW[k] \in Drivers
        /\ rank2[k] = rank[k] /\ rank[k] \in DOMAIN sending[orderInfoFifoW[k]]
    BY <1>2, <1>5
  <2>2. CASE orderInfoFifoW[k] = d
    BY <1>1, <1>4, <2>1, <2>2
  <2>3. CASE orderInfoFifoW[k] # d
    BY <1>3, <2>1, <2>3
  <2> QED
    BY <2>2, <2>3
<1> QED
  BY <1>2, <1>4, <1>5, <1>10, <1>11

\* The last word of a request is sent: its driver and its turn go.
TurnGoes(d, rank, rank2) ==
    LET n == Len(orderInfoFifoW)
    IN  /\ orderInfoFifoW # <<>> /\ d = Head(orderInfoFifoW)
        /\ orderInfoFifoW' = Tail(orderInfoFifoW)
        /\ sending' = [sending EXCEPT ![d] = Tail(@)]
        /\ rank2 = [k \in 1 .. n - 1 |-> IF orderInfoFifoW[k + 1] = d THEN rank[k + 1] - 1
                                         ELSE rank[k + 1]]

\* The turns that remain stand for the requests they stood for.
LEMMA LastKeepsRanks ==
    ASSUME WriteTypes, NEW d, NEW rank, NEW rank2, Ranks(rank), TurnGoes(d, rank, rank2)
    PROVE  /\ Ranks(rank2)'
           /\ \A k \in 1 .. Len(orderInfoFifoW) - 1 :
                 sending'[orderInfoFifoW'[k]][rank2[k]]
                    = sending[orderInfoFifoW[k + 1]][rank[k + 1]]
<1> DEFINE z == Len(sending[d])
<1>20. PICK n \in Nat : n = Len(orderInfoFifoW)
  BY DEF WriteTypes
<1>21. /\ orderInfoFifoW # <<>> /\ d = Head(orderInfoFifoW)
       /\ orderInfoFifoW' = Tail(orderInfoFifoW)
       /\ sending' = [sending EXCEPT ![d] = Tail(@)]
       /\ rank2 = [k \in 1 .. n - 1 |-> IF orderInfoFifoW[k + 1] = d THEN rank[k + 1] - 1
                                        ELSE rank[k + 1]]
  BY <1>20 DEF TurnGoes
<1> USE <1>20, <1>21
<1>0. sending[d] # <<>> /\ rank[1] = 1 /\ d = orderInfoFifoW[1] /\ d \in Drivers
  BY FirstRank
<1>1. /\ n \in Nat /\ n > 0 /\ z \in Nat /\ z > 0 /\ DOMAIN sending[d] = 1 .. z
      /\ DOMAIN orderInfoFifoW = 1 .. n
  BY <1>0 DEF WriteTypes
<1>2. /\ DOMAIN orderInfoFifoW' = 1 .. n - 1
      /\ \A k \in 1 .. n - 1 : orderInfoFifoW'[k] = orderInfoFifoW[k + 1] /\ k + 1 \in 1 .. n
      /\ \A k \in 1 .. n : orderInfoFifoW[k] \in Drivers
  BY <1>1 DEF WriteTypes
<1>3. /\ sending'[d] = Tail(sending[d])
      /\ \A e \in Drivers : e # d => sending'[e] = sending[e]
  BY <1>0 DEF WriteTypes
<1>4. /\ DOMAIN sending'[d] = 1 .. z - 1
      /\ \A r \in 1 .. z - 1 : sending'[d][r] = sending[d][r + 1]
  BY <1>0, <1>1, <1>3 DEF WriteTypes
<1>5. \A k \in 1 .. n : rank[k] \in DOMAIN sending[orderInfoFifoW[k]]
  BY <1>1 DEF Ranks
<1>6. \A k \in 1 .. n - 1 :
          IF orderInfoFifoW[k + 1] = d
          THEN /\ rank2[k] = rank[k + 1] - 1 /\ rank[k + 1] \in 2 .. z
               /\ rank2[k] \in 1 .. z - 1 /\ rank2[k] + 1 = rank[k + 1]
          ELSE rank2[k] = rank[k + 1]
  <2> SUFFICES ASSUME NEW k \in 1 .. n - 1
               PROVE  IF orderInfoFifoW[k + 1] = d
                      THEN /\ rank2[k] = rank[k + 1] - 1 /\ rank[k + 1] \in 2 .. z
                           /\ rank2[k] \in 1 .. z - 1 /\ rank2[k] + 1 = rank[k + 1]
                      ELSE rank2[k] = rank[k + 1]
    OBVIOUS
  <2>1. CASE orderInfoFifoW[k + 1] = d
    <3>1. 1 < k + 1 /\ k + 1 \in 1 .. n /\ 1 \in 1 .. n
      BY <1>1
    <3>2. rank[1] < rank[k + 1]
      BY <1>0, <1>1, <2>1, <3>1 DEF Ranks
    <3>3. rank[k + 1] \in 1 .. z
      BY <1>1, <1>5, <2>1, <3>1
    <3>4. rank2[k] = rank[k + 1] - 1
      BY <2>1
    <3> HIDE DEF z
    <3> QED
      BY <1>0, <1>1, <2>1, <3>2, <3>3, <3>4
  <2>2. CASE orderInfoFifoW[k + 1] # d
    BY <2>2
  <2> QED
    BY <2>1, <2>2
<1>7. \A k \in 1 .. n - 1 : rank2[k] \in DOMAIN sending'[orderInfoFifoW'[k]]
  BY <1>2, <1>3, <1>4, <1>5, <1>6
<1>8. rank2 \in [DOMAIN orderInfoFifoW' -> UNION {DOMAIN sending'[e] : e \in Drivers}]
  <2>1. \A k \in 1 .. n - 1 : orderInfoFifoW'[k] \in Drivers
    BY <1>2
  <2>2. \A k \in 1 .. n - 1 : rank2[k] \in UNION {DOMAIN sending'[e] : e \in Drivers}
    BY <1>7, <2>1
  <2> QED
    BY <1>2, <2>2
<1>9. \A j, k \in 1 .. n - 1 :
          j < k /\ orderInfoFifoW'[j] = orderInfoFifoW'[k] => rank2[j] < rank2[k]
  <2> SUFFICES ASSUME NEW j \in 1 .. n - 1, NEW k \in 1 .. n - 1, j < k,
                      orderInfoFifoW'[j] = orderInfoFifoW'[k]
               PROVE  rank2[j] < rank2[k]
    OBVIOUS
  <2>1. j + 1 < k + 1 /\ j + 1 \in 1 .. n /\ k + 1 \in 1 .. n
    BY <1>1
  <2>2. orderInfoFifoW[j + 1] = orderInfoFifoW[k + 1]
    BY <1>2
  <2>3. rank[j + 1] < rank[k + 1]
    BY <1>1, <2>1, <2>2 DEF Ranks
  <2> HIDE DEF z
  <2>4. CASE orderInfoFifoW[k + 1] = d
    BY <1>1, <1>6, <2>2, <2>3, <2>4
  <2>5. CASE orderInfoFifoW[k + 1] # d
    BY <1>6, <2>2, <2>3, <2>5
  <2> QED
    BY <2>4, <2>5
<1>10. \A e \in Drivers : \A r \in DOMAIN sending'[e] :
          \E k \in 1 .. n - 1 : orderInfoFifoW'[k] = e /\ rank2[k] = r
  <2> SUFFICES ASSUME NEW e \in Drivers, NEW r \in DOMAIN sending'[e]
               PROVE  \E k \in 1 .. n - 1 : orderInfoFifoW'[k] = e /\ rank2[k] = r
    OBVIOUS
  <2>1. CASE e = d
    <3>1. r \in 1 .. z - 1 /\ r + 1 \in 1 .. z
      BY <1>1, <1>4, <2>1
    <3>5. r + 1 \in DOMAIN sending[d]
      BY <1>1, <3>1
    <3>6. \A t \in DOMAIN sending[d] :
             \E k \in DOMAIN orderInfoFifoW : orderInfoFifoW[k] = d /\ rank[k] = t
      BY <1>0 DEF Ranks
    <3>2. PICK k \in 1 .. n : orderInfoFifoW[k] = d /\ rank[k] = r + 1
      BY <1>1, <3>5, <3>6, Zenon
    <3>3. k # 1 /\ k - 1 \in 1 .. n - 1 /\ (k - 1) + 1 = k
      BY <1>0, <1>1, <3>1, <3>2
    <3>4. rank2[k - 1] = r
      BY <3>1, <3>2, <3>3
    <3> QED
      BY <1>2, <2>1, <3>2, <3>3, <3>4
  <2>2. CASE e # d
    <3>1. PICK k \in 1 .. n : orderInfoFifoW[k] = e /\ rank[k] = r
      BY <1>1, <1>3, <2>2 DEF Ranks
    <3>2. k # 1 /\ k - 1 \in 1 .. n - 1 /\ (k - 1) + 1 = k
      BY <1>0, <1>1, <2>2, <3>1
    <3> QED
      BY <1>2, <1>6, <2>2, <3>1, <3>2
  <2> QED
    BY <2>1, <2>2
<1>11. Ranks(rank2)'
  <2>1. \A k \in DOMAIN orderInfoFifoW' : rank2[k] \in DOMAIN sending'[orderInfoFifoW'[k]]
    BY <1>2, <1>7
  <2>2. \A j, k \in DOMAIN orderInfoFifoW' :
            j < k /\ orderInfoFifoW'[j] = orderInfoFifoW'[k] => rank2[j] < rank2[k]
    BY <1>2, <1>9
  <2>3. \A e \in Drivers : \A r \in DOMAIN sending'[e] :
            \E k \in DOMAIN orderInfoFifoW' : orderInfoFifoW'[k] = e /\ rank2[k] = r
    <3> SUFFICES ASSUME NEW e \in Drivers, NEW r \in DOMAIN sending'[e]
                 PROVE  \E k \in DOMAIN orderInfoFifoW' : orderInfoFifoW'[k] = e /\ rank2[k] = r
      OBVIOUS
    <3>1. PICK k \in 1 .. n - 1 : orderInfoFifoW'[k] = e /\ rank2[k] = r
      BY <1>10
    <3> QED
      BY <1>2, <3>1
  <2> QED
    BY <1>8, <2>1, <2>2, <2>3, Zenon DEF Ranks
<1>12. \A k \in 1 .. n - 1 :
          sending'[orderInfoFifoW'[k]][rank2[k]] = sending[orderInfoFifoW[k + 1]][rank[k + 1]]
  BY <1>2, <1>3, <1>4, <1>6
<1> QED
  BY <1>11, <1>12

\* A word that is not the last is sent: every turn keeps its request.
TurnStays(d, q) ==
    /\ orderInfoFifoW # <<>> /\ d = Head(orderInfoFifoW)
    /\ orderInfoFifoW' = orderInfoFifoW
    /\ sending' = [sending EXCEPT ![d] = <<q>> \o Tail(@)]

\* The turns are the same, and all requests but the first of d.
LEMMA WordKeepsRanks ==
    ASSUME WriteTypes, NEW d, NEW q, NEW rank, Ranks(rank), TurnStays(d, q)
    PROVE  /\ Ranks(rank)'
           /\ sending'[orderInfoFifoW[1]][rank[1]] = q
           /\ \A k \in 2 .. Len(orderInfoFifoW) :
                 sending'[orderInfoFifoW[k]][rank[k]] = sending[orderInfoFifoW[k]][rank[k]]
<1>20. /\ orderInfoFifoW # <<>> /\ d = Head(orderInfoFifoW)
       /\ orderInfoFifoW' = orderInfoFifoW
       /\ sending' = [sending EXCEPT ![d] = <<q>> \o Tail(@)]
  BY DEF TurnStays
<1> USE <1>20
<1>0. sending[d] # <<>> /\ rank[1] = 1 /\ d = orderInfoFifoW[1] /\ d \in Drivers
  BY FirstRank
<1>1. /\ sending'[d] = <<q>> \o Tail(sending[d])
      /\ \A e \in Drivers : e # d => sending'[e] = sending[e]
  BY <1>0 DEF WriteTypes
<1>2. sending[d] \in Seq(BurstRecord)
  BY <1>0 DEF WriteTypes
<1>3. PICK z \in Nat : z = Len(sending[d])
  BY <1>2
<1>4. /\ DOMAIN sending'[d] = DOMAIN sending[d] /\ sending'[d][1] = q
      /\ \A r \in DOMAIN sending[d] : r # 1 => sending'[d][r] = sending[d][r]
  <2>1. Tail(sending[d]) \in Seq(BurstRecord) /\ Len(Tail(sending[d])) = z - 1 /\ z > 0
    BY <1>0, <1>2, <1>3
  <2>2. Len(sending'[d]) = z /\ DOMAIN sending'[d] = 1 .. z
    BY <1>1, <2>1
  <2> QED
    BY <1>0, <1>1, <1>2, <1>3, <2>1, <2>2
<1>5. \A e \in Drivers : DOMAIN sending'[e] = DOMAIN sending[e]
  BY <1>1, <1>4
<1>6. UNION {DOMAIN sending'[e] : e \in Drivers} = UNION {DOMAIN sending[e] : e \in Drivers}
  BY <1>5
<1>8. \A k \in DOMAIN orderInfoFifoW : orderInfoFifoW[k] \in Drivers
  BY DEF WriteTypes
<1>7. Ranks(rank)'
  BY <1>5, <1>6, <1>8 DEF Ranks
<1>9. \A k \in 2 .. Len(orderInfoFifoW) :
          sending'[orderInfoFifoW[k]][rank[k]] = sending[orderInfoFifoW[k]][rank[k]]
  <2> SUFFICES ASSUME NEW k \in 2 .. Len(orderInfoFifoW)
               PROVE  sending'[orderInfoFifoW[k]][rank[k]] = sending[orderInfoFifoW[k]][rank[k]]
    OBVIOUS
  <2>1. k \in DOMAIN orderInfoFifoW /\ 1 \in DOMAIN orderInfoFifoW /\ 1 < k
    BY DEF WriteTypes
  <2>2. CASE orderInfoFifoW[k] = d
    <3>1. rank[1] < rank[k] /\ rank[k] \in DOMAIN sending[d]
      BY <1>0, <2>1, <2>2 DEF Ranks
    <3>2. rank[k] # 1
      BY <1>0, <1>2, <3>1
    <3> QED
      BY <1>4, <2>2, <3>1, <3>2
  <2>3. CASE orderInfoFifoW[k] # d
    BY <1>1, <1>8, <2>1, <2>3
  <2> QED
    BY <2>2, <2>3
<1> QED
  BY <1>0, <1>4, <1>7, <1>9

---------------------------------------------------------------------------
(* Writes: every step keeps the bursts in step with what is to be sent *)

\* The tasks are bursts; the k-th is what the k-th turn stands for.
LEMMA TaskIs ==
    ASSUME RequestTypes, WriteTypes, OneIsSplit, NEW rank, Ranks(rank)
    PROVE  /\ Task(rank) \in [1 .. Tasks -> BurstRecord]
           /\ \A k \in 1 .. Len(orderInfoFifoW) :
                 Task(rank)[k] = sending[orderInfoFifoW[k]][rank[k]]
           /\ transPartPending => Task(rank)[Tasks] = SplitRequest
<1>1. /\ Tasks \in Nat /\ Len(orderInfoFifoW) \in Nat /\ Tasks >= Len(orderInfoFifoW)
      /\ transPartPending => Tasks = Len(orderInfoFifoW) + 1
      /\ ~transPartPending => Tasks = Len(orderInfoFifoW)
  BY TasksAre DEF WriteTypes, RequestTypes
<1>2. \A k \in 1 .. Len(orderInfoFifoW) : sending[orderInfoFifoW[k]][rank[k]] \in BurstRecord
  BY <1>1 DEF Ranks, WriteTypes
<1>3. transPartPending => SplitRequest \in BurstRecord
  <2>1. ASSUME transPartPending
        PROVE  SplitRequest \in BurstRecord
    <3>1. PICK e \in Drivers : Long(req[e])
      BY <2>1 DEF OneIsSplit
    <3>2. \E a \in Drivers : Long(req[a]) /\ SplitRequest = req[a]
      BY <3>1 DEF SplitRequest
    <3>3. PICK a \in Drivers : Long(req[a]) /\ SplitRequest = req[a]
      BY <3>2
    <3>4. req[a] \in Requests
      BY <3>3 DEF RequestTypes, Long
    <3> QED
      BY <3>3, <3>4, RequestAssumption DEF BurstRecord
  <2> QED
    BY <2>1
<1>4. \A k \in 1 .. Tasks :
          Task(rank)[k] = IF k <= Len(orderInfoFifoW) THEN sending[orderInfoFifoW[k]][rank[k]]
                          ELSE SplitRequest
  BY DEF Task
<1>5. \A k \in 1 .. Tasks : Task(rank)[k] \in BurstRecord
  <2> SUFFICES ASSUME NEW k \in 1 .. Tasks
               PROVE  Task(rank)[k] \in BurstRecord
    OBVIOUS
  <2>1. CASE k <= Len(orderInfoFifoW)
    BY <1>1, <1>2, <1>4, <2>1
  <2>2. CASE ~(k <= Len(orderInfoFifoW))
    <3>1. transPartPending
      BY <1>1, <2>2 DEF RequestTypes
    <3> QED
      BY <1>3, <1>4, <2>2, <3>1
  <2> QED
    BY <2>1, <2>2
<1>6. Task(rank) \in [1 .. Tasks -> BurstRecord]
  <2>1. /\ DOMAIN Task(rank) = 1 .. Tasks
        /\ Task(rank) = [k \in 1 .. Tasks |-> Task(rank)[k]]
    BY DEF Task
  <2> QED
    BY <1>5, <2>1
<1>7. \A k \in 1 .. Len(orderInfoFifoW) : k \in 1 .. Tasks /\ k <= Len(orderInfoFifoW)
  BY <1>1
<1>8. transPartPending => Tasks \in 1 .. Tasks /\ ~(Tasks <= Len(orderInfoFifoW))
  BY <1>1
<1> QED
  BY <1>4, <1>6, <1>7, <1>8

\* A step that leaves the requests to be sent and the bursts alone.
LEMMA OtherKeepsBursts ==
    ASSUME WriteTypes, BurstsInStep,
           UNCHANGED <<orderInfoFifoW, sending, writeBursts, wWordCntr, splitVars>>,
           transPartPending => SplitRequest' = SplitRequest,
           wErrFlag => wErrFlag'
    PROVE  BurstsInStep'
<1>1. PICK rank \in [DOMAIN orderInfoFifoW -> UNION {DOMAIN sending[d] : d \in Drivers}] :
          /\ Ranks(rank)
          /\ ~wErrFlag => \E own \in [DOMAIN writeBursts -> 1 .. Tasks] : Cut(Task(rank), own)
  BY DEF BurstsInStep
<1>2. /\ orderInfoFifoW' = orderInfoFifoW /\ sending' = sending /\ writeBursts' = writeBursts
      /\ wWordCntr' = wWordCntr /\ transPartPending' = transPartPending
      /\ addrTmp' = addrTmp /\ reqLenRemaining' = reqLenRemaining
  BY DEF splitVars
<1>3. Ranks(rank)'
  BY <1>1, <1>2 DEF Ranks
<1>4. Tasks' = Tasks
  BY <1>2 DEF Tasks
<1>5. Task(rank)' = Task(rank)
  <2>1. CASE transPartPending
    BY <1>2, <1>4, <2>1 DEF Task
  <2>2. CASE ~transPartPending
    <3>1. \A k \in 1 .. Tasks : k <= Len(orderInfoFifoW)
      BY <2>2 DEF Tasks, WriteTypes
    <3>2. Task(rank) = [k \in 1 .. Tasks |-> sending[orderInfoFifoW[k]][rank[k]]]
      BY <3>1 DEF Task
    <3>3. Task(rank)' = [k \in 1 .. Tasks |-> sending[orderInfoFifoW[k]][rank[k]]]
      BY <1>2, <1>4, <3>1 DEF Task
    <3> QED
      BY <3>2, <3>3
  <2> QED
    BY <2>1, <2>2
<1>6. \A own : Cut(Task(rank), own) => Cut(Task(rank), own)'
  BY <1>2, <1>4, <1>5 DEF Cut, Begins, Fits, Follows, Finishes, Sent, End
<1>7. ~wErrFlag' => \E own \in [DOMAIN writeBursts' -> 1 .. Tasks'] : Cut(Task(rank), own)'
  BY <1>1, <1>2, <1>4, <1>6
<1>8. rank \in [DOMAIN orderInfoFifoW' -> UNION {DOMAIN sending'[d] : d \in Drivers}]
  BY <1>2
<1> QED
  BY <1>3, <1>7, <1>8 DEF BurstsInStep

\* A new request at a port is no task yet.
LEMMA OfferKeepsBursts ==
    ASSUME ~COMPETING, RequestTypes, WriteTypes, OneIsSplit, BurstsInStep,
           NEW d \in Drivers, WOffer(d)
    PROVE  BurstsInStep'
<1>1. PICK q \in Requests : \A e \in Drivers : req[e] # NoReq => ~Long(q) /\ ~Long(req[e])
  BY DEF WOffer, Offer
<1>2. ~transPartPending
  BY <1>1 DEF OneIsSplit, Long
<1>3. /\ UNCHANGED <<orderInfoFifoW, sending, writeBursts, wWordCntr, splitVars>>
      /\ wErrFlag' = wErrFlag
  BY DEF WOffer, Offer, writeVars
<1> QED
  BY <1>2, <1>3, OtherKeepsBursts

\* A burst is sent, of the request that is split or of a new one.
LEMMA DispatchKeepsBursts ==
    ASSUME RequestTypes, WriteTypes, OneIsSplit, BurstsInStep,
           NEW d \in Drivers, WDispatch(d)
    PROVE  BurstsInStep'
<1> DEFINE q == req[d]
           n == Len(orderInfoFifoW)
<1>1. /\ ~wErrFlag /\ wErrFlag' = wErrFlag /\ Selected(d) /\ SendPart(q)
      /\ req' = IF Splits(q) THEN req ELSE [req EXCEPT ![d] = NoReq]
      /\ writeBursts' = Append(writeBursts, Burst(q))
      /\ wWordCntr' = wWordCntr
      /\ orderInfoFifoW' = IF Splits(q) THEN orderInfoFifoW ELSE Append(orderInfoFifoW, d)
      /\ sending' = IF Splits(q) THEN sending ELSE [sending EXCEPT ![d] = Append(@, q)]
  BY WDispatchDoes
<1>2. PICK rank \in [DOMAIN orderInfoFifoW -> UNION {DOMAIN sending[e] : e \in Drivers}] :
          /\ Ranks(rank)
          /\ \E own \in [DOMAIN writeBursts -> 1 .. Tasks] : Cut(Task(rank), own)
  BY <1>1 DEF BurstsInStep
<1>3. PICK own : Cut(Task(rank), own)
  BY <1>2
<1>4. q \in Requests /\ q.addr \in Int /\ q.len \in Nat
  BY <1>1, Selecting
<1>5. Burst(q) \in BurstRecord
  <2>1. direction' = direction /\ req' = NextReq(d, ~Splits(q))
    BY <1>1 DEF WDispatch, NextReq
  <2> QED
    BY <1>1, <2>1, SendTypes
<1>6. transPartPending => SplitRequest = q
  BY <1>1, SplitIsSelected
<1>7. transPartPending' = Splits(q) /\ Splits(q) \in BOOLEAN
  BY <1>1 DEF SendPart, Splits
<1>8. /\ n \in Nat /\ Tasks \in Nat
      /\ transPartPending => Tasks = n + 1
      /\ ~transPartPending => Tasks = n
      /\ transPartPending \in BOOLEAN
  BY TasksAre DEF WriteTypes, RequestTypes
<1>9. PICK task : task = Task(rank)
  OBVIOUS
<1>10. /\ \A k \in 1 .. n : task[k] = sending[orderInfoFifoW[k]][rank[k]]
       /\ transPartPending => task[Tasks] = q
  BY <1>2, <1>6, <1>9, TaskIs
<1>11. Tasks' = n + 1
  BY <1>1, <1>7, <1>8 DEF Tasks, WriteTypes
<1>12. Tasks' = IF transPartPending THEN Tasks ELSE Tasks + 1
  BY <1>8, <1>11
<1>13. ASSUME NEW rank2, Ranks(rank2)',
              \A k \in 1 .. n : Task(rank2)'[k] = task[k],
              Task(rank2)'[n + 1] = q
       PROVE  BurstsInStep'
  <2>0. PICK task2 : task2 = Task(rank2)'
    OBVIOUS
  <2>1. \A k \in 1 .. Tasks : task2[k] = task[k]
    <3>1. \A k \in 1 .. Tasks : k \in 1 .. n \/ (k = n + 1 /\ k = Tasks /\ transPartPending)
      BY <1>8
    <3> QED
      BY <1>10, <1>13, <2>0, <3>1
  <2>2. task2[Tasks'] = q
    BY <1>11, <1>13, <2>0
  <2>7. PartIsSent(q, task, task2)
    BY <1>1, <1>4, <1>5, <1>10, <1>12, <2>1, <2>2 DEF PartIsSent
  <2>3. \E own2 \in [DOMAIN writeBursts' -> 1 .. Tasks'] : Cut(task2, own2)'
    BY <1>3, <1>9, <2>7, DispatchKeepsCut
  <2>4. PICK own2 \in [DOMAIN writeBursts' -> 1 .. Tasks'] : Cut(task2, own2)'
    BY <2>3
  <2>5. Cut(Task(rank2), own2)'
    BY <2>0, <2>4 DEF Cut, Begins, Fits, Follows, Finishes
  <2>6. rank2 \in [DOMAIN orderInfoFifoW' -> UNION {DOMAIN sending'[e] : e \in Drivers}]
    BY <1>13 DEF Ranks
  <2> QED
    BY <1>13, <2>4, <2>5, <2>6 DEF BurstsInStep
<1>14. CASE Splits(q)
  <2>1. orderInfoFifoW' = orderInfoFifoW /\ sending' = sending
    BY <1>1, <1>14
  <2>2. Ranks(rank)'
    BY <1>2, <2>1 DEF Ranks
  <2>3. SplitRequest' = q
    BY <1>1, <1>14, SendKeepsOne
  <2>4. Task(rank)' = [k \in 1 .. n + 1 |-> IF k <= n THEN sending[orderInfoFifoW[k]][rank[k]]
                                            ELSE q]
    BY <1>11, <2>1, <2>3 DEF Task
  <2>5. \A k \in 1 .. n : k \in 1 .. n + 1 /\ k <= n
    BY <1>8
  <2>6. n + 1 \in 1 .. n + 1 /\ ~(n + 1 <= n)
    BY <1>8
  <2>7. /\ \A k \in 1 .. n : Task(rank)'[k] = task[k]
        /\ Task(rank)'[n + 1] = q
    BY <1>10, <2>4, <2>5, <2>6
  <2> QED
    BY <1>13, <2>2, <2>7
<1>15. CASE ~Splits(q)
  <2>1. /\ orderInfoFifoW' = Append(orderInfoFifoW, d)
        /\ sending' = [sending EXCEPT ![d] = Append(@, q)]
    BY <1>1, <1>15
  <2>2. PICK rank2 : rank2 = [k \in 1 .. n + 1 |-> IF k <= n THEN rank[k]
                                                   ELSE Len(sending[d]) + 1]
    OBVIOUS
  <2>3. /\ Ranks(rank2)'
        /\ \A k \in 1 .. n :
              sending'[orderInfoFifoW'[k]][rank2[k]] = sending[orderInfoFifoW[k]][rank[k]]
        /\ sending'[orderInfoFifoW'[n + 1]][rank2[n + 1]] = q
    <3>1. TurnIsAdded(d, q, rank, rank2)
      BY <2>1, <2>2 DEF TurnIsAdded
    <3> QED
      BY <1>2, <3>1, AppendKeepsRanks
  <2>4. Len(orderInfoFifoW') = n + 1
    BY <2>1 DEF WriteTypes
  <2>5. Task(rank2)' = [k \in 1 .. n + 1 |-> IF k <= n + 1
                                             THEN sending'[orderInfoFifoW'[k]][rank2[k]]
                                             ELSE SplitRequest']
    BY <1>11, <2>4 DEF Task
  <2>6. \A k \in 1 .. n + 1 : Task(rank2)'[k] = sending'[orderInfoFifoW'[k]][rank2[k]]
    BY <1>8, <2>5
  <2>7. (\A k \in 1 .. n : k \in 1 .. n + 1) /\ n + 1 \in 1 .. n + 1
    BY <1>8
  <2>8. /\ \A k \in 1 .. n : Task(rank2)'[k] = task[k]
        /\ Task(rank2)'[n + 1] = q
    BY <1>10, <2>3, <2>6, <2>7
  <2> QED
    BY <1>13, <2>3, <2>8
<1> QED
  BY <1>14, <1>15

\* A word is sent by the driver at the head of orderInfoFifoW.
LEMMA WordKeepsBursts ==
    ASSUME RequestTypes, WriteTypes, OneIsSplit, BurstsInStep,
           NEW d \in Drivers, Word(d)
    PROVE  /\ BurstsInStep'
           /\ sending[d] # <<>>
           /\ ~wErrFlag => writeBursts' \in Seq(BurstRecord) /\ wWordCntr' \in Nat
<1> DEFINE q == Head(sending[d])
           last == q.len = 0
           n == Len(orderInfoFifoW)
<1>1. /\ orderInfoFifoW # <<>> /\ d = Head(orderInfoFifoW)
      /\ wWordCntr' = NextWWordCntr(last)
      /\ ~wErrFlag /\ DoSplit(last) => writeBursts' = Tail(writeBursts)
      /\ ~wErrFlag /\ ~DoSplit(last) =>
            writeBursts' = [writeBursts EXCEPT ![1] = [addr |-> @.addr + 1, len |-> @.len - 1]]
      /\ sending' = [sending EXCEPT ![d] =
                       IF last THEN Tail(@)
                       ELSE <<[addr |-> q.addr + 1, len |-> q.len - 1]>> \o Tail(@)]
      /\ orderInfoFifoW' = IF last THEN Tail(orderInfoFifoW) ELSE orderInfoFifoW
      /\ UNCHANGED <<wErrFlag, requestVars>>
  BY WordDoes
<1>2. PICK rank \in [DOMAIN orderInfoFifoW -> UNION {DOMAIN sending[e] : e \in Drivers}] :
          /\ Ranks(rank)
          /\ ~wErrFlag => \E own \in [DOMAIN writeBursts -> 1 .. Tasks] : Cut(Task(rank), own)
  BY DEF BurstsInStep
<1>3. /\ sending[d] # <<>> /\ rank[1] = 1 /\ d = orderInfoFifoW[1] /\ n > 0
  BY <1>1, <1>2, FirstRank
<1>4. q = sending[d][1] /\ q \in BurstRecord
  BY <1>3 DEF WriteTypes
<1>5. /\ n \in Nat /\ Tasks \in Nat /\ Tasks >= n
      /\ transPartPending => Tasks = n + 1
      /\ ~transPartPending => Tasks = n
      /\ transPartPending \in BOOLEAN
  BY TasksAre DEF WriteTypes, RequestTypes
<1>6. PICK task : task = Task(rank)
  OBVIOUS
<1>7. /\ task \in [1 .. Tasks -> BurstRecord]
      /\ \A k \in 1 .. n : task[k] = sending[orderInfoFifoW[k]][rank[k]]
      /\ transPartPending => task[Tasks] = SplitRequest
  BY <1>2, <1>6, TaskIs
<1>8. task[1] = q
  BY <1>3, <1>4, <1>5, <1>7
<1>9. /\ transPartPending' = transPartPending /\ UNCHANGED splitVars /\ req' = req
      /\ SplitRequest' = SplitRequest
  BY <1>1 DEF requestVars, splitVars, SplitRequest, Long
<1>10. Len(orderInfoFifoW') = IF last THEN n - 1 ELSE n
  BY <1>1 DEF WriteTypes
<1>11. Tasks' = IF last THEN Tasks - 1 ELSE Tasks
  <2>1. Tasks' = Len(orderInfoFifoW') + (IF transPartPending THEN 1 ELSE 0)
    BY <1>9 DEF Tasks
  <2>2. Tasks = n + (IF transPartPending THEN 1 ELSE 0)
    BY DEF Tasks
  <2> HIDE DEF q, n
  <2> QED
    BY <1>5, <1>10, <2>1, <2>2
<1>12. ASSUME NEW rank2, Ranks(rank2)',
              last => \A k \in 1 .. Tasks - 1 : Task(rank2)'[k] = task[k + 1],
              ~last => /\ Task(rank2)'[1] = [addr |-> q.addr + 1, len |-> q.len - 1]
                       /\ \A k \in 2 .. Tasks : Task(rank2)'[k] = task[k]
       PROVE  /\ BurstsInStep'
              /\ ~wErrFlag => writeBursts' \in Seq(BurstRecord) /\ wWordCntr' \in Nat
  <2>0. PICK task2 : task2 = Task(rank2)'
    OBVIOUS
  <2>6. rank2 \in [DOMAIN orderInfoFifoW' -> UNION {DOMAIN sending'[e] : e \in Drivers}]
    BY <1>12 DEF Ranks
  <2>1. CASE wErrFlag
    <3>1. wErrFlag'
      BY <1>1, <2>1
    <3> QED
      BY <1>12, <2>1, <2>6, <3>1 DEF BurstsInStep
  <2>2. CASE ~wErrFlag
    <3>1. PICK own : Cut(task, own)
      BY <1>2, <1>6, <2>2
    <3>2. /\ wWordCntr' = IF DoSplit(last) THEN 0 ELSE wWordCntr + 1
          /\ writeBursts' = IF DoSplit(last) THEN Tail(writeBursts)
                            ELSE [writeBursts EXCEPT ![1] = [addr |-> @.addr + 1,
                                                             len |-> @.len - 1]]
      BY <1>1, <2>2 DEF NextWWordCntr
    <3>3. /\ \E own2 \in [DOMAIN writeBursts' -> 1 .. Tasks'] : Cut(task2, own2)'
          /\ writeBursts' \in Seq(BurstRecord) /\ wWordCntr' \in Nat
      <4>1. /\ last => \A k \in 1 .. Tasks - 1 : task2[k] = task[k + 1]
            /\ ~last => /\ task2[1] = [addr |-> q.addr + 1, len |-> q.len - 1]
                        /\ \A k \in 2 .. Tasks : task2[k] = task[k]
        BY <1>12, <2>0
      <4> HIDE DEF q
      <4>2. WordIsSent(task, task2)
        BY <1>8, <1>9, <1>11, <3>2, <4>1 DEF WordIsSent
      <4> QED
        BY <1>1, <1>7, <3>1, <4>2, WordKeepsCut
    <3>4. PICK own2 \in [DOMAIN writeBursts' -> 1 .. Tasks'] : Cut(task2, own2)'
      BY <3>3
    <3>5. Cut(Task(rank2), own2)'
      BY <2>0, <3>4 DEF Cut, Begins, Fits, Follows, Finishes
    <3> QED
      BY <1>12, <2>6, <3>3, <3>4, <3>5 DEF BurstsInStep
  <2> QED
    BY <2>1, <2>2
<1>13. CASE last
  <2>1. orderInfoFifoW' = Tail(orderInfoFifoW) /\ sending' = [sending EXCEPT ![d] = Tail(@)]
    BY <1>1, <1>13
  <2>2. PICK rank2 : rank2 = [k \in 1 .. n - 1 |->
                                IF orderInfoFifoW[k + 1] = d THEN rank[k + 1] - 1
                                ELSE rank[k + 1]]
    OBVIOUS
  <2>3. /\ Ranks(rank2)'
        /\ \A k \in 1 .. n - 1 : sending'[orderInfoFifoW'[k]][rank2[k]]
                                    = sending[orderInfoFifoW[k + 1]][rank[k + 1]]
    <3>1. TurnGoes(d, rank, rank2)
      BY <1>1, <2>1, <2>2 DEF TurnGoes
    <3> QED
      BY <1>2, <3>1, LastKeepsRanks
  <2>4. Task(rank2)' = [k \in 1 .. Tasks - 1 |->
                          IF k <= n - 1 THEN sending'[orderInfoFifoW'[k]][rank2[k]]
                          ELSE SplitRequest]
    BY <1>9, <1>10, <1>11, <1>13 DEF Task
  <2>5. ASSUME NEW k \in 1 .. Tasks - 1
        PROVE  Task(rank2)'[k] = task[k + 1]
    <3>1. CASE k <= n - 1
      <4>1. k \in 1 .. n - 1 /\ k + 1 \in 1 .. n
        BY <1>5, <3>1
      <4> QED
        BY <1>7, <2>3, <2>4, <3>1, <4>1
    <3>2. CASE ~(k <= n - 1)
      <4>1. transPartPending /\ k + 1 = Tasks
        BY <1>5, <3>2
      <4> QED
        BY <1>7, <2>4, <3>2, <4>1
    <3> QED
      BY <3>1, <3>2
  <2> QED
    BY <1>3, <1>12, <1>13, <2>3, <2>5
<1>14. CASE ~last
  <2>1. /\ orderInfoFifoW' = orderInfoFifoW
        /\ sending' = [sending EXCEPT ![d] = <<[addr |-> q.addr + 1, len |-> q.len - 1]>>
                                             \o Tail(@)]
    BY <1>1, <1>14
  <2>2. /\ Ranks(rank)'
        /\ sending'[orderInfoFifoW[1]][rank[1]] = [addr |-> q.addr + 1, len |-> q.len - 1]
        /\ \A k \in 2 .. n :
              sending'[orderInfoFifoW[k]][rank[k]] = sending[orderInfoFifoW[k]][rank[k]]
    <3>1. TurnStays(d, [addr |-> q.addr + 1, len |-> q.len - 1])
      BY <1>1, <2>1 DEF TurnStays
    <3> QED
      BY <1>2, <3>1, WordKeepsRanks
  <2>3. Task(rank)' = [k \in 1 .. Tasks |->
                         IF k <= n THEN sending'[orderInfoFifoW[k]][rank[k]]
                         ELSE SplitRequest]
    <3>1. Tasks' = Tasks /\ Len(orderInfoFifoW') = n
      BY <1>11, <1>14, <2>1
    <3>2. Task(rank)' = [k \in 1 .. Tasks' |->
                           IF k <= Len(orderInfoFifoW') THEN sending'[orderInfoFifoW'[k]][rank[k]]
                           ELSE SplitRequest']
      BY DEF Task
    <3> QED
      BY <1>9, <2>1, <3>1, <3>2
  <2>4. Task(rank)'[1] = [addr |-> q.addr + 1, len |-> q.len - 1]
    <3>1. 1 \in 1 .. Tasks /\ 1 <= n
      BY <1>3, <1>5
    <3> QED
      BY <2>2, <2>3, <3>1
  <2>5. ASSUME NEW k \in 2 .. Tasks
        PROVE  Task(rank)'[k] = task[k]
    <3>0. k \in 1 .. Tasks
      BY <1>5
    <3>1. CASE k <= n
      <4>1. k \in 2 .. n /\ k \in 1 .. n
        BY <1>5, <3>1
      <4> QED
        BY <1>7, <2>2, <2>3, <3>0, <3>1, <4>1
    <3>2. CASE ~(k <= n)
      <4>1. transPartPending /\ k = Tasks
        BY <1>5, <3>2
      <4> QED
        BY <1>7, <2>3, <3>0, <3>2, <4>1
    <3> QED
      BY <3>1, <3>2
  <2> QED
    BY <1>3, <1>12, <1>14, <2>2, <2>4, <2>5
<1> QED
  BY <1>13, <1>14

---------------------------------------------------------------------------
(* Writes: the answers, the bursts they are for and who gets the acknowledge *)

\* The burst of the last word of a request makes an acknowledge wait for its answer.
LEMMA WordKeepsAnswers ==
    ASSUME WriteTypes, AnswersInStep, NEW d \in Drivers, Word(d)
    PROVE  AnswersInStep'
<1> DEFINE last == Head(sending[d]).len = 0
           n == Len(bInfoFifo)
           a == Len(orderInfoFifoAck)
<1>1. /\ writeBursts # <<>> /\ writeInfoFifo # <<>>
      /\ writeInfoFifo' = IF DoSplit(last) THEN Tail(writeInfoFifo) ELSE writeInfoFifo
      /\ bInfoFifo' = IF DoSplit(last) THEN Append(bInfoFifo, last) ELSE bInfoFifo
      /\ wErrFlag => UNCHANGED <<writeBursts, answers>>
      /\ ~wErrFlag /\ DoSplit(last) =>
            /\ writeBursts' = Tail(writeBursts)
            /\ answers' = Append(answers, [driver |-> d, last |-> last])
      /\ ~wErrFlag /\ ~DoSplit(last) =>
            /\ writeBursts' = [writeBursts EXCEPT ![1] = [addr |-> @.addr + 1,
                                                          len |-> @.len - 1]]
            /\ answers' = answers
      /\ orderInfoFifoAck' = IF last THEN Append(orderInfoFifoAck, d) ELSE orderInfoFifoAck
      /\ wErrFlag' = wErrFlag
  BY WordDoes
<1>2. last => DoSplit(last)
  BY DEF DoSplit
<1>3. PICK l \in BOOLEAN : l = last
  OBVIOUS
<1>4. PICK end \in [DOMAIN orderInfoFifoAck -> DOMAIN bInfoFifo] : Acks(end)
  BY DEF AnswersInStep
<1>5. /\ n \in Nat /\ a \in Nat /\ DOMAIN bInfoFifo = 1 .. n
      /\ DOMAIN orderInfoFifoAck = 1 .. a
      /\ Len(answers) \in Nat /\ DOMAIN answers = 1 .. Len(answers) /\ Len(answers) <= n
  BY DEF WriteTypes, AnswersInStep
<1>6. \A k \in 1 .. a : end[k] \in 1 .. n
  BY <1>4, <1>5
<1>7. CASE ~DoSplit(last)
  <2>1. /\ writeInfoFifo' = writeInfoFifo /\ bInfoFifo' = bInfoFifo /\ answers' = answers
        /\ orderInfoFifoAck' = orderInfoFifoAck
    BY <1>1, <1>2, <1>7
  <2>2. ~wErrFlag => Len(writeBursts') = Len(writeBursts)
    BY <1>1, <1>7 DEF WriteTypes
  <2>3. Acks(end)'
    BY <1>4, <2>1 DEF Acks
  <2>4. end \in [DOMAIN orderInfoFifoAck' -> DOMAIN bInfoFifo']
    BY <2>1
  <2> QED
    BY <1>1, <2>1, <2>2, <2>3, <2>4 DEF AnswersInStep
<1>8. CASE DoSplit(last)
  <2>1. /\ writeInfoFifo' = Tail(writeInfoFifo) /\ bInfoFifo' = Append(bInfoFifo, l)
        /\ orderInfoFifoAck' = IF l THEN Append(orderInfoFifoAck, d) ELSE orderInfoFifoAck
        /\ wErrFlag => answers' = answers
        /\ ~wErrFlag => /\ writeBursts' = Tail(writeBursts)
                        /\ answers' = Append(answers, [driver |-> d, last |-> l])
    BY <1>1, <1>3, <1>8
  <2>2. /\ DOMAIN bInfoFifo' = 1 .. n + 1 /\ Len(bInfoFifo') = n + 1 /\ bInfoFifo'[n + 1] = l
        /\ \A i \in 1 .. n : bInfoFifo'[i] = bInfoFifo[i]
    BY <1>5, <2>1 DEF WriteTypes
  <2>3. ~wErrFlag => Len(writeInfoFifo') = Len(writeBursts')
    <3>1. ~wErrFlag => Len(writeInfoFifo) = Len(writeBursts)
      BY DEF AnswersInStep
    <3> QED
      BY <1>1, <2>1, <3>1 DEF WriteTypes
  <2>4. /\ Len(answers') \in Nat /\ Len(answers') <= n + 1
        /\ ~wErrFlag => Len(answers') = n + 1
        /\ wErrFlag => answers' = answers
        /\ \A i \in DOMAIN answers' : answers'[i].last = bInfoFifo'[i]
        /\ ~wErrFlag => answers'[n + 1].driver = d /\ \A i \in 1 .. n : answers'[i] = answers[i]
    <3>1. CASE wErrFlag
      <4>1. \A i \in DOMAIN answers : i \in 1 .. n
        BY <1>5
      <4> QED
        BY <1>5, <2>1, <2>2, <3>1, <4>1 DEF AnswersInStep
    <3>2. CASE ~wErrFlag
      <4>1. Len(answers) = n /\ DOMAIN answers = 1 .. n
        BY <1>5, <3>2 DEF AnswersInStep
      <4>4. [driver |-> d, last |-> l] \in [driver : Drivers, last : BOOLEAN]
        OBVIOUS
      <4>2. /\ DOMAIN answers' = 1 .. n + 1 /\ Len(answers') = n + 1
            /\ answers'[n + 1] = [driver |-> d, last |-> l]
            /\ \A i \in 1 .. n : answers'[i] = answers[i]
        <5> DEFINE x == [driver |-> d, last |-> l]
        <5>1. answers' = Append(answers, x) /\ x \in [driver : Drivers, last : BOOLEAN]
          BY <2>1, <3>2, <4>4
        <5> HIDE DEF x
        <5>2. /\ DOMAIN answers' = 1 .. n + 1 /\ Len(answers') = n + 1 /\ answers'[n + 1] = x
              /\ \A i \in 1 .. n : answers'[i] = answers[i]
          BY <4>1, <5>1 DEF WriteTypes
        <5> QED
          BY <5>2 DEF x
      <4>3. \A i \in 1 .. n + 1 : answers'[i].last = bInfoFifo'[i]
        <5>1. \A i \in 1 .. n : answers'[i].last = bInfoFifo'[i]
          BY <2>2, <4>1, <4>2 DEF AnswersInStep
        <5>2. answers'[n + 1].last = bInfoFifo'[n + 1]
          BY <2>2, <4>2
        <5>3. \A i \in 1 .. n + 1 : i \in 1 .. n \/ i = n + 1
          BY <1>5
        <5> QED
          BY <5>1, <5>2, <5>3, Zenon
      <4> QED
        BY <1>5, <3>2, <4>2, <4>3
    <3> QED
      BY <3>1, <3>2
  <2>5. PICK end2 : end2 = IF l THEN [k \in 1 .. a + 1 |-> IF k <= a THEN end[k] ELSE n + 1]
                           ELSE end
    OBVIOUS
  <2>6. CASE l
    <3>1. /\ DOMAIN orderInfoFifoAck' = 1 .. a + 1 /\ orderInfoFifoAck'[a + 1] = d
          /\ \A k \in 1 .. a : orderInfoFifoAck'[k] = orderInfoFifoAck[k]
      BY <1>5, <2>1, <2>6 DEF WriteTypes
    <3>2. /\ DOMAIN end2 = 1 .. a + 1 /\ end2[a + 1] = n + 1
          /\ \A k \in 1 .. a : end2[k] = end[k]
      BY <1>5, <2>5, <2>6
    <3>3. \A k \in 1 .. a + 1 : k \in 1 .. a \/ k = a + 1
      BY <1>5
    <3>4. \A k \in 1 .. a + 1 : end2[k] \in 1 .. n + 1
      BY <1>5, <1>6, <3>2, <3>3
    <3>5. end2 \in [1 .. a + 1 -> 1 .. n + 1]
      BY <2>5, <2>6, <3>2, <3>4
    <3>6. \A j, k \in 1 .. a + 1 : j < k => end2[j] < end2[k]
      <4> SUFFICES ASSUME NEW j \in 1 .. a + 1, NEW k \in 1 .. a + 1, j < k
                   PROVE  end2[j] < end2[k]
        OBVIOUS
      <4>1. j \in 1 .. a
        BY <1>5
      <4>2. CASE k = a + 1
        BY <1>5, <1>6, <3>2, <4>1, <4>2
      <4>3. CASE k \in 1 .. a
        BY <1>4, <1>5, <3>2, <4>1, <4>3 DEF Acks
      <4> QED
        BY <3>3, <4>2, <4>3
    <3>7. \A i \in 1 .. n + 1 : bInfoFifo'[i] <=> \E k \in 1 .. a + 1 : end2[k] = i
      <4> SUFFICES ASSUME NEW i \in 1 .. n + 1
                   PROVE  bInfoFifo'[i] <=> \E k \in 1 .. a + 1 : end2[k] = i
        OBVIOUS
      <4>1. CASE i = n + 1
        <5>1. a + 1 \in 1 .. a + 1
          BY <1>5
        <5>2. bInfoFifo'[i] = TRUE
          BY <2>2, <2>6, <4>1, Zenon
        <5> QED
          BY <3>2, <4>1, <5>1, <5>2, Zenon
      <4>2. CASE i \in 1 .. n
        <5>1. bInfoFifo[i] <=> \E k \in 1 .. a : end[k] = i
          BY <1>4, <1>5, <4>2 DEF Acks
        <5>2. \A k \in 1 .. a : k \in 1 .. a + 1
          BY <1>5
        <5>3. n + 1 # i
          BY <1>5, <4>2
        <5>4. (\E k \in 1 .. a : end[k] = i) <=> \E k \in 1 .. a + 1 : end2[k] = i
          BY <3>2, <3>3, <5>2, <5>3
        <5> QED
          BY <2>2, <4>2, <5>1, <5>4
      <4> QED
        BY <1>5, <4>1, <4>2
    <3>8. \A k \in 1 .. a + 1 :
             end2[k] <= Len(answers') => orderInfoFifoAck'[k] = answers'[end2[k]].driver
      <4> SUFFICES ASSUME NEW k \in 1 .. a + 1, end2[k] <= Len(answers')
                   PROVE  orderInfoFifoAck'[k] = answers'[end2[k]].driver
        OBVIOUS
      <4>1. CASE k = a + 1
        <5>1. ~wErrFlag
          BY <1>5, <2>4, <3>2, <4>1
        <5> QED
          BY <2>4, <3>1, <3>2, <4>1, <5>1
      <4>2. CASE k \in 1 .. a
        <5>1. end[k] \in 1 .. n /\ end2[k] = end[k]
          BY <1>6, <3>2, <4>2
        <5>2. end[k] <= Len(answers) /\ answers'[end[k]] = answers[end[k]]
          <6>1. CASE wErrFlag
            BY <2>4, <5>1, <6>1
          <6>2. CASE ~wErrFlag
            <7>1. Len(answers) = n
              BY <6>2 DEF AnswersInStep
            <7> QED
              BY <1>5, <2>4, <5>1, <6>2, <7>1
          <6> QED
            BY <6>1, <6>2
        <5>3. orderInfoFifoAck[k] = answers[end[k]].driver
          BY <1>4, <1>5, <4>2, <5>2 DEF Acks
        <5> QED
          BY <3>1, <4>2, <5>1, <5>2, <5>3
      <4> QED
        BY <3>3, <4>1, <4>2
    <3>9. Acks(end2)'
      BY <2>2, <3>1, <3>5, <3>6, <3>7, <3>8, Zenon DEF Acks
    <3>10. end2 \in [DOMAIN orderInfoFifoAck' -> DOMAIN bInfoFifo']
      BY <2>2, <3>1, <3>5
    <3> QED
      BY <1>1, <2>2, <2>3, <2>4, <3>9, <3>10 DEF AnswersInStep
  <2>7. CASE ~l
    <3>1. orderInfoFifoAck' = orderInfoFifoAck /\ end2 = end
      BY <2>1, <2>5, <2>7
    <3>2. (\A i \in 1 .. n : i \in 1 .. n + 1) /\ (\A i \in 1 .. n + 1 : i \in 1 .. n \/ i = n + 1)
      BY <1>5
    <3>3. end \in [1 .. a -> 1 .. n + 1]
      BY <1>4, <1>5, <3>2
    <3>4. \A i \in 1 .. n + 1 : bInfoFifo'[i] <=> \E k \in 1 .. a : end[k] = i
      <4> SUFFICES ASSUME NEW i \in 1 .. n + 1
                   PROVE  bInfoFifo'[i] <=> \E k \in 1 .. a : end[k] = i
        OBVIOUS
      <4>1. CASE i = n + 1
        BY <1>5, <1>6, <2>2, <2>7, <4>1
      <4>2. CASE i \in 1 .. n
        BY <1>4, <1>5, <2>2, <4>2 DEF Acks
      <4> QED
        BY <3>2, <4>1, <4>2
    <3>5. \A k \in 1 .. a :
             end[k] <= Len(answers') => orderInfoFifoAck[k] = answers'[end[k]].driver
      <4> SUFFICES ASSUME NEW k \in 1 .. a, end[k] <= Len(answers')
                   PROVE  orderInfoFifoAck[k] = answers'[end[k]].driver
        OBVIOUS
      <4>1. end[k] <= Len(answers) /\ answers'[end[k]] = answers[end[k]]
        <5>1. CASE wErrFlag
          BY <2>4, <5>1
        <5>2. CASE ~wErrFlag
          <6>1. Len(answers) = n
            BY <5>2 DEF AnswersInStep
          <6> QED
            BY <1>5, <1>6, <2>4, <5>2, <6>1
        <5> QED
          BY <5>1, <5>2
      <4> QED
        BY <1>4, <1>5, <4>1 DEF Acks
    <3>6. Acks(end)'
      BY <1>4, <1>5, <2>2, <3>1, <3>3, <3>4, <3>5 DEF Acks
    <3>7. end \in [DOMAIN orderInfoFifoAck' -> DOMAIN bInfoFifo']
      BY <1>5, <2>2, <3>1, <3>3
    <3> QED
      BY <1>1, <2>2, <2>3, <2>4, <3>6, <3>7 DEF AnswersInStep
  <2> QED
    BY <2>6, <2>7
<1> QED
  BY <1>7, <1>8

\* The first answer is taken; whoever it acknowledges is the driver of the first of answers.
LEMMA ResponseKeepsAnswers ==
    ASSUME WriteTypes, AnswersInStep, NEW bad \in BOOLEAN, Response(bad)
    PROVE  /\ AnswersInStep'
           /\ Head(answers).last = Head(bInfoFifo)
           /\ Head(bInfoFifo) => Head(orderInfoFifoAck) = Head(answers).driver
<1>14. PICK n \in Nat, a \in Nat, z \in Nat :
           n = Len(bInfoFifo) /\ a = Len(orderInfoFifoAck) /\ z = Len(answers)
  BY DEF WriteTypes
<1>15. bInfoFifo # <<>>
  BY ResponseDoes
<1>16. PICK h \in BOOLEAN : h = Head(bInfoFifo)
  BY <1>15 DEF WriteTypes
<1>1. /\ answers # <<>> /\ bInfoFifo # <<>> /\ orderInfoFifoAck # <<>>
      /\ answers' = Tail(answers)
      /\ bInfoFifo' = Tail(bInfoFifo)
      /\ orderInfoFifoAck' = IF h THEN Tail(orderInfoFifoAck) ELSE orderInfoFifoAck
      /\ wErrFlag' = (wErrFlag \/ bad)
      /\ UNCHANGED <<writeInfoFifo, writeBursts>>
  BY <1>16, ResponseDoes
<1>2. PICK end \in [DOMAIN orderInfoFifoAck -> DOMAIN bInfoFifo] : Acks(end)
  BY DEF AnswersInStep
<1>3. /\ n > 0 /\ a > 0 /\ DOMAIN bInfoFifo = 1 .. n
      /\ DOMAIN orderInfoFifoAck = 1 .. a
      /\ z > 0 /\ DOMAIN answers = 1 .. z
      /\ z <= n
      /\ h = bInfoFifo[1]
      /\ Head(answers) = answers[1] /\ Head(orderInfoFifoAck) = orderInfoFifoAck[1]
  <2>1. n > 0 /\ DOMAIN bInfoFifo = 1 .. n /\ h = bInfoFifo[1]
    BY <1>1, <1>14, <1>16 DEF WriteTypes
  <2>2. /\ a > 0 /\ DOMAIN orderInfoFifoAck = 1 .. a
        /\ Head(orderInfoFifoAck) = orderInfoFifoAck[1]
    BY <1>1, <1>14 DEF WriteTypes
  <2>3. z > 0 /\ DOMAIN answers = 1 .. z /\ Head(answers) = answers[1]
    BY <1>1, <1>14 DEF WriteTypes
  <2>4. z <= n
    BY <1>14 DEF AnswersInStep
  <2> QED
    BY <2>1, <2>2, <2>3, <2>4
<1>4. /\ \A j, k \in 1 .. a : j < k => end[j] < end[k]
      /\ \A k \in 1 .. a : end[k] \in 1 .. n
      /\ \A i \in 1 .. n : bInfoFifo[i] <=> \E k \in 1 .. a : end[k] = i
      /\ \A k \in 1 .. a : end[k] <= z =>
            orderInfoFifoAck[k] = answers[end[k]].driver
  BY <1>2, <1>3, <1>14 DEF Acks
<1>5. answers[1].last = h
  BY <1>3 DEF AnswersInStep
<1>6. h => end[1] = 1
  <2>1. ASSUME h
        PROVE  end[1] = 1
    <3>1. 1 \in 1 .. n /\ 1 \in 1 .. a
      BY <1>3
    <3>2. PICK k \in 1 .. a : end[k] = 1
      BY <1>3, <1>4, <2>1, <3>1
    <3>3. 1 < k => end[1] < end[k]
      BY <1>4, <3>1
    <3>4. end[1] \in 1 .. n
      BY <1>4, <3>1
    <3> QED
      BY <1>3, <3>2, <3>3, <3>4
  <2> QED
    BY <2>1
<1>7. h => orderInfoFifoAck[1] = answers[1].driver
  BY <1>3, <1>4, <1>6
<1>8. /\ DOMAIN bInfoFifo' = 1 .. n - 1 /\ Len(bInfoFifo') = n - 1
      /\ \A i \in 1 .. n - 1 : bInfoFifo'[i] = bInfoFifo[i + 1]
  BY <1>1, <1>14 DEF WriteTypes
<1>9. /\ Len(answers') = z - 1 /\ DOMAIN answers' = 1 .. z - 1
      /\ \A i \in 1 .. z - 1 : answers'[i] = answers[i + 1]
  BY <1>1, <1>14 DEF WriteTypes
<1>10. \A i \in DOMAIN answers' : answers'[i].last = bInfoFifo'[i]
  <2> SUFFICES ASSUME NEW i \in DOMAIN answers'
               PROVE  answers'[i].last = bInfoFifo'[i]
    OBVIOUS
  <2>1. i \in 1 .. z - 1 /\ i + 1 \in 1 .. z /\ i \in 1 .. n - 1
    BY <1>3, <1>9
  <2>2. answers[i + 1].last = bInfoFifo[i + 1]
    BY <1>3, <2>1 DEF AnswersInStep
  <2> QED
    BY <1>8, <1>9, <2>1, <2>2
<1>11. /\ Len(answers') <= Len(bInfoFifo')
       /\ ~wErrFlag' => /\ Len(answers') = Len(bInfoFifo')
                        /\ Len(writeInfoFifo') = Len(writeBursts')
  <2>1. ~wErrFlag' => ~wErrFlag
    BY <1>1, Zenon
  <2>2. ~wErrFlag => z = n /\ Len(writeInfoFifo') = Len(writeBursts')
    BY <1>1, <1>14 DEF AnswersInStep
  <2> QED
    BY <1>3, <1>8, <1>9, <2>1, <2>2
<1>12. \E end2 \in [DOMAIN orderInfoFifoAck' -> DOMAIN bInfoFifo'] : Acks(end2)'
  <2>1. PICK c \in Nat : c = IF h THEN 1 ELSE 0
    <3>1. (IF h THEN 1 ELSE 0) \in Nat
      BY <1>3
    <3> QED
      BY <3>1
  <2>2. PICK p \in Nat : p = a - c
    BY <1>3, <2>1
  <2>3. /\ DOMAIN orderInfoFifoAck' = 1 .. p
        /\ \A k \in 1 .. p : k + c \in 1 .. a /\ orderInfoFifoAck'[k] = orderInfoFifoAck[k + c]
    <3>1. CASE h
      <4>1. orderInfoFifoAck' = Tail(orderInfoFifoAck) /\ c = 1 /\ p = a - 1
        BY <1>1, <2>1, <2>2, <3>1
      <4> QED
        BY <1>1, <1>14, <4>1 DEF WriteTypes
    <3>2. CASE ~h
      <4>1. orderInfoFifoAck' = orderInfoFifoAck /\ c = 0 /\ p = a
        BY <1>1, <1>3, <2>1, <2>2, <3>2
      <4> QED
        BY <1>3, <4>1
    <3> QED
      BY <3>1, <3>2
  <2>4. PICK end2 : end2 = [k \in 1 .. p |-> end[k + c] - 1]
    OBVIOUS
  \* the answers of those that stay are later ones
  <2>5. \A k \in 1 .. p : end[k + c] \in 2 .. n
    <3> SUFFICES ASSUME NEW k \in 1 .. p
                 PROVE  end[k + c] \in 2 .. n
      OBVIOUS
    <3>1. k + c \in 1 .. a /\ end[k + c] \in 1 .. n /\ 1 \in 1 .. a /\ 1 \in 1 .. n
      BY <1>3, <1>4, <2>3
    <3>2. end[k + c] # 1
      <4>1. CASE h
        <5>1. 1 < k + c
          BY <2>1, <4>1
        <5> QED
          BY <1>3, <1>4, <1>6, <3>1, <4>1, <5>1
      <4>2. CASE ~h
        BY <1>3, <1>4, <3>1, <4>2
      <4> QED
        BY <4>1, <4>2
    <3> QED
      BY <3>1, <3>2
  <2>6. \A k \in 1 .. p : end2[k] \in 1 .. n - 1 /\ end2[k] + 1 = end[k + c]
    <3> SUFFICES ASSUME NEW k \in 1 .. p
                 PROVE  end2[k] \in 1 .. n - 1 /\ end2[k] + 1 = end[k + c]
      OBVIOUS
    <3>1. end2[k] = end[k + c] - 1 /\ end[k + c] \in 2 .. n
      BY <2>4, <2>5
    <3>2. \A e \in 2 .. n : e - 1 \in 1 .. n - 1 /\ (e - 1) + 1 = e
      OBVIOUS
    <3> QED
      BY <3>1, <3>2
  <2>7. end2 \in [1 .. p -> 1 .. n - 1]
    BY <2>4, <2>6
  <2>8. \A j, k \in 1 .. p : j < k => end2[j] < end2[k]
    <3> SUFFICES ASSUME NEW j \in 1 .. p, NEW k \in 1 .. p, j < k
                 PROVE  end2[j] < end2[k]
      OBVIOUS
    <3>1. end[j + c] < end[k + c]
      BY <1>4, <2>1, <2>3
    <3>2. end2[j] \in Int /\ end2[k] \in Int /\ end2[j] + 1 < end2[k] + 1
      BY <2>6, <3>1
    <3> QED
      BY <3>2
  <2>9. \A i \in 1 .. n - 1 : bInfoFifo'[i] <=> \E k \in 1 .. p : end2[k] = i
    <3> SUFFICES ASSUME NEW i \in 1 .. n - 1
                 PROVE  bInfoFifo'[i] <=> \E k \in 1 .. p : end2[k] = i
      OBVIOUS
    <3>1. i + 1 \in 1 .. n /\ i \in Nat /\ bInfoFifo'[i] = bInfoFifo[i + 1]
      BY <1>3, <1>8
    <3>2. bInfoFifo[i + 1] <=> \E k \in 1 .. a : end[k] = i + 1
      BY <1>4, <3>1
    <3>3. ASSUME NEW k \in 1 .. a, end[k] = i + 1
          PROVE  \E j \in 1 .. p : end2[j] = i
      <4>1. k - c \in 1 .. p
        <5>1. h => k # 1
          BY <1>3, <1>6, <3>1, <3>3
        <5> QED
          BY <1>3, <2>1, <2>2, <5>1
      <4>2. (k - c) + c = k
        BY <2>1
      <4>3. end2[k - c] + 1 = i + 1 /\ end2[k - c] \in Int
        BY <2>6, <3>3, <4>1, <4>2
      <4> QED
        BY <3>1, <4>1, <4>3
    <3>4. ASSUME NEW k \in 1 .. p, end2[k] = i
          PROVE  \E j \in 1 .. a : end[j] = i + 1
      BY <2>3, <2>6, <3>4
    <3> QED
      BY <3>1, <3>2, <3>3, <3>4
  <2>10. \A k \in 1 .. p :
            end2[k] <= Len(answers') => orderInfoFifoAck'[k] = answers'[end2[k]].driver
    <3> SUFFICES ASSUME NEW k \in 1 .. p, end2[k] <= Len(answers')
                 PROVE  orderInfoFifoAck'[k] = answers'[end2[k]].driver
      OBVIOUS
    <3>1. /\ end2[k] \in 1 .. z - 1 /\ end[k + c] <= z
          /\ end2[k] + 1 = end[k + c]
      BY <1>3, <1>9, <2>6
    <3>2. orderInfoFifoAck[k + c] = answers[end[k + c]].driver
      BY <1>4, <2>3, <3>1
    <3> QED
      BY <1>9, <2>3, <3>1, <3>2
  <2>11. Acks(end2)'
    BY <1>8, <2>3, <2>7, <2>8, <2>9, <2>10, Zenon DEF Acks
  <2>12. end2 \in [DOMAIN orderInfoFifoAck' -> DOMAIN bInfoFifo']
    BY <1>8, <2>3, <2>7
  <2> QED
    BY <2>11, <2>12
<1>13. AnswersInStep'
  BY <1>10, <1>11, <1>12 DEF AnswersInStep
<1> QED
  BY <1>3, <1>5, <1>7, <1>13, <1>16

\* A step that leaves answers, acknowledges and their information alone.
LEMMA OtherKeepsAnswers ==
    ASSUME WriteTypes, AnswersInStep,
           UNCHANGED <<bInfoFifo, answers, orderInfoFifoAck>>,
           wErrFlag => wErrFlag',
           Len(writeInfoFifo) = Len(writeBursts) => Len(writeInfoFifo') = Len(writeBursts')
    PROVE  AnswersInStep'
<1>1. PICK end \in [DOMAIN orderInfoFifoAck -> DOMAIN bInfoFifo] : Acks(end)
  BY DEF AnswersInStep
<1>2. Acks(end)' /\ end \in [DOMAIN orderInfoFifoAck' -> DOMAIN bInfoFifo']
  BY <1>1 DEF Acks
<1> QED
  BY <1>2 DEF AnswersInStep

---------------------------------------------------------------------------
(* Writes: the inductive invariant *)

\* Appending to a queue and taking from it keep the type of its elements.
LEMMA QueueSteps ==
    ASSUME NEW S, NEW s \in Seq(S), NEW e \in S
    PROVE  Append(s, e) \in Seq(S) /\ (s # <<>> => Tail(s) \in Seq(S))
  OBVIOUS

\* Taking from a queue keeps its type.
LEMMA TailStep ==
    ASSUME NEW S, NEW s \in Seq(S), s # <<>>
    PROVE  Tail(s) \in Seq(S)
  OBVIOUS

\* At power-up everything is empty.
LEMMA InitWriteInv == Init => WriteInv
<1> SUFFICES ASSUME Init PROVE WriteInv
  OBVIOUS
<1>1. RequestTypes
  BY InitReadInv DEF ReadInv
<1>2. /\ writeInfoFifo = <<>> /\ bInfoFifo = <<>> /\ wWordCntr = 0 /\ wErrFlag = FALSE
      /\ writeBursts = <<>> /\ answers = <<>> /\ orderInfoFifoW = <<>>
      /\ orderInfoFifoAck = <<>> /\ sending = [d \in Drivers |-> <<>>]
      /\ transPartPending = FALSE
  BY DEF Init, WInit, WriteInit, RequestInit, SplitInit
<1>3. WriteTypes
  <2>1. sending \in [Drivers -> Seq(BurstRecord)]
    BY <1>2
  <2>2. \A S : <<>> \in Seq(S)
    OBVIOUS
  <2>3. /\ writeInfoFifo \in Seq({"burst"}) /\ bInfoFifo \in Seq(BOOLEAN)
        /\ writeBursts \in Seq(BurstRecord)
        /\ answers \in Seq([driver : Drivers, last : BOOLEAN])
        /\ orderInfoFifoW \in Seq(Drivers) /\ orderInfoFifoAck \in Seq(Drivers)
    BY <1>2, <2>2, Zenon
  <2> QED
    BY <1>2, <2>1, <2>3 DEF WriteTypes
<1>4. /\ DOMAIN orderInfoFifoW = {} /\ DOMAIN orderInfoFifoAck = {} /\ DOMAIN bInfoFifo = {}
      /\ DOMAIN answers = {} /\ DOMAIN writeBursts = {}
      /\ \A d \in Drivers : DOMAIN sending[d] = {}
      /\ Len(writeBursts) = 0 /\ Len(answers) = 0 /\ Len(bInfoFifo) = 0
      /\ Len(writeInfoFifo) = 0 /\ Len(orderInfoFifoW) = 0
  BY <1>2
<1>5. AnswersInStep
  <2> DEFINE none == [k \in {} |-> 0]
  <2>1. none \in [DOMAIN orderInfoFifoAck -> DOMAIN bInfoFifo]
    BY <1>4
  <2> HIDE DEF none
  <2>2. Acks(none)
    BY <1>4, <2>1 DEF Acks
  <2>3. \E end \in [DOMAIN orderInfoFifoAck -> DOMAIN bInfoFifo] : Acks(end)
    BY <2>1, <2>2, Zenon
  <2>4. Len(answers) <= Len(bInfoFifo) /\ Len(answers) = Len(bInfoFifo)
        /\ Len(writeInfoFifo) = Len(writeBursts)
    BY <1>4
  <2> QED
    BY <1>4, <2>3, <2>4, Zenon DEF AnswersInStep
<1>6. BurstsInStep
  <2> DEFINE none == [k \in {} |-> 0]
  <2>1. none \in [DOMAIN orderInfoFifoW -> UNION {DOMAIN sending[d] : d \in Drivers}]
    BY <1>4
  <2>2. Tasks = 0
    BY <1>2, <1>4 DEF Tasks
  <2>3. none \in [DOMAIN writeBursts -> 1 .. Tasks]
    BY <1>4
  <2>7. \A i \in 1 .. 0 : FALSE
    OBVIOUS
  <2>8. \A i \in 1 .. 0 - 1 : FALSE
    OBVIOUS
  <2> HIDE DEF none
  <2>4. Ranks(none)
    BY <1>4, <2>1 DEF Ranks
  <2>5. Cut(Task(none), none)
    BY <1>2, <1>4, <2>2, <2>3, <2>7, <2>8 DEF Cut
  <2> QED
    BY <2>1, <2>3, <2>4, <2>5 DEF BurstsInStep
<1> QED
  BY <1>1, <1>3, <1>5, <1>6, InitOneIsSplit DEF WriteInv

\* The types after a word; that sizes stay numbers follows from the bursts being in step.
LEMMA WordTypes ==
    ASSUME RequestTypes, WriteTypes, OneIsSplit, BurstsInStep, NEW d \in Drivers, Word(d)
    PROVE  WriteTypes'
<1> DEFINE q == Head(sending[d])
           last == q.len = 0
<1>1. /\ orderInfoFifoW # <<>>
      /\ writeBursts # <<>> /\ writeInfoFifo # <<>>
      /\ writeInfoFifo' = IF DoSplit(last) THEN Tail(writeInfoFifo) ELSE writeInfoFifo
      /\ bInfoFifo' = IF DoSplit(last) THEN Append(bInfoFifo, last) ELSE bInfoFifo
      /\ wWordCntr' = NextWWordCntr(last)
      /\ wErrFlag => UNCHANGED <<writeBursts, answers>>
      /\ ~wErrFlag /\ DoSplit(last) =>
            answers' = Append(answers, [driver |-> d, last |-> last])
      /\ ~wErrFlag /\ ~DoSplit(last) => answers' = answers
      /\ sending' = [sending EXCEPT ![d] =
                       IF last THEN Tail(@)
                       ELSE <<[addr |-> q.addr + 1, len |-> q.len - 1]>> \o Tail(@)]
      /\ orderInfoFifoW' = IF last THEN Tail(orderInfoFifoW) ELSE orderInfoFifoW
      /\ orderInfoFifoAck' = IF last THEN Append(orderInfoFifoAck, d) ELSE orderInfoFifoAck
      /\ wErrFlag' = wErrFlag
  BY WordDoes
<1>2. /\ sending[d] # <<>>
      /\ ~wErrFlag => writeBursts' \in Seq(BurstRecord) /\ wWordCntr' \in Nat
  BY WordKeepsBursts
<1>3. writeBursts' \in Seq(BurstRecord) /\ wWordCntr' \in Nat
  BY <1>1, <1>2 DEF WriteTypes, NextWWordCntr
<1>4. sending[d] \in Seq(BurstRecord) /\ q \in BurstRecord
  BY <1>2 DEF WriteTypes
<1>5. q.addr \in Int /\ q.len \in Nat
  BY <1>4 DEF BurstRecord
<1>6. (IF last THEN Tail(sending[d])
       ELSE <<[addr |-> q.addr + 1, len |-> q.len - 1]>> \o Tail(sending[d])) \in Seq(BurstRecord)
  <2>1. Tail(sending[d]) \in Seq(BurstRecord)
    BY <1>2, <1>4
  <2>2. ~last => [addr |-> q.addr + 1, len |-> q.len - 1] \in BurstRecord
    BY <1>5 DEF BurstRecord
  <2> HIDE DEF q
  <2>3. ~last => <<[addr |-> q.addr + 1, len |-> q.len - 1]>> \in Seq(BurstRecord)
    BY <2>2
  <2> QED
    BY <2>1, <2>3
<1>7. sending' \in [Drivers -> Seq(BurstRecord)]
  BY <1>1, <1>6 DEF WriteTypes
<1>8. PICK l \in BOOLEAN : l = last
  OBVIOUS
<1>9. writeInfoFifo' \in Seq({"burst"}) /\ bInfoFifo' \in Seq(BOOLEAN)
  <2>1. /\ writeInfoFifo' = Tail(writeInfoFifo) \/ writeInfoFifo' = writeInfoFifo
        /\ bInfoFifo' = Append(bInfoFifo, l) \/ bInfoFifo' = bInfoFifo
    BY <1>1, <1>8
  <2>2. "burst" \in {"burst"} /\ writeInfoFifo \in Seq({"burst"}) /\ bInfoFifo \in Seq(BOOLEAN)
    BY DEF WriteTypes
  <2> QED
    BY <1>1, <2>1, <2>2, QueueSteps, Zenon
<1>10. answers' \in Seq([driver : Drivers, last : BOOLEAN])
  <2>1. [driver |-> d, last |-> l] \in [driver : Drivers, last : BOOLEAN]
    OBVIOUS
  <2>2. answers' = Append(answers, [driver |-> d, last |-> l]) \/ answers' = answers
    BY <1>1, <1>8
  <2>3. answers \in Seq([driver : Drivers, last : BOOLEAN])
    BY DEF WriteTypes
  <2> QED
    BY <2>1, <2>2, <2>3, QueueSteps, Zenon
<1>11. orderInfoFifoW' \in Seq(Drivers) /\ orderInfoFifoAck' \in Seq(Drivers)
  <2>1. /\ orderInfoFifoW' = Tail(orderInfoFifoW) \/ orderInfoFifoW' = orderInfoFifoW
        /\ orderInfoFifoAck' = Append(orderInfoFifoAck, d) \/ orderInfoFifoAck' = orderInfoFifoAck
    BY <1>1
  <2> QED
    BY <1>1, <2>1 DEF WriteTypes
<1> QED
  BY <1>1, <1>3, <1>7, <1>9, <1>10, <1>11 DEF WriteTypes

WriteState == WriteTypes /\ OneIsSplit /\ AnswersInStep /\ BurstsInStep

\* One lemma for each action of the write side.
LEMMA OfferKeepsState ==
    ASSUME ~COMPETING, RequestTypes, WriteState, NEW d \in Drivers, WOffer(d)
    PROVE  WriteState'
<1> USE DEF WriteState
<1>1. UNCHANGED <<writeVars, orderInfoFifoW, orderInfoFifoAck, sending>> /\ Offer(d)
  BY DEF WOffer
<1>2. WriteTypes'
  BY <1>1 DEF WriteTypes, writeVars
<1>3. AnswersInStep'
  BY <1>1, OtherKeepsAnswers DEF writeVars
<1> QED
  BY <1>1, <1>2, <1>3, OfferKeepsOne, OfferKeepsBursts

\* A part of a request is sent.
LEMMA DispatchKeepsState ==
    ASSUME RequestTypes, WriteState, NEW d \in Drivers, WDispatch(d)
    PROVE  WriteState'
<1> DEFINE q == req[d]
<1>1. /\ WriteTypes /\ OneIsSplit /\ AnswersInStep /\ BurstsInStep
  BY DEF WriteState
<1>2. /\ ~wErrFlag /\ Selected(d) /\ SendPart(q)
      /\ req' = IF Splits(q) THEN req ELSE [req EXCEPT ![d] = NoReq]
      /\ writeBursts' = Append(writeBursts, Burst(q))
      /\ writeInfoFifo' = Append(writeInfoFifo, "burst")
      /\ orderInfoFifoW' = IF Splits(q) THEN orderInfoFifoW ELSE Append(orderInfoFifoW, d)
      /\ sending' = IF Splits(q) THEN sending ELSE [sending EXCEPT ![d] = Append(@, q)]
      /\ UNCHANGED <<bInfoFifo, wWordCntr, wErrFlag, answers, orderInfoFifoAck, direction>>
  BY <1>1, WDispatchDoes
<1>3. Burst(q) \in BurstRecord /\ q \in BurstRecord
  <2>1. req' = NextReq(d, ~Splits(q))
    BY <1>2 DEF NextReq
  <2>2. Burst(q) \in BurstRecord
    BY <1>2, <2>1, SendTypes
  <2>3. q \in Requests
    BY <1>2, Selecting
  <2> QED
    BY <2>2, <2>3, RequestAssumption DEF BurstRecord
<1>4. WriteTypes'
  <2> HIDE DEF q
  <2>1. sending' \in [Drivers -> Seq(BurstRecord)]
    BY <1>1, <1>2, <1>3 DEF WriteTypes
  <2>2. writeBursts' \in Seq(BurstRecord) /\ writeInfoFifo' \in Seq({"burst"})
    BY <1>1, <1>2, <1>3 DEF WriteTypes
  <2>3. orderInfoFifoW' \in Seq(Drivers)
    BY <1>1, <1>2 DEF WriteTypes
  <2> QED
    BY <1>1, <1>2, <2>1, <2>2, <2>3 DEF WriteTypes
<1>5. OneIsSplit'
  BY <1>1, <1>2, SendKeepsOne
<1>6. AnswersInStep'
  <2>1. /\ Len(writeInfoFifo') = Len(writeInfoFifo) + 1
        /\ Len(writeBursts') = Len(writeBursts) + 1
    BY <1>1, <1>2 DEF WriteTypes
  <2> QED
    BY <1>1, <1>2, <2>1, OtherKeepsAnswers
<1>7. BurstsInStep'
  BY <1>1, DispatchKeepsBursts
<1> QED
  BY <1>4, <1>5, <1>6, <1>7 DEF WriteState

\* A word is sent.
LEMMA WordKeepsState ==
    ASSUME RequestTypes, WriteState, NEW d \in Drivers, Word(d)
    PROVE  WriteState'
<1> USE DEF WriteState
<1>1. req' = req /\ transPartPending' = transPartPending
  BY DEF Word, requestVars, splitVars
<1>2. OneIsSplit'
  BY <1>1 DEF OneIsSplit, Long
<1> QED
  BY <1>2, WordTypes, WordKeepsAnswers, WordKeepsBursts

\* An answer is taken.
LEMMA ResponseKeepsState ==
    ASSUME RequestTypes, WriteState, NEW bad \in BOOLEAN, Response(bad)
    PROVE  WriteState'
<1>1. /\ WriteTypes /\ OneIsSplit /\ AnswersInStep /\ BurstsInStep
  BY DEF WriteState
<1>2. /\ answers # <<>> /\ bInfoFifo # <<>> /\ orderInfoFifoAck # <<>>
      /\ answers' = Tail(answers) /\ bInfoFifo' = Tail(bInfoFifo)
      /\ orderInfoFifoAck' = IF Head(bInfoFifo) THEN Tail(orderInfoFifoAck)
                             ELSE orderInfoFifoAck
      /\ wErrFlag' = (wErrFlag \/ bad)
      /\ UNCHANGED <<requestVars, writeInfoFifo, wWordCntr, writeBursts, orderInfoFifoW,
                     sending>>
  BY <1>1, ResponseDoes
<1>3. wErrFlag' \in BOOLEAN /\ (wErrFlag => wErrFlag')
  BY <1>1, <1>2 DEF WriteTypes
<1>4. orderInfoFifoAck' \in Seq(Drivers)
  <2>1. orderInfoFifoAck' = Tail(orderInfoFifoAck) \/ orderInfoFifoAck' = orderInfoFifoAck
    BY <1>2
  <2>2. orderInfoFifoAck \in Seq(Drivers)
    BY <1>1 DEF WriteTypes
  <2> QED
    BY <1>2, <2>1, <2>2, TailStep, Zenon
<1>5. answers' \in Seq([driver : Drivers, last : BOOLEAN]) /\ bInfoFifo' \in Seq(BOOLEAN)
  <2>1. answers \in Seq([driver : Drivers, last : BOOLEAN]) /\ bInfoFifo \in Seq(BOOLEAN)
    BY <1>1 DEF WriteTypes
  <2> QED
    BY <1>2, <2>1, TailStep, Zenon
<1>6. WriteTypes'
  BY <1>1, <1>2, <1>3, <1>4, <1>5 DEF WriteTypes
<1>7. /\ req' = req /\ transPartPending' = transPartPending
      /\ SplitRequest' = SplitRequest /\ UNCHANGED splitVars
  BY <1>2 DEF requestVars, splitVars, SplitRequest, Long
<1>8. OneIsSplit'
  BY <1>1, <1>7 DEF OneIsSplit, Long
<1>9. BurstsInStep'
  BY <1>1, <1>2, <1>3, <1>7, OtherKeepsBursts
<1> QED
  BY <1>1, <1>6, <1>8, <1>9, ResponseKeepsAnswers DEF WriteState

\* An error is seen.
LEMMA BadAnswerKeepsState ==
    ASSUME RequestTypes, WriteState, BadWriteAnswer
    PROVE  WriteState'
<1>1. /\ WriteTypes /\ OneIsSplit /\ AnswersInStep /\ BurstsInStep
  BY DEF WriteState
<1>2. /\ wErrFlag' = TRUE
      /\ UNCHANGED <<requestVars, writeInfoFifo, bInfoFifo, wWordCntr, writeBursts, answers,
                     orderInfoFifoW, orderInfoFifoAck, sending>>
  BY DEF BadWriteAnswer, SeeWriteError
<1>3. /\ req' = req /\ transPartPending' = transPartPending
      /\ SplitRequest' = SplitRequest /\ UNCHANGED splitVars
  BY <1>2 DEF requestVars, splitVars, SplitRequest, Long
<1>4. WriteTypes'
  BY <1>1, <1>2 DEF WriteTypes
<1>5. OneIsSplit'
  BY <1>1, <1>3 DEF OneIsSplit, Long
<1>6. AnswersInStep'
  BY <1>1, <1>2, OtherKeepsAnswers
<1>7. BurstsInStep'
  BY <1>1, <1>2, <1>3, OtherKeepsBursts
<1> QED
  BY <1>4, <1>5, <1>6, <1>7 DEF WriteState

\* The direction is chosen once.
LEMMA DirectionStays == [Next]_vars => direction' = direction
<1> SUFFICES ASSUME [Next]_vars PROVE direction' = direction
  OBVIOUS
<1>1. ASSUME NEW d \in Drivers, ROffer(d) \/ RDispatch(d) \/ WOffer(d) \/ WDispatch(d)
      PROVE  direction' = direction
  BY <1>1 DEF ROffer, RDispatch, WOffer, WDispatch, Offer
<1>2. CASE RNext
  BY <1>1, <1>2 DEF RNext, Beat, BadAnswer, requestVars
<1>3. CASE WNext
  BY <1>1, <1>3 DEF WNext, Word, Response, BadWriteAnswer, requestVars
<1>4. CASE UNCHANGED vars
  BY <1>4 DEF vars, requestVars
<1> QED
  BY <1>2, <1>3, <1>4 DEF Next

\* Every step of the composition keeps the write side in step.
LEMMA NextWriteInv ==
    ASSUME ~COMPETING
    PROVE  ReadInv /\ WriteInv /\ [Next]_vars => WriteInv'
<1> SUFFICES ASSUME ReadInv, WriteInv, [Next]_vars PROVE WriteInv'
  OBVIOUS
<1>1. RequestTypes /\ WriteTypes
  BY DEF WriteInv
<1>2. RequestTypes'
  BY NextReadInv DEF ReadInv
<1>3. direction' = direction
  BY DirectionStays
<1>4. CASE UNCHANGED wVars /\ (RNext \/ UNCHANGED vars)
  <2>1. WriteTypes'
    BY <1>1, <1>4 DEF WriteTypes, wVars, writeVars
  <2>2. CASE direction # "write"
    BY <1>2, <1>3, <2>1, <2>2 DEF WriteInv
  <2>3. CASE direction = "write"
    <3>1. UNCHANGED vars
      BY <1>4, <2>3 DEF RNext
    <3>2. /\ UNCHANGED <<writeInfoFifo, bInfoFifo, wWordCntr, wErrFlag, writeBursts, answers,
                         orderInfoFifoW, orderInfoFifoAck, sending, req, transPartPending>>
          /\ UNCHANGED splitVars
      BY <3>1 DEF vars, wVars, writeVars, requestVars, splitVars
    <3>3. SplitRequest' = SplitRequest
      BY <3>2 DEF SplitRequest, Long
    <3>4. OneIsSplit /\ AnswersInStep /\ BurstsInStep
      BY <2>3 DEF WriteInv
    <3>5. OneIsSplit'
      BY <3>2, <3>4 DEF OneIsSplit, Long
    <3>6. AnswersInStep'
      BY <1>1, <3>2, <3>4, OtherKeepsAnswers
    <3>7. BurstsInStep'
      BY <1>1, <3>2, <3>3, <3>4, OtherKeepsBursts
    <3> QED
      BY <1>2, <2>1, <3>5, <3>6, <3>7 DEF WriteInv
  <2> QED
    BY <2>2, <2>3
<1>5. CASE WNext
  <2>1. WriteState
    BY <1>5 DEF WNext, WriteInv, WriteState
  <2>2. WriteState'
    BY <1>1, <1>5, <2>1, OfferKeepsState, DispatchKeepsState, WordKeepsState,
       ResponseKeepsState, BadAnswerKeepsState DEF WNext
  <2> QED
    BY <1>2, <2>2 DEF WriteInv, WriteState
<1>6. UNCHANGED vars => UNCHANGED wVars
  BY DEF vars
<1> QED
  BY <1>4, <1>5, <1>6 DEF Next

\* What the state says about the head of every queue.
LEMMA WriteStateInStep == WriteInv => WriteFifosInStep
<1> SUFFICES ASSUME WriteInv, direction = "write", ~wErrFlag
             PROVE  /\ Len(writeInfoFifo) = Len(writeBursts)
                    /\ bInfoFifo = [i \in DOMAIN answers |-> answers[i].last]
                    /\ AcksMatch
                    /\ orderInfoFifoW # <<>> =>
                          LET q == Head(sending[Head(orderInfoFifoW)])
                          IN  /\ Head(writeBursts).addr = q.addr
                              /\ Head(writeBursts).len = 0 <=> DoSplit(q.len = 0)
  BY DEF WriteFifosInStep
<1>1. RequestTypes /\ WriteTypes /\ OneIsSplit /\ AnswersInStep /\ BurstsInStep
  BY DEF WriteInv
<1>2. /\ Len(answers) = Len(bInfoFifo) /\ Len(writeInfoFifo) = Len(writeBursts)
      /\ \A i \in DOMAIN answers : answers[i].last = bInfoFifo[i]
  BY <1>1 DEF AnswersInStep
<1>3. DOMAIN answers = DOMAIN bInfoFifo
  BY <1>1, <1>2 DEF WriteTypes
<1>4. bInfoFifo = [i \in DOMAIN answers |-> answers[i].last]
  <2>1. bInfoFifo = [i \in DOMAIN bInfoFifo |-> bInfoFifo[i]]
    BY <1>1 DEF WriteTypes
  <2> QED
    BY <1>2, <1>3, <2>1, Zenon
<1>5. AcksMatch
  <2>1. PICK end \in [DOMAIN orderInfoFifoAck -> DOMAIN bInfoFifo] : Acks(end)
    BY <1>1 DEF AnswersInStep
  <2>2. \A k \in DOMAIN orderInfoFifoAck : end[k] \in DOMAIN answers /\ end[k] <= Len(answers)
    BY <1>1, <1>2, <1>3, <2>1 DEF WriteTypes
  <2>3. DOMAIN end = DOMAIN orderInfoFifoAck
    BY <2>1
  <2>4. \A k \in DOMAIN end : orderInfoFifoAck[k] = answers[end[k]].driver
    BY <2>1, <2>2, <2>3 DEF Acks
  <2>5. \A i \in DOMAIN answers : answers[i].last <=> \E k \in DOMAIN end : end[k] = i
    BY <1>2, <1>3, <2>1, <2>3, Zenon DEF Acks
  <2>6. {end[k] : k \in DOMAIN end} = {i \in DOMAIN answers : answers[i].last}
    BY <2>2, <2>3, <2>5
  <2>7. \A j, k \in DOMAIN end : j < k => end[j] < end[k]
    BY <2>1, <2>3 DEF Acks
  <2>8. end \in [DOMAIN orderInfoFifoAck -> DOMAIN answers]
    BY <1>3, <2>1
  <2> QED
    BY <2>4, <2>6, <2>7, <2>8, Zenon DEF AcksMatch
<1>6. ASSUME orderInfoFifoW # <<>>
      PROVE  LET q == Head(sending[Head(orderInfoFifoW)])
             IN  /\ Head(writeBursts).addr = q.addr
                 /\ Head(writeBursts).len = 0 <=> DoSplit(q.len = 0)
  <2> DEFINE q == Head(sending[Head(orderInfoFifoW)])
  <2>1. PICK rank : Ranks(rank) /\ \E own : Cut(Task(rank), own)
    BY <1>1 DEF BurstsInStep
  <2>2. PICK own : Cut(Task(rank), own)
    BY <2>1
  <2>3. /\ sending[Head(orderInfoFifoW)] # <<>> /\ rank[1] = 1
        /\ Head(orderInfoFifoW) = orderInfoFifoW[1] /\ orderInfoFifoW[1] \in Drivers
        /\ Len(orderInfoFifoW) > 0
    BY <1>1, <1>6, <2>1, FirstRank
  <2>4. PICK task : task = Task(rank)
    OBVIOUS
  <2>5. /\ task \in [1 .. Tasks -> BurstRecord]
        /\ \A k \in 1 .. Len(orderInfoFifoW) : task[k] = sending[orderInfoFifoW[k]][rank[k]]
    BY <1>1, <2>1, <2>4, TaskIs
  <2>6. 1 \in 1 .. Len(orderInfoFifoW)
    BY <1>1, <2>3 DEF WriteTypes
  <2>7. task[1] = sending[orderInfoFifoW[1]][1]
    BY <2>3, <2>5, <2>6
  <2>8. q = task[1]
    BY <1>1, <2>3, <2>7 DEF WriteTypes
  <2>9. /\ Len(writeBursts) > 0
        /\ writeBursts[1].addr = task[1].addr
        /\ writeBursts[1].len = 0 <=> DoSplit(task[1].len = 0)
    BY <1>1, <1>6, <2>2, <2>4, <2>5, FirstBurst
  <2>10. Head(writeBursts) = writeBursts[1]
    BY <1>1, <2>9 DEF WriteTypes
  <2> HIDE DEF q
  <2>11. Head(writeBursts).addr = q.addr /\ (Head(writeBursts).len = 0 <=> DoSplit(q.len = 0))
    BY <2>8, <2>9, <2>10
  <2> QED
    BY <2>11 DEF q
<1> QED
  BY <1>2, <1>4, <1>5, <1>6

\* Both invariants hold in every behaviour.
LEMMA AlwaysInv ==
    ASSUME ~COMPETING
    PROVE  FairSpec => [](ReadInv /\ WriteInv)
<1>1. ReadInv /\ WriteInv /\ [Next]_vars => (ReadInv /\ WriteInv)'
  BY NextReadInv, NextWriteInv
<1> QED
  BY <1>1, InitReadInv, InitWriteInv, PTL DEF FairSpec

\* When a driver asks for a request that is split only while no other one asks, the fifos of
\* both interconnects and datapumps are in step with the bursts: the write side, which
\* counts words where the address side counts the rest of the request, ends every burst
\* where the memory expects it, and every answer and acknowledge finds its information.
THEOREM FifosStayInStep ==
    ASSUME ~COMPETING
    PROVE  FairSpec => []FifosInStep
<1>1. ReadInv /\ WriteInv => FifosInStep
  BY WriteStateInStep DEF ReadInv, FifosInStep
<1> QED
  BY <1>1, AlwaysInv, PTL

---------------------------------------------------------------------------
(* Writes: the promise to the drivers *)

\* A request at a port is one in the specification too.
LEMMA OfferIsOffer ==
    ASSUME RequestTypes, WriteTypes, direction = "write", NEW d \in Drivers, WOffer(d)
    PROVE  writers!Next
<1>1. /\ req[d] = NoReq /\ \E q \in Requests : req' = [req EXCEPT ![d] = q]
      /\ direction' = direction
      /\ written' = <<>> /\ acked' = <<>> /\ answers' = answers /\ sending' = sending
      /\ wErrFlag' = wErrFlag
  BY DEF WOffer, Offer, writeVars
<1>2. writers!Offer(d)
  BY <1>1 DEF writers!Offer, writers!Nothing
<1> QED
  BY <1>2 DEF writers!Next

\* A part that is not the last is not visible; with the last one the request is accepted.
LEMMA DispatchIsAccept ==
    ASSUME RequestTypes, WriteTypes, direction = "write", NEW d \in Drivers, WDispatch(d)
    PROVE  writers!Next
<1> DEFINE q == req[d]
<1>1. /\ ~wErrFlag /\ Selected(d)
      /\ req' = IF Splits(q) THEN req ELSE [req EXCEPT ![d] = NoReq]
      /\ sending' = IF Splits(q) THEN sending ELSE [sending EXCEPT ![d] = Append(@, q)]
      /\ wErrFlag' = wErrFlag /\ answers' = answers /\ direction' = direction
      /\ written' = <<>> /\ acked' = <<>>
  BY WDispatchDoes
<1>2. q # NoReq
  BY <1>1, Selecting DEF Asking
<1>3. CASE Splits(q)
  <2>1. writers!Quiet
    BY <1>1, <1>3 DEF writers!Quiet, writers!Nothing, writers!FailOrNot
  <2> QED
    BY <2>1 DEF writers!Next
<1>4. CASE ~Splits(q)
  <2>1. writers!Accept(d)
    BY <1>1, <1>2, <1>4 DEF writers!Accept, writers!Nothing
  <2> QED
    BY <2>1 DEF writers!Next
<1> QED
  BY <1>3, <1>4

\* A word the memory gets is the next one of the driver's first request, at its address.
LEMMA WordIsWrite ==
    ASSUME WriteInv, direction = "write", NEW d \in Drivers, Word(d)
    PROVE  writers!Next
<1> DEFINE q == Head(sending[d])
           last == q.len = 0
<1>1. RequestTypes /\ WriteTypes /\ OneIsSplit /\ BurstsInStep
  BY DEF WriteInv
<1>2. /\ orderInfoFifoW # <<>> /\ d = Head(orderInfoFifoW)
      /\ wErrFlag => UNCHANGED <<writeBursts, answers>> /\ written' = <<>>
      /\ ~wErrFlag => written' = <<[driver |-> d, addr |-> Head(writeBursts).addr]>>
      /\ ~wErrFlag /\ DoSplit(last) => answers' = Append(answers, [driver |-> d, last |-> last])
      /\ ~wErrFlag /\ ~DoSplit(last) => answers' = answers
      /\ sending' = [sending EXCEPT ![d] =
                       IF last THEN Tail(@)
                       ELSE <<[addr |-> q.addr + 1, len |-> q.len - 1]>> \o Tail(@)]
      /\ acked' = <<>>
      /\ wErrFlag' = wErrFlag /\ req' = req /\ direction' = direction
  BY <1>1, WordDoes DEF requestVars
<1>3. sending[d] # <<>>
  BY <1>1, WordKeepsBursts
<1>4. CASE wErrFlag
  <2>1. writers!Quiet
    BY <1>2, <1>4 DEF writers!Quiet, writers!Nothing, writers!FailOrNot
  <2> QED
    BY <2>1 DEF writers!Next
<1>5. CASE ~wErrFlag
  <2>1. Head(writeBursts).addr = q.addr
    BY <1>2, <1>5, WriteStateInStep DEF WriteFifosInStep
  <2>2. written' = <<[driver |-> d, addr |-> q.addr]>>
    BY <1>2, <1>5, <2>1
  <2>3. PICK ends \in {TRUE, last} :
           answers' = IF ends THEN Append(answers, [driver |-> d, last |-> last]) ELSE answers
    <3>1. DoSplit(last) \in {TRUE, last}
      BY DEF DoSplit
    <3> QED
      BY <1>2, <1>5, <3>1
  <2>4. sending' = [sending EXCEPT ![d] = writers!Rest(@)]
    BY <1>2 DEF writers!Rest
  <2>5. writers!Write(d)
    BY <1>2, <1>3, <1>5, <2>2, <2>3, <2>4 DEF writers!Write
  <2> QED
    BY <2>5 DEF writers!Next
<1> QED
  BY <1>4, <1>5

\* An answer acknowledges the driver of the first burst that waits, if it ends a request.
LEMMA ResponseIsAnswer ==
    ASSUME WriteInv, direction = "write", NEW bad \in BOOLEAN, Response(bad)
    PROVE  writers!Next
<1>1. WriteTypes /\ AnswersInStep
  BY DEF WriteInv
<1>2. /\ answers # <<>> /\ answers' = Tail(answers)
      /\ acked' = IF Head(bInfoFifo) THEN <<Head(orderInfoFifoAck)>> ELSE <<>>
      /\ written' = <<>> /\ wErrFlag' = (wErrFlag \/ bad)
      /\ sending' = sending /\ req' = req /\ direction' = direction
  BY <1>1, ResponseDoes DEF requestVars
<1>3. /\ Head(answers).last = Head(bInfoFifo)
      /\ Head(bInfoFifo) => Head(orderInfoFifoAck) = Head(answers).driver
  BY <1>1, ResponseKeepsAnswers
<1>4. acked' = IF Head(answers).last THEN <<Head(answers).driver>> ELSE <<>>
  BY <1>2, <1>3
<1>5. writers!FailOrNot
  <2>1. CASE wErrFlag' = wErrFlag
    BY <1>2, <2>1 DEF writers!FailOrNot
  <2>2. CASE wErrFlag' # wErrFlag
    <3>1. wErrFlag' = TRUE
      BY <1>1, <1>2, <2>2 DEF WriteTypes
    <3> QED
      BY <3>1 DEF writers!FailOrNot
  <2> QED
    BY <2>1, <2>2
<1>6. writers!Answer
  BY <1>2, <1>4, <1>5 DEF writers!Answer
<1> QED
  BY <1>6 DEF writers!Next

\* An error that is seen ends the writing, and nothing else.
LEMMA BadAnswerIsQuiet ==
    ASSUME direction = "write", BadWriteAnswer
    PROVE  writers!Next
<1>1. /\ wErrFlag' = TRUE /\ written' = <<>> /\ acked' = <<>> /\ answers' = answers
      /\ req' = req /\ direction' = direction
  BY DEF BadWriteAnswer, SeeWriteError, requestVars
<1>2. writers!Quiet
  BY <1>1 DEF writers!Quiet, writers!Nothing, writers!FailOrNot
<1> QED
  BY <1>2 DEF writers!Next

\* Every word is written once, by the driver whose turn it is, at the address that follows
\* the one before, and a request is acknowledged, to its driver, when the memory answers its
\* last burst; after an error nothing is written, and what was written is acknowledged
\* (wStrictOrder.py).
THEOREM ImplementsInOrderWriters ==
    ASSUME ~COMPETING
    PROVE  FairSpec => WritersSpec
<1>1. Init => writers!Init
  BY DEF Init, RequestInit, WInit, WriteInit, writers!Init
<1>2. WriteInv /\ [Next]_vars => [writers!Next]_(writers!vars)
  <2> SUFFICES ASSUME WriteInv, [Next]_vars
               PROVE  writers!Next \/ writers!vars' = writers!vars
    OBVIOUS
  <2>1. direction' = direction
    BY DirectionStays
  <2>2. CASE WNext
    BY <2>2, OfferIsOffer, DispatchIsAccept, WordIsWrite, ResponseIsAnswer, BadAnswerIsQuiet
       DEF WNext, WriteInv
  <2>3. CASE RNext /\ UNCHANGED wVars
    BY <2>1, <2>3 DEF RNext, wVars, writeVars, writers!vars
  <2>4. CASE UNCHANGED vars
    BY <2>4 DEF vars, requestVars, wVars, writeVars, writers!vars
  <2> QED
    BY <2>2, <2>3, <2>4 DEF Next
<1> QED
  BY <1>1, <1>2, AlwaysInv, PTL DEF FairSpec, WritersSpec, writers!Spec
=============================================================================
