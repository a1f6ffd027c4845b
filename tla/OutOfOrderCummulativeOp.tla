---------------------- MODULE OutOfOrderCummulativeOp ----------------------
(***************************************************************************)
(* hwtLib.amba.axi_comp.oooOp.OutOfOrderCummulativeOp with the operation   *)
(* of examples/axi/oooOp/counterArray.py: requests to increment a counter  *)
(* in a memory behind AXI.  A request gets an id from ooo_fifo and reads   *)
(* its counter; the answers come in any order and go through a pipeline:   *)
(*                                                                         *)
(*   0 READ_DATA_RECEIVE, 1, 2 STATE_LOAD, 3 WRITE_BACK, ...,              *)
(*   WAIT_FOR_WRITE_ACK, then WRITE_HISTORY_SIZE stages of finished writes *)
(*                                                                         *)
(* Reads overtake writes, so STATE_LOAD replaces what was read by the data *)
(* of the youngest stage behind it that holds the same counter.            *)
(* One word is one state (BUS_WORD_CNT = 1), no transaction state, and     *)
(* write_cancel is never asserted, as in counterArray.py.  One clock edge  *)
(* is one Cycle.                                                           *)
(***************************************************************************)
EXTENDS FifoOutOfOrderRead, FiniteSetsExt

CONSTANTS Addrs,                       \* indexes of the counters
          NoAddr,
          STATE_MOD,                   \* 2 ^ width of MAIN_STATE_T
          WRITE_TO_WRITE_ACK_LATENCY,
          WRITE_HISTORY_SIZE,          \* WRITE_ACK_TO_READ_DATA_LATENCY
          READ_LATENCY                 \* of the memory, see NextAge

ASSUME StateAssumption == STATE_MOD \in Nat \ {0} /\ NoAddr \notin Addrs
ASSUME PipelineAssumption ==
    /\ WRITE_TO_WRITE_ACK_LATENCY \in Nat \ {0}
    /\ WRITE_HISTORY_SIZE \in Nat
    /\ READ_LATENCY \in Nat

STATE_LOAD == 2
WRITE_BACK == STATE_LOAD + 1
WAIT_FOR_WRITE_ACK == WRITE_BACK + WRITE_TO_WRITE_ACK_LATENCY
LAST == WAIT_FOR_WRITE_ACK + WRITE_HISTORY_SIZE

Stages == 0 .. LAST
Active == 0 .. WAIT_FOR_WRITE_ACK   \* stages of operations that have not finished

\* A stage register: the valid flag, and what it holds when it is set.
Op(id, addr, data) == [id |-> id, addr |-> addr, data |-> data]
Empty == [id |-> -1, addr |-> NoAddr, data |-> 0]

VARIABLES
    din_reg,      \* dataIn_reg: {addr}, or {} when it is not occupied
    state_array,  \* id -> address, NoAddr for an id that is not in use
    stage,        \* [Stages -> stage register]
    \* the memory behind the AXI port
    memory,       \* [Addrs -> value that the writes taken on aw and w make]
    visible,      \* [Addrs -> value a read sees]
    unseen,       \* ids of the writes taken that reads do not see yet
    reads,        \* {<<id, addr>>}: accepted on ar, not yet answered on r
    answer,       \* [Slots -> what the read of this id has seen]
    age,          \* [Slots -> writes acknowledged since then, -1 when it has not seen anything]
    reported      \* [Addrs -> value handed over last at dataOut, after a reset the memory]

vars == <<itemVars, din_reg, state_array, stage, memory, visible, unseen, reads, answer, age,
          reported>>

---------------------------------------------------------------------------
(* ar_dispatch *)

\* ar.valid with ar.ready: a waiting item and its address leave together.
Dispatch(ar_ready) == din_reg # {} /\ ReadExecuteVld /\ ar_ready

\* dataIn is accepted when ooo_fifo has an item and dataIn_reg is or becomes free.
DinRd(ar_ready) == WriteConfirmRd /\ (din_reg = {} \/ Dispatch(ar_ready))

\* in is the request at dataIn, {addr}, or {} when there is none.
NextDinReg(in, ar_ready) ==
    IF in # {} /\ DinRd(ar_ready) THEN in
    ELSE IF Dispatch(ar_ready) THEN {} ELSE din_reg

\* The address is stored under the id of its read; an id that is given back is cleared,
\* so that a use of it before the next write would show.
NextStateArray(ar_ready, returned) ==
    [i \in Slots |->
        IF Dispatch(ar_ready) /\ i = read_ptr THEN CHOOSE a \in Addrs : a \in din_reg
        ELSE IF i \in returned THEN NoAddr ELSE state_array[i]]

---------------------------------------------------------------------------
(* main_pipeline: which stages move *)

Valid(i) == stage[i] # Empty

\* in_ready of the stages: a valid stage waits for the next one; WRITE_BACK also for
\* aw and w, which transfer together, and WAIT_FOR_WRITE_ACK for b and dataOut.
InReady(w_ready, finish) ==
    LET ready[i \in Active] ==
            \/ ~Valid(i)
            \/ IF i = WAIT_FOR_WRITE_ACK THEN finish
               ELSE (i = WRITE_BACK => w_ready) /\ ready[i + 1]
    IN  ready

\* Stages whose operation leaves for the next one.
Leaving(w_ready, finish) ==
    LET ready == InReady(w_ready, finish)
    IN  {i \in Active : Valid(i) /\ ready[i]}

---------------------------------------------------------------------------
(* main_pipeline: what they take over *)

\* collision_detector: stages from WRITE_BACK on with the same counter as op.
Collisions(op) == {i \in WRITE_BACK .. LAST : Valid(i) /\ stage[i].addr = op.addr}

\* apply_data_write_forwarding: the data of the first of them replaces that of op.
Forwarded_Oldest(op) ==
    IF Collisions(op) = {} THEN op
    ELSE [op EXCEPT !.data = stage[Max(Collisions(op))].data]
Forwarded(op) ==
    IF Collisions(op) = {} THEN op
    ELSE [op EXCEPT !.data = stage[Min(Collisions(op))].data]

\* main_op: op enters WRITE_BACK; the operation that is just leaving it is too young
\* to have been forwarded to STATE_LOAD.
MainOp_NoSelfForward(op) == [op EXCEPT !.data = (op.data + 1) % STATE_MOD]
MainOp(op) ==
    LET src == IF Valid(WRITE_BACK) /\ stage[WRITE_BACK].addr = op.addr
               THEN stage[WRITE_BACK] ELSE op
    IN  [op EXCEPT !.data = (src.data + 1) % STATE_MOD]

\* The id of a finished operation is not used any more.
Finished(op) == [op EXCEPT !.id = -1]

\* r is the answered read, {<<id, addr>>}, or {}; the data are what it has seen.
NextStage(moving, r) ==
    LET enters(i) == i - 1 \in moving
        waits(i) == Valid(i) /\ i \notin moving
        received == {Op(x[1], state_array[x[1]], answer[x[1]]) : x \in r}
    IN  [i \in Stages |->
            CASE i = 0 -> IF received # {} THEN CHOOSE op \in received : TRUE
                          ELSE IF waits(0) THEN stage[0] ELSE Empty
              [] i = STATE_LOAD -> IF enters(i) THEN Forwarded(stage[i - 1])
                                   ELSE IF waits(i) THEN Forwarded(stage[i]) ELSE Empty
              [] i = WRITE_BACK -> IF enters(i) THEN MainOp(stage[i - 1])
                                   ELSE IF waits(i) THEN stage[i] ELSE Empty
              [] i \in Active \ {0, STATE_LOAD, WRITE_BACK} ->
                                   IF enters(i) THEN stage[i - 1]
                                   ELSE IF waits(i) THEN stage[i] ELSE Empty
              [] OTHER ->          IF WAIT_FOR_WRITE_ACK \notin moving THEN stage[i]
                                   ELSE IF i - 1 = WAIT_FOR_WRITE_ACK
                                   THEN Finished(stage[i - 1]) ELSE stage[i - 1]]

---------------------------------------------------------------------------
(* The memory: a read samples its counter at any moment between ar and r, a write is   *)
(* seen at some moment between aw and b, in the order of the writes to one counter.    *)

\* Stages of the writes that have been taken and not acknowledged.
Sent == WRITE_BACK + 1 .. WAIT_FOR_WRITE_ACK

Unseen(i) == Valid(i) /\ stage[i].id \in unseen

\* The write in WAIT_FOR_WRITE_ACK may be acknowledged when reads see it.  The component
\* does not look at b.id: acknowledges come in the order of the writes.
MayAcknowledge == Valid(WAIT_FOR_WRITE_ACK) /\ ~Unseen(WAIT_FOR_WRITE_ACK)

\* The read samples its counter.
Sample(x) ==
    /\ age[x[1]] = -1
    /\ answer' = [answer EXCEPT ![x[1]] = visible[x[2]]]
    /\ age' = [age EXCEPT ![x[1]] = 0]
    /\ UNCHANGED <<itemVars, din_reg, state_array, stage, memory, visible, unseen, reads, reported>>

\* The write of the operation in stage i is seen from now on, older ones of its counter are.
Show(i) ==
    /\ Unseen(i)
    /\ \A k \in Sent : k > i /\ Unseen(k) => stage[k].addr # stage[i].addr
    /\ visible' = [visible EXCEPT ![stage[i].addr] = stage[i].data]
    /\ unseen' = unseen \ {stage[i].id}
    /\ UNCHANGED <<itemVars, din_reg, state_array, stage, memory, reads, answer, age, reported>>

\* What has been sampled and not transferred gets older by each acknowledge.
NextAge(moving, taken) ==
    [n \in Slots |->
        IF age[n] = -1 \/ (\E x \in taken : x[1] = n) THEN -1
        ELSE IF WAIT_FOR_WRITE_ACK \in moving THEN age[n] + 1 ELSE age[n]]

NextAnswer(taken) == [n \in Slots |-> IF \E x \in taken : x[1] = n THEN 0 ELSE answer[n]]

---------------------------------------------------------------------------
Init ==
    /\ OooFifoInit
    /\ din_reg = {}
    /\ state_array = [i \in Slots |-> NoAddr]
    /\ stage = [i \in Stages |-> Empty]
    /\ memory = [a \in Addrs |-> 0]
    /\ visible = memory
    /\ unseen = {}
    /\ reads = {}
    /\ answer = [n \in Slots |-> 0]
    /\ age = [n \in Slots |-> -1]
    /\ reported = memory

\* One clock edge.  The memory answers the read r (or none) and takes a write when
\* w_ready; finish is b.valid with dataOut.rd, of which one alone has no effect.  At most
\* READ_LATENCY writes are acknowledged between the sample of a read and its answer.
Cycle(in, ar_ready, r, w_ready, finish) ==
    LET moving == Leaving(w_ready, finish)
        taken == IF InReady(w_ready, finish)[0] THEN r ELSE {}
        finished == {stage[i] : i \in moving \cap {WAIT_FOR_WRITE_ACK}}
        returned == {op.id : op \in finished}
        writes == WRITE_BACK \in moving
    IN  /\ OooFifoCycle(in # {} /\ (din_reg = {} \/ Dispatch(ar_ready)),
                        din_reg # {} /\ ar_ready, returned)
        /\ din_reg' = NextDinReg(in, ar_ready)
        /\ state_array' = NextStateArray(ar_ready, returned)
        /\ stage' = NextStage(moving, taken)
        /\ memory' = IF writes
                     THEN [memory EXCEPT ![stage[WRITE_BACK].addr] = stage[WRITE_BACK].data]
                     ELSE memory
        /\ unseen' = IF writes THEN unseen \cup {stage[WRITE_BACK].id} ELSE unseen
        /\ reads' = (reads \ taken) \cup
                    (IF Dispatch(ar_ready) THEN {read_ptr} \X din_reg ELSE {})
        /\ answer' = NextAnswer(taken)
        /\ age' = NextAge(moving, taken)
        /\ \A n \in Slots : age'[n] <= READ_LATENCY
        /\ UNCHANGED visible
        /\ reported' = [a \in Addrs |->
               IF \E op \in finished : op.addr = a THEN (CHOOSE op \in finished : TRUE).data
               ELSE reported[a]]

\* The reset of the component and of the AXI slave: nothing is under way afterwards, a
\* write no read has seen is lost.
Reset ==
    /\ OooFifoReset
    /\ din_reg' = {}
    /\ state_array' = [i \in Slots |-> NoAddr]
    /\ stage' = [i \in Stages |-> Empty]
    /\ memory' = visible
    /\ unseen' = {}
    /\ reads' = {}
    /\ answer' = [n \in Slots |-> 0]
    /\ age' = [n \in Slots |-> -1]
    /\ reported' = visible
    /\ UNCHANGED visible

\* The reads that can be answered.
Sampled == {x \in reads : age[x[1]] # -1}

AtMostOne(S) == {{}} \cup {{x} : x \in S}

\* A clock edge; an input nobody looks at in this cycle is not varied.
Tick ==
    \E in \in IF WriteConfirmRd THEN AtMostOne(Addrs) ELSE {{}},
       r \in AtMostOne(Sampled),
       ar_ready \in {FALSE, din_reg # {} /\ ReadExecuteVld},
       w_ready \in {FALSE, Valid(WRITE_BACK)},
       finish \in {FALSE, MayAcknowledge} :
          Cycle(in, ar_ready, r, w_ready, finish)

Next ==
    \/ Tick
    \/ \E x \in reads : Sample(x)
    \/ \E i \in Sent : Show(i)
    \/ Reset

Spec == Init /\ [][Next]_vars

\* Cycles with a transfer on one of the ports, whatever the other ports do.  A transfer
\* that is possible stays so: valid is not withdrawn on any AXI channel.
AnyCycle(ar_ready, r, w_ready, finish) ==
    \E in \in AtMostOne(Addrs) : Cycle(in, ar_ready, r, w_ready, finish)

Dispatches ==
    /\ Dispatch(TRUE)
    /\ \E r \in AtMostOne(Sampled), w_ready \in BOOLEAN, finish \in {FALSE, MayAcknowledge} :
          AnyCycle(TRUE, r, w_ready, finish)

Answers(id) ==
    \E x \in Sampled, ar_ready, w_ready \in BOOLEAN, finish \in {FALSE, MayAcknowledge} :
        /\ x[1] = id
        /\ InReady(w_ready, finish)[0]
        /\ AnyCycle(ar_ready, {x}, w_ready, finish)

Writes ==
    \E r \in AtMostOne(Sampled), ar_ready \in BOOLEAN, finish \in {FALSE, MayAcknowledge} :
        /\ WRITE_BACK \in Leaving(TRUE, finish)
        /\ AnyCycle(ar_ready, r, TRUE, finish)

Finishes ==
    /\ MayAcknowledge
    /\ \E r \in AtMostOne(Sampled), ar_ready, w_ready \in BOOLEAN :
          AnyCycle(ar_ready, r, w_ready, TRUE)

\* The clock runs, the memory serves each of its channels and dataOut is not held off
\* for ever.
FairSpec ==
    /\ Spec
    /\ WF_vars(Tick)
    /\ WF_vars(Dispatches) /\ WF_vars(Writes) /\ WF_vars(Finishes)
    /\ \A id \in Slots : WF_vars(Answers(id)) /\ WF_vars(\E x \in reads : x[1] = id /\ Sample(x))
    /\ WF_vars(\E i \in Sent : Show(i))

---------------------------------------------------------------------------
(* Properties *)

\* An id is never used by two operations: the ids waiting in ooo_fifo, under way in the
\* memory and in the pipeline are the allocated ones, each once, and the ids handed out
\* stay locked.
EachIdOnce ==
    LET inPipeline == {i \in Active : Valid(i)}
        ids == {x[1] : x \in reads} \cup {stage[i].id : i \in inPipeline}
    IN  /\ ids = HandedOut
        /\ Cardinality(ids) = Cardinality(reads) + Cardinality(inPipeline)
        /\ Cardinality(Waiting) = Cardinality(din_reg)
        /\ \A i \in Waiting : item_valid[i]
        /\ \A i \in ids : item_write_lock[i]

\* `The most up-to-date version of the data is always selected on the input of
\* WRITE_BACK stage' (outOfOrderCummulativeOp.py): what is about to be written is the
\* counter in the memory plus one, although it was computed from a read of long ago.
LatestIsWrittenBack ==
    Valid(WRITE_BACK) =>
        stage[WRITE_BACK].data = (memory[stage[WRITE_BACK].addr] + 1) % STATE_MOD

\* Operations on counter a in the stages S.
OpsIn(S, a) == Cardinality({i \in S : Valid(i) /\ stage[i].addr = a})

\* Requests for each counter that have been accepted and not completed.
Open ==
    [a \in Addrs |-> OpsIn(Active, a) + Cardinality({x \in reads : x[2] = a})
                     + Cardinality(din_reg \cap {a})]

\* `The operation may finish out of order but the data on dataOut and in the memory will
\* be correct' (counterArray.py): no increment is lost, repeated or reported with a
\* value another one has reported.
array == INSTANCE CounterArray WITH counter <- reported, open <- Open

CountersSpec == array!Spec

\* Every id comes back: no operation is stuck in the pipeline or in the memory.
IdsComeBack == \A i \in Slots : item_valid[i] ~> ~item_valid[i]
===========================================================================
