------------------- MODULE OutOfOrderCummulativeOpProofs -------------------
(***************************************************************************)
(* OutOfOrderCummulativeOp, for every number of ids, counters and stages:  *)
(* an id is in one place only, what is written back is the most up-to-date *)
(* value, and the component implements the array of atomic counters.       *)
(*                                                                         *)
(* Four invariants, inductive together:                                    *)
(*   IdInv      where each id is, and that its address is kept             *)
(*   DataInv    the youngest write of a counter holds what the taken       *)
(*              writes make, and a read that has missed it finds it ahead  *)
(*   ReportInv  the writes that are sent and not reported are consecutive  *)
(*              increments, starting from the reported value               *)
(*   SeenInv    which of them reads of the memory see                      *)
(* The last three lead to results for a WRITE_HISTORY_SIZE of at least     *)
(* READ_LATENCY + WRITE_TO_WRITE_ACK_LATENCY + 2: with a shorter history a *)
(* write that a read has missed can be lost from the pipeline before the   *)
(* read reaches STATE_LOAD.                                                *)
(***************************************************************************)
EXTENDS OutOfOrderCummulativeOp, FiniteSetTheorems, NaturalsInduction,
        WellFoundedInduction, TLAPS

\* The values of a counter, and the operations that are under way and finished.
Vals == 0 .. STATE_MOD - 1
OpenOp == [id : Slots, addr : Addrs, data : Vals]
DoneOp == [id : {-1}, addr : Addrs, data : Vals]

TypeOK ==
    /\ write_ptr \in Slots
    /\ read_ptr \in Slots
    /\ looped \in BOOLEAN
    /\ item_valid \in [Slots -> BOOLEAN]
    /\ item_write_lock \in [Slots -> BOOLEAN]
    /\ din_reg \in AtMostOne(Addrs)
    /\ state_array \in [Slots -> Addrs \cup {NoAddr}]
    /\ stage \in [Stages -> OpenOp \cup DoneOp \cup {Empty}]
    /\ \A i \in Active : Valid(i) => stage[i] \in OpenOp
    /\ \A i \in Stages \ Active : Valid(i) => stage[i] \in DoneOp
    /\ memory \in [Addrs -> Vals]
    /\ visible \in [Addrs -> Vals]
    /\ unseen \in SUBSET Slots
    /\ reads \in SUBSET (Slots \X Addrs)
    /\ answer \in [Slots -> Vals]
    /\ age \in [Slots -> -1 .. READ_LATENCY]
    /\ reported \in [Addrs -> Vals]

\* The numbers of the stages, for every pair of latencies.
LEMMA StageNumbers ==
    /\ WRITE_BACK = 3
    /\ WAIT_FOR_WRITE_ACK \in Nat
    /\ WAIT_FOR_WRITE_ACK >= 4
    /\ LAST \in Nat
    /\ LAST >= WAIT_FOR_WRITE_ACK
  BY PipelineAssumption DEF STATE_LOAD, WRITE_BACK, WAIT_FOR_WRITE_ACK, LAST

\* Stages with a write that has been sent, the youngest first.
Written == WRITE_BACK + 1 .. LAST

\* The numbers of the stages with a write that has been sent and not reported.
LEMMA SentFacts ==
    /\ \A i \in Sent : i \in Nat /\ i >= 4 /\ i <= WAIT_FOR_WRITE_ACK /\ i <= LAST /\ i \in Written /\ i \in Active
    /\ WAIT_FOR_WRITE_ACK \in Sent /\ WRITE_BACK + 1 \in Sent
    /\ \A i \in Written : i <= WAIT_FOR_WRITE_ACK => i \in Sent
    /\ WRITE_BACK + 1 = 4
  BY StageNumbers, SMT DEF Sent, Written, Active

\* A stage is ready exactly when the recursive definition says so.
LEMMA ReadyEquation ==
    ASSUME NEW w_ready \in BOOLEAN, NEW finish \in BOOLEAN,
           NEW i \in Active
    PROVE  InReady(w_ready, finish)[i] =
              (\/ ~Valid(i)
               \/ IF i = WAIT_FOR_WRITE_ACK THEN finish
                  ELSE (i = WRITE_BACK => w_ready) /\ InReady(w_ready, finish)[i + 1])
<1> DEFINE Free(k) ==
      \E j \in k .. WAIT_FOR_WRITE_ACK + 1 :
          /\ IF j = WAIT_FOR_WRITE_ACK + 1 THEN finish ELSE ~Valid(j)
          /\ k <= WRITE_BACK /\ WRITE_BACK < j => w_ready
    Body(f, k) ==
               (\/ ~Valid(k)
               \/ IF k = WAIT_FOR_WRITE_ACK THEN finish
                  ELSE (k = WRITE_BACK => w_ready) /\ f[k + 1])
    g == [k \in Active |-> Free(k)]
<1>1. ASSUME NEW k \in Active
      PROVE  Free(k) = Body(g, k)
  <2> k \in 0 .. WAIT_FOR_WRITE_ACK /\ WAIT_FOR_WRITE_ACK \in Nat /\ WAIT_FOR_WRITE_ACK >= 4 /\ WRITE_BACK = 3
    BY StageNumbers DEF Active
  <2>1. CASE ~Valid(k)
    <3>1. Free(k)
      BY <2>1, SMT
    <3> QED  BY <2>1, <3>1
  <2>2. CASE Valid(k) /\ k = WAIT_FOR_WRITE_ACK
    <3>1. Free(k) <=> finish
      BY <2>2, SMT
    <3> QED  BY <2>2, <3>1
  <2>3. CASE Valid(k) /\ k # WAIT_FOR_WRITE_ACK
    <3>0. k + 1 \in Active
      BY <2>3, SMT DEF Active
    <3>1. g[k + 1] = Free(k + 1)
      <4> HIDE DEF Free
      <4> QED  BY <3>0
    <3>2. Free(k) => Free(k + 1) /\ (k = WRITE_BACK => w_ready)
      BY <2>3, SMT
    <3>3. Free(k + 1) /\ (k = WRITE_BACK => w_ready) => Free(k)
      BY <2>3, SMT
    <3> QED  BY <2>3, <3>1, <3>2, <3>3
  <2> QED  BY <2>1, <2>2, <2>3
<1>2. g = [k \in Active |-> Body(g, k)]
  <2> HIDE DEF Free, Body
  <2> QED BY <1>1
<1>3. InReady(w_ready, finish) = [k \in Active |-> Body(InReady(w_ready, finish), k)]
  <2> HIDE DEF g
  <2> QED  BY <1>2 DEF InReady
<1> HIDE DEF g, Free
<1> QED  BY <1>3

\* The stages that leave have an operation, and none leaves onto one that stays; a
\* stage before WRITE_BACK only stays because the next one does.
LEMMA Moving ==
    ASSUME NEW w_ready \in BOOLEAN, NEW finish \in BOOLEAN,
           NEW moving, moving = Leaving(w_ready, finish)
    PROVE  /\ moving \subseteq Active
           /\ \A i \in moving : Valid(i)
           /\ \A i \in moving : i # WAIT_FOR_WRITE_ACK /\ Valid(i + 1) => i + 1 \in moving
           /\ \A i \in Active : i # WAIT_FOR_WRITE_ACK /\ i # WRITE_BACK /\ Valid(i) /\ i \notin moving
                                => Valid(i + 1) /\ i + 1 \notin moving
           /\ InReady(w_ready, finish)[0] => ~Valid(0) \/ 0 \in moving
<1> DEFINE ready == InReady(w_ready, finish)
<1>0. WAIT_FOR_WRITE_ACK \in Nat /\ \A i \in Active : i # WAIT_FOR_WRITE_ACK => i + 1 \in Active
  BY StageNumbers, SMT DEF Active
<1>1. \A i \in Active : i \in moving <=> Valid(i) /\ ready[i]
  BY DEF Leaving
<1>2. moving \subseteq Active
  BY DEF Leaving
<1>3. \A i \in Active : ready[i] <=>
         (\/ ~Valid(i)
          \/ IF i = WAIT_FOR_WRITE_ACK THEN finish
             ELSE (i = WRITE_BACK => w_ready) /\ ready[i + 1])
  BY ReadyEquation
<1>4. 0 \in Active
  BY StageNumbers, SMT DEF Active
<1> HIDE DEF ready
<1>5. \A i \in moving : Valid(i)
  BY <1>1, <1>2
<1>6. ASSUME NEW i \in moving, i # WAIT_FOR_WRITE_ACK, Valid(i + 1)
      PROVE  i + 1 \in moving
  BY <1>0, <1>1, <1>2, <1>3, <1>6, Zenon
<1>7. ASSUME NEW i \in Active, i # WAIT_FOR_WRITE_ACK, i # WRITE_BACK, Valid(i), i \notin moving
      PROVE  Valid(i + 1) /\ i + 1 \notin moving
  <2>1. ~ready[i] /\ i + 1 \in Active
    BY <1>0, <1>1, <1>7
  <2>2. ~ready[i + 1]
    BY <2>1, <1>3, <1>7
  <2>3. Valid(i + 1)
    BY <2>1, <2>2, <1>3
  <2> QED  BY <2>1, <2>2, <2>3, <1>1
<1>8. ready[0] => ~Valid(0) \/ 0 \in moving
  BY <1>1, <1>4
<1> QED  BY <1>2, <1>5, <1>6, <1>7, <1>8 DEF ready

\* A set of numbers that is not empty has a least one, and Min finds it.
LEMMA MinIsLeast ==
    ASSUME NEW S, S \subseteq Nat, S # {}
    PROVE  Min(S) \in S /\ \A y \in S : Min(S) <= y
<1> DEFINE R == {ss \in Nat \X Nat : ss[1] < ss[2]}
<1>1. IsWellFoundedOn(R, Nat)
  BY NatLessThanWellFounded, SMT DEF OpToRel
<1>2. PICK x \in S : \A y \in S : ~(<<y, x>> \in R)
  <2> HIDE DEF R
  <2> QED  BY <1>1, WFMin
<1>3. \A y \in S : x <= y
  <2> SUFFICES ASSUME NEW y \in S  PROVE x <= y
    OBVIOUS
  <2>1. x \in Nat /\ y \in Nat
    OBVIOUS
  <2>2. y < x => <<y, x>> \in R
    BY <2>1, SMT
  <2> QED  BY <1>2, <2>1, <2>2, SMT
<1>4. \E z \in S : \A y \in S : z <= y
  BY <1>3
<1> QED  BY <1>4 DEF Min

\* Forwarding changes nothing but the data, and that to those of the first collision.
LEMMA ForwardedKeeps ==
    ASSUME TypeOK, NEW op \in OpenOp
    PROVE  /\ Forwarded(op) \in OpenOp
           /\ Forwarded(op).id = op.id
           /\ Forwarded(op).addr = op.addr
           /\ Collisions(op) = {} => Forwarded(op).data = op.data
           /\ Collisions(op) # {} => Forwarded(op).data = stage[Min(Collisions(op))].data
<1>1. CASE Collisions(op) = {}
  BY <1>1 DEF Forwarded
<1>2. CASE Collisions(op) # {}
  <2>1. Collisions(op) \subseteq Nat /\ Collisions(op) \subseteq Stages
    BY StageNumbers, SMT DEF Collisions, Stages
  <2>2. Min(Collisions(op)) \in Collisions(op)
    BY <1>2, <2>1, MinIsLeast
  <2>3. PICK m \in Stages : m = Min(Collisions(op)) /\ Valid(m)
    BY <2>1, <2>2 DEF Collisions
  <2>4. stage[m] \in OpenOp \cup DoneOp
    BY <2>3 DEF TypeOK
  <2>5. stage[m].data \in Vals
    BY <2>4 DEF OpenOp, DoneOp
  <2>6. Forwarded(op) = [op EXCEPT !.data = stage[m].data]
    BY <1>2, <2>3 DEF Forwarded
  <2> HIDE DEF Vals
  <2> QED  BY <1>2, <2>3, <2>5, <2>6 DEF OpenOp
<1> QED  BY <1>1, <1>2

\* The counter wraps.
LEMMA IncrementIsAValue ==
    ASSUME NEW d \in Vals
    PROVE  (d + 1) % STATE_MOD \in Vals
  BY StateAssumption, SMT DEF Vals

\* The increment changes nothing but the data.
LEMMA MainOpKeeps ==
    ASSUME TypeOK, NEW op \in OpenOp
    PROVE  /\ MainOp(op) \in OpenOp
           /\ MainOp(op).id = op.id
           /\ MainOp(op).addr = op.addr
           /\ Valid(WRITE_BACK) /\ stage[WRITE_BACK].addr = op.addr =>
                 MainOp(op).data = (stage[WRITE_BACK].data + 1) % STATE_MOD
           /\ ~(Valid(WRITE_BACK) /\ stage[WRITE_BACK].addr = op.addr) =>
                 MainOp(op).data = (op.data + 1) % STATE_MOD
<1> DEFINE src == IF Valid(WRITE_BACK) /\ stage[WRITE_BACK].addr = op.addr
               THEN stage[WRITE_BACK] ELSE op
<1>1. src \in OpenOp
  <2>1. WRITE_BACK \in Active
    BY StageNumbers, SMT DEF Active
  <2> QED  BY <2>1 DEF TypeOK
<1>2. (src.data + 1) % STATE_MOD \in Vals
  <2>1. src.data \in Vals
    <3> HIDE DEF src, Vals
    <3> QED  BY <1>1 DEF OpenOp
  <2> QED  BY <2>1, IncrementIsAValue
<1>3. MainOp(op) = [op EXCEPT !.data = (src.data + 1) % STATE_MOD]
  BY DEF MainOp
<1> HIDE DEF Vals
<1> QED  BY <1>2, <1>3 DEF OpenOp

---------------------------------------------------------------------------
\* The same operation; its data may differ.
SameOp(op1, op2) == op1.id = op2.id /\ op1.addr = op2.addr

\* The stages that leave: none without an operation, none onto one that stays.
LeaveInTurn(moving) ==
    /\ moving \subseteq Active
    /\ \A i \in moving : Valid(i)
    /\ \A i \in moving : i # WAIT_FOR_WRITE_ACK /\ Valid(i + 1) => i + 1 \in moving
    /\ \A i \in Active : i # WAIT_FOR_WRITE_ACK /\ i # WRITE_BACK /\ Valid(i) /\ i \notin moving
                         => Valid(i + 1) /\ i + 1 \notin moving

\* NextStage stage by stage: what it takes over, keeps or loses.
LEMMA StageAfter ==
    ASSUME NEW moving, NEW r, stage' = NextStage(moving, r)
    PROVE  /\ r = {} => stage'[0] = IF Valid(0) /\ 0 \notin moving THEN stage[0] ELSE Empty
           /\ \A x : r = {x} => stage'[0] = Op(x[1], state_array[x[1]], answer[x[1]])
           /\ \A j \in Active \ {0, STATE_LOAD, WRITE_BACK} :
                 stage'[j] = IF j - 1 \in moving THEN stage[j - 1]
                             ELSE IF Valid(j) /\ j \notin moving THEN stage[j] ELSE Empty
           /\ stage'[STATE_LOAD] = IF STATE_LOAD - 1 \in moving THEN Forwarded(stage[STATE_LOAD - 1])
                   ELSE IF Valid(STATE_LOAD) /\ STATE_LOAD \notin moving THEN Forwarded(stage[STATE_LOAD]) ELSE Empty
           /\ stage'[WRITE_BACK] = IF WRITE_BACK - 1 \in moving THEN MainOp(stage[WRITE_BACK - 1])
                   ELSE IF Valid(WRITE_BACK) /\ WRITE_BACK \notin moving THEN stage[WRITE_BACK] ELSE Empty
           /\ \A j \in Stages \ Active :
                 stage'[j] = IF WAIT_FOR_WRITE_ACK \notin moving THEN stage[j]
                             ELSE IF j - 1 = WAIT_FOR_WRITE_ACK THEN Finished(stage[j - 1])
                             ELSE stage[j - 1]
<1> DEFINE enters(i) == i - 1 \in moving
        waits(i) == Valid(i) /\ i \notin moving
        received == {Op(x[1], state_array[x[1]], answer[x[1]]) : x \in r}
        D(i) ==
            CASE i = 0 -> IF received # {} THEN CHOOSE op \in received : TRUE
                          ELSE IF waits(0) THEN stage[0] ELSE Empty
              [] i = STATE_LOAD -> IF enters(i) THEN Forwarded(stage[i - 1])
                                   ELSE IF waits(i) THEN Forwarded(stage[i]) ELSE Empty
              [] i = WRITE_BACK -> IF enters(i) THEN MainOp(stage[i - 1])
                                   ELSE IF waits(i) THEN stage[i] ELSE Empty
              [] i \in Active \ {0, STATE_LOAD, WRITE_BACK} ->
                                   IF enters(i) THEN stage[i - 1]
                                   ELSE IF waits(i) THEN stage[i] ELSE Empty
              [] OTHER ->          IF WAIT_FOR_WRITE_ACK \notin moving THEN stage[i]
                                   ELSE IF i - 1 = WAIT_FOR_WRITE_ACK
                                   THEN Finished(stage[i - 1]) ELSE stage[i - 1]
<1>1. stage' = [i \in Stages |-> D(i)]
  BY DEF NextStage
<1>2. /\ 0 \in Stages /\ STATE_LOAD \in Stages /\ WRITE_BACK \in Stages
      /\ 0 # STATE_LOAD /\ 0 # WRITE_BACK /\ STATE_LOAD # WRITE_BACK
      /\ 0 \in Active /\ STATE_LOAD \in Active /\ WRITE_BACK \in Active
      /\ Active \subseteq Stages
  BY StageNumbers, SMT DEF Stages, Active, STATE_LOAD
<1>3. \A i \in Stages : stage'[i] = D(i)
  <2> HIDE DEF D
  <2> QED  BY <1>1
<1> HIDE DEF received, enters, waits
<1>4. stage'[0] = IF received # {} THEN CHOOSE op \in received : TRUE
                          ELSE IF waits(0) THEN stage[0] ELSE Empty
  BY <1>2, <1>3, Zenon
<1>5. r = {} => stage'[0] = IF waits(0) THEN stage[0] ELSE Empty
  BY <1>4, Zenon DEF received
<1>6. ASSUME NEW x, r = {x} PROVE stage'[0] = Op(x[1], state_array[x[1]], answer[x[1]])
  <2>1. received = {Op(x[1], state_array[x[1]], answer[x[1]])}
    BY <1>6, Zenon DEF received
  <2>2. received # {} /\ (CHOOSE op \in received : TRUE) \in received
    BY <2>1, Zenon
  <2> QED  BY <1>4, <2>1, <2>2, Zenon
<1>7. ASSUME NEW j \in Active \ {0, STATE_LOAD, WRITE_BACK}
      PROVE  stage'[j] = IF enters(j) THEN stage[j - 1] ELSE IF waits(j) THEN stage[j] ELSE Empty
  <2>1. j \in Stages
    BY <1>2
  <2>2. stage'[j] = D(j)
    BY <1>3, <2>1
  <2>3. j # 0 /\ j # STATE_LOAD /\ j # WRITE_BACK
    OBVIOUS
  <2> QED  BY <2>2, <2>3, Zenon
<1>8. stage'[STATE_LOAD] = IF enters(STATE_LOAD) THEN Forwarded(stage[STATE_LOAD - 1])
                   ELSE IF waits(STATE_LOAD) THEN Forwarded(stage[STATE_LOAD]) ELSE Empty
  BY <1>2, <1>3, Zenon
<1>9. stage'[WRITE_BACK] = IF enters(WRITE_BACK) THEN MainOp(stage[WRITE_BACK - 1])
                   ELSE IF waits(WRITE_BACK) THEN stage[WRITE_BACK] ELSE Empty
  BY <1>2, <1>3, Zenon
<1>10. ASSUME NEW j \in Stages \ Active
       PROVE  stage'[j] = IF WAIT_FOR_WRITE_ACK \notin moving THEN stage[j]
                             ELSE IF j - 1 = WAIT_FOR_WRITE_ACK THEN Finished(stage[j - 1])
                             ELSE stage[j - 1]
  <2>1. j \notin Active \ {0, STATE_LOAD, WRITE_BACK} /\ j # 0 /\ j # STATE_LOAD /\ j # WRITE_BACK
    BY <1>2, Zenon
  <2>2. stage'[j] = D(j)
    BY <1>3
  <2> QED  BY <2>1, <2>2, Zenon
<1> QED  BY <1>5, <1>6, <1>7, <1>8, <1>9, <1>10 DEF enters, waits

\* A stage with an operation is not Empty.
LEMMA OpenIsValid == \A op \in OpenOp \cup DoneOp : op # Empty
<1> SUFFICES ASSUME NEW op \in OpenOp \cup DoneOp, op = Empty PROVE FALSE
  OBVIOUS
<1>1. op.addr \in Addrs
  BY DEF OpenOp, DoneOp
<1>2. op.addr = NoAddr
  BY DEF Empty
<1> QED  BY <1>1, <1>2, StateAssumption

\* A finished operation keeps its counter and its data.
LEMMA FinishedIsDone ==
    ASSUME NEW op \in OpenOp
    PROVE  Finished(op) \in DoneOp /\ Finished(op).addr = op.addr /\ Finished(op).data = op.data
<1> op.addr \in Addrs /\ op.data \in Vals /\ op = [id |-> op.id, addr |-> op.addr, data |-> op.data]
  BY DEF OpenOp
<1> Finished(op) = [id |-> -1, addr |-> op.addr, data |-> op.data]
  BY DEF Finished, OpenOp
<1> HIDE DEF Vals
<1> QED  BY DEF DoneOp

\* Where the operations are after a clock edge, by id and counter.
LEMMA OpsMove ==
    ASSUME TypeOK, NEW moving, LeaveInTurn(moving), NEW r \in AtMostOne(reads),
           \A x \in reads : state_array[x[1]] = x[2],
           stage' = NextStage(moving, r)
    PROVE  /\ r = {} /\ Valid(0) /\ 0 \notin moving => stage'[0] = stage[0]
           /\ r = {} /\ (~Valid(0) \/ 0 \in moving) => stage'[0] = Empty
           /\ \A x \in r : stage'[0] \in OpenOp /\ stage'[0] = Op(x[1], x[2], answer[x[1]])
           /\ \A j \in Active \ {0} :
                 /\ j - 1 \in moving => stage'[j] \in OpenOp /\ SameOp(stage'[j], stage[j - 1])
                 /\ j - 1 \notin moving /\ Valid(j) /\ j \notin moving =>
                       stage'[j] \in OpenOp /\ SameOp(stage'[j], stage[j])
                 /\ j - 1 \notin moving /\ (~Valid(j) \/ j \in moving) => stage'[j] = Empty
<1>0. 0 \in Active /\ STATE_LOAD \in Active \ {0} /\ WRITE_BACK \in Active \ {0} /\ STATE_LOAD # WRITE_BACK
      /\ (\A j \in Active \ {0} : j - 1 \in Active)
  BY StageNumbers, SMT DEF Active, STATE_LOAD
<1>1. \A j \in Active : Valid(j) => stage[j] \in OpenOp
  BY DEF TypeOK
<1>2. \A j \in moving : j \in Active /\ Valid(j) /\ stage[j] \in OpenOp
  BY <1>1 DEF LeaveInTurn
<1>3. ASSUME NEW x \in r
      PROVE  stage'[0] \in OpenOp /\ stage'[0] = Op(x[1], x[2], answer[x[1]])
  <2>1. r = {x} /\ x \in reads
    BY DEF AtMostOne
  <2>2. stage'[0] = Op(x[1], state_array[x[1]], answer[x[1]])
    BY <2>1, StageAfter
  <2>3. x[1] \in Slots /\ x[2] \in Addrs
    BY <2>1 DEF TypeOK
  <2>4. answer[x[1]] \in Vals
    <3> HIDE DEF Vals
    <3> QED  BY <2>3 DEF TypeOK
  <2>5. stage'[0] = Op(x[1], x[2], answer[x[1]])
    BY <2>1, <2>2
  <2> HIDE DEF Vals
  <2> QED  BY <2>3, <2>4, <2>5 DEF Op, OpenOp
<1>4. ASSUME NEW j \in Active \ {0}
      PROVE  /\ j - 1 \in moving => stage'[j] \in OpenOp /\ SameOp(stage'[j], stage[j - 1])
             /\ j - 1 \notin moving /\ Valid(j) /\ j \notin moving =>
                   stage'[j] \in OpenOp /\ SameOp(stage'[j], stage[j])
             /\ j - 1 \notin moving /\ (~Valid(j) \/ j \in moving) => stage'[j] = Empty
  <2>0. /\ j - 1 \in moving => stage[j - 1] \in OpenOp
        /\ Valid(j) => stage[j] \in OpenOp
    BY <1>1, <1>2
  <2>1. CASE j = STATE_LOAD
    <3>1. stage'[j] = IF j - 1 \in moving THEN Forwarded(stage[j - 1])
                   ELSE IF Valid(j) /\ j \notin moving THEN Forwarded(stage[j]) ELSE Empty
      BY <2>1, StageAfter, Zenon
    <3>2. \A op \in OpenOp : Forwarded(op) \in OpenOp /\ SameOp(Forwarded(op), op)
      BY ForwardedKeeps DEF SameOp
    <3> QED  BY <2>0, <3>1, <3>2, Zenon
  <2>2. CASE j = WRITE_BACK
    <3>1. stage'[j] = IF j - 1 \in moving THEN MainOp(stage[j - 1])
                   ELSE IF Valid(j) /\ j \notin moving THEN stage[j] ELSE Empty
      BY <2>2, StageAfter, Zenon
    <3>2. \A op \in OpenOp : MainOp(op) \in OpenOp /\ SameOp(MainOp(op), op) /\ SameOp(op, op)
      BY MainOpKeeps DEF SameOp
    <3> QED  BY <2>0, <3>1, <3>2, Zenon
  <2>3. CASE j \notin {STATE_LOAD, WRITE_BACK}
    <3>1. stage'[j] = IF j - 1 \in moving THEN stage[j - 1]
                   ELSE IF Valid(j) /\ j \notin moving THEN stage[j] ELSE Empty
      BY <2>3, StageAfter, Zenon
    <3>2. \A op \in OpenOp : SameOp(op, op)
      BY DEF SameOp
    <3> QED  BY <2>0, <3>1, <3>2, Zenon
  <2> QED  BY <2>1, <2>2, <2>3
<1>5. /\ r = {} /\ Valid(0) /\ 0 \notin moving => stage'[0] = stage[0]
      /\ r = {} /\ (~Valid(0) \/ 0 \in moving) => stage'[0] = Empty
  BY StageAfter, Zenon
<1> QED  BY <1>3, <1>4, <1>5

\* Every stage holds an operation of its kind or nothing.
LEMMA StageTypes ==
    ASSUME TypeOK, NEW moving, LeaveInTurn(moving), NEW r \in AtMostOne(reads),
           \A x \in reads : state_array[x[1]] = x[2],
           stage' = NextStage(moving, r)
    PROVE  /\ stage' \in [Stages -> OpenOp \cup DoneOp \cup {Empty}]
           /\ \A i \in Active : stage'[i] # Empty => stage'[i] \in OpenOp
           /\ \A i \in Stages \ Active : stage'[i] # Empty => stage'[i] \in DoneOp
<1>1. ASSUME NEW j \in Active PROVE stage'[j] \in OpenOp \cup {Empty}
  <2>1. CASE j = 0
    <3>1. CASE r = {}
      <4>1. stage'[0] = stage[0] \/ stage'[0] = Empty
        BY <3>1, OpsMove, Zenon
      <4> QED  BY <2>1, <4>1 DEF TypeOK, Valid
    <3>2. CASE r # {}
      BY <2>1, <3>2, OpsMove, Zenon
    <3> QED  BY <3>1, <3>2
  <2>2. CASE j # 0
    BY <2>2, OpsMove, Zenon
  <2> QED  BY <2>1, <2>2
<1>2. ASSUME NEW j \in Stages \ Active PROVE stage'[j] \in DoneOp \cup {Empty}
  <2>1. stage[j] \in DoneOp \cup {Empty}
    BY DEF TypeOK, Valid
  <2>2. CASE WAIT_FOR_WRITE_ACK \notin moving
    BY <2>1, <2>2, StageAfter, Zenon
  <2>3. CASE WAIT_FOR_WRITE_ACK \in moving
    <3>1. j - 1 = WAIT_FOR_WRITE_ACK \/ j - 1 \in Stages \ Active
      BY StageNumbers, SMT DEF Stages, Active
    <3>2. stage'[j] = IF j - 1 = WAIT_FOR_WRITE_ACK THEN Finished(stage[j - 1]) ELSE stage[j - 1]
      BY <2>3, StageAfter, Zenon
    <3>3. CASE j - 1 = WAIT_FOR_WRITE_ACK
      <4>1. stage[j - 1] \in OpenOp
        BY <2>3, <3>3 DEF LeaveInTurn, TypeOK
      <4> QED  BY <3>2, <3>3, <4>1, FinishedIsDone
    <3>4. CASE j - 1 # WAIT_FOR_WRITE_ACK
      <4>1. stage[j - 1] \in DoneOp \cup {Empty}
        BY <3>1, <3>4 DEF TypeOK, Valid
      <4> QED  BY <3>2, <3>4, <4>1
    <3> QED  BY <3>3, <3>4
  <2> QED  BY <2>2, <2>3
<1>3. stage' = [i \in Stages |-> stage'[i]]
  BY DEF NextStage
<1>4. \A i \in Stages : stage'[i] \in OpenOp \cup DoneOp \cup {Empty}
  BY <1>1, <1>2
<1>5. stage' \in [Stages -> OpenOp \cup DoneOp \cup {Empty}]
  BY <1>3, <1>4, Zenon
<1> QED  BY <1>1, <1>2, <1>5

\* The stage an operation that does not finish is in after an edge.
After(moving, i) == IF i \in moving THEN i + 1 ELSE i

\* Every operation in the pipeline was in it before, or is the read that is answered.
LEMMA OpsComeFrom ==
    ASSUME TypeOK, NEW moving, LeaveInTurn(moving), NEW r \in AtMostOne(reads),
           \A x \in reads : state_array[x[1]] = x[2],
           stage' = NextStage(moving, r),
           NEW j \in Active, stage'[j] # Empty
    PROVE  \/ j = 0 /\ \E x \in r : stage'[0].id = x[1] /\ stage'[0].addr = x[2]
           \/ \E i \in Active : /\ Valid(i) /\ ~(i = WAIT_FOR_WRITE_ACK /\ i \in moving)
                                /\ j = After(moving, i) /\ SameOp(stage'[j], stage[i])
<1>1. CASE j = 0 /\ r # {}
  <2>1. PICK x \in r : TRUE
    BY <1>1
  <2>2. stage'[0] = Op(x[1], x[2], answer[x[1]])
    BY OpsMove
  <2> QED  BY <1>1, <2>1, <2>2 DEF Op
<1>2. CASE j = 0 /\ r = {}
  <2>1. Valid(0) /\ 0 \notin moving /\ stage'[0] = stage[0]
    BY <1>2, OpsMove, Zenon
  <2>2. 0 \in Active /\ After(moving, 0) = 0
    BY <1>2, <2>1 DEF After
  <2> QED  BY <1>2, <2>1, <2>2 DEF SameOp
<1>3. CASE j # 0
  <2>1. \/ j - 1 \in moving /\ SameOp(stage'[j], stage[j - 1])
        \/ j - 1 \notin moving /\ Valid(j) /\ j \notin moving /\ SameOp(stage'[j], stage[j])
    BY <1>3, OpsMove, Zenon
  <2>2. CASE j - 1 \in moving /\ SameOp(stage'[j], stage[j - 1])
    <3>1. j - 1 \in Active /\ Valid(j - 1)
      BY <2>2 DEF LeaveInTurn
    <3>2. j - 1 # WAIT_FOR_WRITE_ACK
      BY StageNumbers, SMT DEF Active
    <3>3. After(moving, j - 1) = j
      <4>1. j \in Nat
        BY StageNumbers, SMT DEF Active
      <4> QED  BY <2>2, <4>1, SMT DEF After
    <3> QED  BY <2>2, <3>1, <3>2, <3>3
  <2>3. CASE Valid(j) /\ j \notin moving /\ SameOp(stage'[j], stage[j])
    BY <2>3 DEF After
  <2> QED  BY <2>1, <2>2, <2>3
<1> QED  BY <1>1, <1>2, <1>3

\* Every operation in the pipeline stays in it, unless it is the one that finishes.
LEMMA OpsGoTo ==
    ASSUME TypeOK, NEW moving, LeaveInTurn(moving), NEW r \in AtMostOne(reads),
           r # {} => ~Valid(0) \/ 0 \in moving,
           \A x \in reads : state_array[x[1]] = x[2],
           stage' = NextStage(moving, r),
           NEW i \in Active, Valid(i), ~(i = WAIT_FOR_WRITE_ACK /\ i \in moving)
    PROVE  /\ After(moving, i) \in Active
           /\ stage'[After(moving, i)] # Empty
           /\ SameOp(stage'[After(moving, i)], stage[i])
<1>1. CASE i \in moving
  <2>1. i + 1 \in Active \ {0} /\ (i + 1) - 1 = i
    BY <1>1, StageNumbers, SMT DEF Active
  <2>2. stage'[i + 1] \in OpenOp /\ SameOp(stage'[i + 1], stage[(i + 1) - 1])
    BY <1>1, <2>1, OpsMove, Zenon
  <2> QED  BY <1>1, <2>1, <2>2, OpenIsValid DEF After
<1>2. CASE i \notin moving /\ i = 0
  <2>1. stage'[0] = stage[0]
    BY <1>2, OpsMove, Zenon
  <2> QED  BY <1>2, <2>1 DEF After, SameOp, Valid
<1>3. CASE i \notin moving /\ i # 0
  <2>1. i - 1 \notin moving
    <3>1. SUFFICES ASSUME i - 1 \in moving PROVE FALSE
      OBVIOUS
    <3>2. i - 1 # WAIT_FOR_WRITE_ACK /\ (i - 1) + 1 = i
      BY StageNumbers, SMT DEF Active
    <3> QED  BY <3>1, <3>2, <1>3 DEF LeaveInTurn
  <2>2. stage'[i] \in OpenOp /\ SameOp(stage'[i], stage[i])
    BY <1>3, <2>1, OpsMove, Zenon
  <2> QED  BY <1>3, <2>2, OpenIsValid DEF After
<1> QED  BY <1>1, <1>2, <1>3

---------------------------------------------------------------------------
(* One clock edge by what it does: accept and dispatch tell whether a request is taken *)
(* from dataIn and sent to ar, moving which stages leave, taken which read is answered. *)

\* The id that comes back.
Returned(moving) == {stage[i].id : i \in moving \cap {WAIT_FOR_WRITE_ACK}}

\* What an edge does to ooo_fifo and dataIn_reg, and to everything else.
RingEdge(in, accept, dispatch, returned) ==
    /\ accept \in BOOLEAN
    /\ dispatch \in BOOLEAN
    /\ accept => in # {} /\ ~item_valid[write_ptr] /\ (din_reg = {} \/ dispatch)
    /\ dispatch => din_reg # {}
    /\ write_ptr' = IF accept THEN NextPtr(write_ptr) ELSE write_ptr
    /\ read_ptr' = IF dispatch THEN NextPtr(read_ptr) ELSE read_ptr
    /\ looped' = ((accept /\ write_ptr = MAX_DEPTH) \/ (looped /\ ~(dispatch /\ read_ptr = MAX_DEPTH)))
    /\ item_valid' = NextItemValid(accept, returned)
    /\ item_write_lock' = NextItemWriteLock(accept, dispatch, returned)
    /\ din_reg' = IF accept THEN in ELSE IF dispatch THEN {} ELSE din_reg

\* What an edge does to the memory: the write that is acknowledged is seen, the read that
\* is answered has been sampled, and no other one has waited for too long.
MemoryEdge(moving, taken) ==
    /\ WAIT_FOR_WRITE_ACK \in moving => ~Unseen(WAIT_FOR_WRITE_ACK)
    /\ taken \subseteq Sampled
    /\ unseen' = IF WRITE_BACK \in moving THEN unseen \cup {stage[WRITE_BACK].id} ELSE unseen
    /\ visible' = visible
    /\ answer' = NextAnswer(taken)
    /\ age' = NextAge(moving, taken)
    /\ \A n \in Slots : age'[n] <= READ_LATENCY

Edge(in, accept, dispatch, moving, taken) ==
    /\ LeaveInTurn(moving)
    /\ taken \in AtMostOne(reads)
    /\ taken # {} => ~Valid(0) \/ 0 \in moving
    /\ RingEdge(in, accept, dispatch, Returned(moving))
    /\ state_array' = [i \in Slots |->
            IF dispatch /\ i = read_ptr THEN CHOOSE a \in Addrs : a \in din_reg
            ELSE IF i \in Returned(moving) THEN NoAddr ELSE state_array[i]]
    /\ stage' = NextStage(moving, taken)
    /\ memory' = IF WRITE_BACK \in moving
                  THEN [memory EXCEPT ![stage[WRITE_BACK].addr] = stage[WRITE_BACK].data]
                  ELSE memory
    /\ reads' = (reads \ taken) \cup (IF dispatch THEN {read_ptr} \X din_reg ELSE {})
    /\ MemoryEdge(moving, taken)
    /\ reported' = [a \in Addrs |->
            IF \E i \in moving \cap {WAIT_FOR_WRITE_ACK} : stage[i].addr = a
            THEN stage[WAIT_FOR_WRITE_ACK].data ELSE reported[a]]

\* A clock edge of the specification is one of these edges: the five inputs of Cycle
\* come down to which transfers take place.
LEMMA TickIsAnEdge ==
    ASSUME TypeOK, Tick
    PROVE  \E in \in AtMostOne(Addrs), accept, dispatch \in BOOLEAN,
              moving \in SUBSET Active, taken \in AtMostOne(reads) :
              Edge(in, accept, dispatch, moving, taken)
<1>1. PICK in \in AtMostOne(Addrs), r \in AtMostOne(reads), ar_ready \in BOOLEAN,
           w_ready \in BOOLEAN, finish \in BOOLEAN :
           Cycle(in, ar_ready, r, w_ready, finish) /\ (finish => MayAcknowledge) /\ r \subseteq Sampled
  <2>1. PICK in \in IF WriteConfirmRd THEN AtMostOne(Addrs) ELSE {{}},
           r \in AtMostOne(Sampled),
           ar_ready \in {FALSE, din_reg # {} /\ ReadExecuteVld},
           w_ready \in {FALSE, Valid(WRITE_BACK)},
           finish \in {FALSE, MayAcknowledge} : Cycle(in, ar_ready, r, w_ready, finish)
    BY DEF Tick
  <2>2. in \in AtMostOne(Addrs)
    BY <2>1 DEF AtMostOne
  <2>3. ar_ready \in BOOLEAN /\ w_ready \in BOOLEAN
    BY Zenon DEF ReadExecuteVld, ReadWait, Valid
  <2>4. finish \in BOOLEAN /\ (finish => MayAcknowledge)
    BY <2>1, Zenon DEF MayAcknowledge, Unseen, Valid
  <2>5. r \subseteq Sampled /\ r \in AtMostOne(reads)
    BY <2>1 DEF AtMostOne, Sampled
  <2> QED  BY <2>1, <2>2, <2>3, <2>4, <2>5
<1> DEFINE moving == Leaving(w_ready, finish)
           taken == IF InReady(w_ready, finish)[0] THEN r ELSE {}
           accept == in # {} /\ DinRd(ar_ready)
           dispatch == Dispatch(ar_ready)
           finished == {stage[i] : i \in moving \cap {WAIT_FOR_WRITE_ACK}}
           returned == {op.id : op \in finished}
<1>2. /\ OooFifoCycle(in # {} /\ (din_reg = {} \/ Dispatch(ar_ready)), din_reg # {} /\ ar_ready, returned)
      /\ din_reg' = NextDinReg(in, ar_ready)
      /\ state_array' = NextStateArray(ar_ready, returned)
      /\ stage' = NextStage(moving, taken)
      /\ memory' = IF WRITE_BACK \in moving
                    THEN [memory EXCEPT ![stage[WRITE_BACK].addr] = stage[WRITE_BACK].data]
                    ELSE memory
      /\ reads' = (reads \ taken) \cup (IF Dispatch(ar_ready) THEN {read_ptr} \X din_reg ELSE {})
      /\ unseen' = IF WRITE_BACK \in moving THEN unseen \cup {stage[WRITE_BACK].id} ELSE unseen
      /\ visible' = visible
      /\ answer' = NextAnswer(taken)
      /\ age' = NextAge(moving, taken)
      /\ \A n \in Slots : age'[n] <= READ_LATENCY
      /\ reported' = [a \in Addrs |->
               IF \E op \in finished : op.addr = a THEN (CHOOSE op \in finished : TRUE).data
               ELSE reported[a]]
  BY <1>1 DEF Cycle
<1>3. LeaveInTurn(moving) /\ (taken # {} => ~Valid(0) \/ 0 \in moving)
  BY Moving DEF LeaveInTurn
<1>4. taken \in AtMostOne(reads)
  BY DEF AtMostOne
<1> HIDE DEF moving, taken
<1>5. returned = Returned(moving)
  BY Zenon DEF Returned
<1> accept \in BOOLEAN /\ dispatch \in BOOLEAN
  BY Zenon DEF DinRd, Dispatch
<1>6. RingEdge(in, accept, dispatch, returned)
  <2> HIDE DEF returned
  <2> DEFINE vld == in # {} /\ (din_reg = {} \/ Dispatch(ar_ready))
             rd == din_reg # {} /\ ar_ready
  <2>1. (vld /\ WriteConfirmRd) = accept
    BY DEF DinRd
  <2>2. (rd /\ ~ReadWait) = dispatch
    BY DEF Dispatch, ReadExecuteVld
  <2>3. FifoWrite(accept) = accept
    BY DEF FifoWrite, DinRd, WriteConfirmRd, WriteWait
  <2>4. FifoRead(dispatch) = dispatch
    BY DEF FifoRead, Dispatch, ReadExecuteVld, ReadWait
  <2>5. /\ PointersCycle(accept, dispatch)
        /\ item_valid' = NextItemValid(accept, returned)
        /\ item_write_lock' = NextItemWriteLock(accept, dispatch, returned)
    <3> HIDE DEF accept, dispatch, vld, rd
    <3>1. OooFifoCycle(vld, rd, returned)
      BY <1>2 DEF vld, rd
    <3>2. /\ PointersCycle(vld /\ WriteConfirmRd, rd /\ ~ReadWait)
          /\ item_valid' = NextItemValid(FifoWrite(vld /\ WriteConfirmRd), returned)
          /\ item_write_lock' = NextItemWriteLock(FifoWrite(vld /\ WriteConfirmRd), rd /\ ~ReadWait, returned)
      BY <3>1, Zenon DEF OooFifoCycle
    <3> QED  BY <3>2, <2>1, <2>2, <2>3, Zenon
  <2>6. accept => in # {} /\ ~item_valid[write_ptr] /\ (din_reg = {} \/ dispatch)
    BY DEF DinRd, WriteConfirmRd
  <2>7. dispatch => din_reg # {}
    BY DEF Dispatch
  <2>8. din_reg' = IF accept THEN in ELSE IF dispatch THEN {} ELSE din_reg
    BY <1>2 DEF NextDinReg
  <2> HIDE DEF accept, dispatch
  <2>9. /\ write_ptr' = IF accept THEN NextPtr(write_ptr) ELSE write_ptr
        /\ read_ptr' = IF dispatch THEN NextPtr(read_ptr) ELSE read_ptr
        /\ looped' = ((accept /\ write_ptr = MAX_DEPTH) \/ (looped /\ ~(dispatch /\ read_ptr = MAX_DEPTH)))
    BY <2>3, <2>4, <2>5, Zenon DEF PointersCycle, NextLooped
  <2> QED  BY <2>5, <2>6, <2>7, <2>8, <2>9 DEF RingEdge
<1>7. MemoryEdge(moving, taken)
  <2>1. WAIT_FOR_WRITE_ACK \in moving => ~Unseen(WAIT_FOR_WRITE_ACK)
    <3>1. SUFFICES ASSUME WAIT_FOR_WRITE_ACK \in moving PROVE finish
      BY <1>1, Zenon DEF MayAcknowledge
    <3>2. WAIT_FOR_WRITE_ACK \in Active /\ Valid(WAIT_FOR_WRITE_ACK)
          /\ InReady(w_ready, finish)[WAIT_FOR_WRITE_ACK]
      BY <3>1 DEF moving, Leaving
    <3> QED  BY <3>2, ReadyEquation
  <2>2. taken \subseteq Sampled
    BY <1>1 DEF taken
  <2> QED  BY <1>2, <2>1, <2>2 DEF MemoryEdge
<1>8. reported' = [a \in Addrs |->
            IF \E i \in moving \cap {WAIT_FOR_WRITE_ACK} : stage[i].addr = a
            THEN stage[WAIT_FOR_WRITE_ACK].data ELSE reported[a]]
  <2>1. ASSUME NEW a \in Addrs, \E op \in finished : op.addr = a
        PROVE  (CHOOSE op \in finished : TRUE).data = stage[WAIT_FOR_WRITE_ACK].data
    <3>1. finished = {stage[WAIT_FOR_WRITE_ACK]}
      BY <2>1, Zenon
    <3> HIDE DEF finished
    <3>2. (CHOOSE op \in finished : TRUE) \in finished
      BY <3>1, Zenon
    <3>3. (CHOOSE op \in finished : TRUE) = stage[WAIT_FOR_WRITE_ACK]
      BY <3>1, <3>2
    <3> QED  BY <3>3, Zenon
  <2>2. \A a \in Addrs : (\E op \in finished : op.addr = a) <=>
                           (\E i \in moving \cap {WAIT_FOR_WRITE_ACK} : stage[i].addr = a)
    BY Zenon
  <2> HIDE DEF finished
  <2> QED  BY <1>2, <2>1, <2>2, Zenon
<1>9. state_array' = [i \in Slots |->
            IF dispatch /\ i = read_ptr THEN CHOOSE a \in Addrs : a \in din_reg
            ELSE IF i \in returned THEN NoAddr ELSE state_array[i]]
  BY <1>2, Zenon DEF NextStateArray
<1>10. reads' = (reads \ taken) \cup (IF dispatch THEN {read_ptr} \X din_reg ELSE {})
  BY <1>2
<1> HIDE DEF accept, dispatch, returned
<1>11. Edge(in, accept, dispatch, moving, taken)
  BY <1>2, <1>3, <1>4, <1>5, <1>6, <1>7, <1>8, <1>9, <1>10, Zenon DEF Edge
<1>12. moving \in SUBSET Active
  BY <1>3 DEF LeaveInTurn
<1> QED  BY <1>4, <1>11, <1>12

---------------------------------------------------------------------------
(* The invariant of the ids *)

\* Id n is under way in the memory, in the pipeline.
InReads(n) == \E x \in reads : x[1] = n
InPipe(n) == \E i \in Active : Valid(i) /\ stage[i].id = n

\* At most one item waits in ooo_fifo, the one din_reg holds the request of.
OneWaits ==
    /\ din_reg = {} => write_ptr = read_ptr /\ ~looped
    /\ din_reg # {} => write_ptr = NextPtr(read_ptr) /\ (looped <=> read_ptr = MAX_DEPTH)

IdsDiffer ==
    /\ \A x, y \in reads : x[1] = y[1] => x = y
    /\ \A i, j \in Active : Valid(i) /\ Valid(j) /\ stage[i].id = stage[j].id => i = j
    /\ \A n \in Slots : ~(InReads(n) /\ InPipe(n))
    /\ din_reg # {} => ~InReads(read_ptr) /\ ~InPipe(read_ptr)

\* The valid items of ooo_fifo are those of an operation somewhere.
IdsAllocated ==
    \A n \in Slots : item_valid[n] <=> (din_reg # {} /\ n = read_ptr) \/ InReads(n) \/ InPipe(n)

IdsLocked == \A n \in Slots : InReads(n) \/ InPipe(n) => item_write_lock[n]

AddressesKept == \A x \in reads : state_array[x[1]] = x[2]

\* The inductive invariant of the ids.
IdInv == TypeOK /\ OneWaits /\ IdsDiffer /\ IdsAllocated /\ IdsLocked /\ AddressesKept

\* Power-up: no id is in use.
LEMMA InitIdInv == Init => IdInv
<1> SUFFICES ASSUME Init PROVE IdInv
  OBVIOUS
<1>1. 0 \in Slots /\ 0 \in Vals
  BY DepthAssumption, StateAssumption, SMT DEF Slots, MAX_DEPTH, Vals
<1>2. \A i \in Stages : ~Valid(i)
  BY DEF Init, Valid
<1>3. Active \subseteq Stages
  BY StageNumbers, SMT DEF Active, Stages
<1> HIDE DEF Vals
<1>4. TypeOK
  <2>1. stage \in [Stages -> OpenOp \cup DoneOp \cup {Empty}]
    BY DEF Init
  <2>2. memory \in [Addrs -> Vals] /\ visible \in [Addrs -> Vals] /\ reported \in [Addrs -> Vals]
    BY <1>1 DEF Init
  <2>7. unseen \in SUBSET Slots /\ answer \in [Slots -> Vals] /\ age \in [Slots -> -1 .. READ_LATENCY]
    <3>1. -1 \in -1 .. READ_LATENCY
      BY PipelineAssumption, SMT
    <3> QED  BY <1>1, <3>1 DEF Init
  <2>3. item_valid \in [Slots -> BOOLEAN] /\ item_write_lock \in [Slots -> BOOLEAN]
    BY DEF Init, OooFifoInit
  <2>4. state_array \in [Slots -> Addrs \cup {NoAddr}]
    BY DEF Init
  <2>5. write_ptr \in Slots /\ read_ptr \in Slots /\ looped \in BOOLEAN
    BY <1>1 DEF Init, OooFifoInit
  <2>6. din_reg \in AtMostOne(Addrs) /\ reads \in SUBSET (Slots \X Addrs)
    BY DEF Init, AtMostOne
  <2> QED  BY <1>2, <1>3, <2>1, <2>2, <2>3, <2>4, <2>5, <2>6, <2>7, Zenon DEF TypeOK
<1>5. \A n : ~InReads(n) /\ ~InPipe(n)
  BY <1>2, <1>3 DEF InReads, InPipe, Init
<1>6. OneWaits
  BY DEF OneWaits, Init, OooFifoInit
<1>7. IdsDiffer
  BY <1>2, <1>3, <1>5 DEF IdsDiffer, Init
<1>8. IdsAllocated /\ IdsLocked /\ AddressesKept
  BY <1>5 DEF IdsAllocated, IdsLocked, AddressesKept, Init, OooFifoInit
<1> QED  BY <1>4, <1>6, <1>7, <1>8 DEF IdInv

\* din_reg holds at most one request.
LEMMA DinRegHasOne ==
    ASSUME TypeOK, din_reg # {}
    PROVE  \E a \in Addrs : din_reg = {a} /\ (CHOOSE b \in Addrs : b \in din_reg) = a
  BY DEF TypeOK, AtMostOne

\* The ids under way in the memory after an edge.
LEMMA ReadIdsAfter ==
    ASSUME IdInv, NEW in, NEW accept, NEW dispatch, NEW moving, NEW taken,
           Edge(in, accept, dispatch, moving, taken)
    PROVE  /\ \A x \in reads' : \/ x \in reads /\ x \notin taken
                                \/ dispatch /\ din_reg = {x[2]} /\ x[1] = read_ptr /\ x \in Slots \X Addrs
           /\ \A x \in reads : x \notin taken => x \in reads'
           /\ \A n \in Slots : InReads(n)' <=>
                  \/ InReads(n) /\ ~(\E x \in taken : x[1] = n)
                  \/ dispatch /\ n = read_ptr
<1>0. dispatch => din_reg # {}
  BY DEF Edge, RingEdge
<1>1. reads' = (reads \ taken) \cup (IF dispatch THEN {read_ptr} \X din_reg ELSE {})
  BY DEF Edge
<1>2. \A x \in reads' : \/ x \in reads /\ x \notin taken
                        \/ dispatch /\ din_reg = {x[2]} /\ x[1] = read_ptr /\ x \in Slots \X Addrs
  <2> SUFFICES ASSUME NEW x \in reads', ~(x \in reads /\ x \notin taken)
               PROVE  dispatch /\ din_reg = {x[2]} /\ x[1] = read_ptr /\ x \in Slots \X Addrs
    OBVIOUS
  <2>1. dispatch /\ x \in {read_ptr} \X din_reg
    BY <1>1
  <2>2. PICK a \in Addrs : din_reg = {a}
    BY <2>1, <1>0, DinRegHasOne DEF IdInv
  <2>3. read_ptr \in Slots
    BY DEF IdInv, TypeOK
  <2> QED  BY <2>1, <2>2, <2>3
<1>3. \A x \in reads : x \notin taken => x \in reads'
  BY <1>1
<1>4. ASSUME NEW n \in Slots
      PROVE  InReads(n)' <=> \/ InReads(n) /\ ~(\E x \in taken : x[1] = n)
                             \/ dispatch /\ n = read_ptr
  <2>1. ASSUME InReads(n)', ~(dispatch /\ n = read_ptr)
        PROVE  InReads(n) /\ ~(\E x \in taken : x[1] = n)
    <3>1. PICK x \in reads' : x[1] = n
      BY <2>1 DEF InReads
    <3>2. x \in reads /\ x \notin taken
      BY <3>1, <2>1, <1>2
    <3>3. \A y \in taken : y \in reads
      BY DEF Edge, AtMostOne
    <3>4. \A y \in taken : y[1] # n
      BY <3>1, <3>2, <3>3 DEF IdInv, IdsDiffer
    <3> QED  BY <3>1, <3>2, <3>4 DEF InReads
  <2>2. ASSUME InReads(n), ~(\E x \in taken : x[1] = n)
        PROVE  InReads(n)'
    BY <2>2, <1>3 DEF InReads
  <2>3. ASSUME dispatch, n = read_ptr PROVE InReads(n)'
    <3>1. PICK a \in Addrs : din_reg = {a}
      BY <2>3, <1>0, DinRegHasOne DEF IdInv
    <3>2. <<read_ptr, a>> \in reads'
      BY <1>1, <2>3, <3>1
    <3> QED  BY <2>3, <3>2 DEF InReads
  <2> QED  BY <2>1, <2>2, <2>3
<1> QED  BY <1>2, <1>3, <1>4

\* The ids in the pipeline after an edge.
LEMMA PipeIdsAfter ==
    ASSUME IdInv, NEW in, NEW accept, NEW dispatch, NEW moving, NEW taken,
           Edge(in, accept, dispatch, moving, taken)
    PROVE  \A n \in Slots : InPipe(n)' <=>
              \/ InPipe(n) /\ n \notin Returned(moving)
              \/ \E x \in taken : x[1] = n
<1>1. /\ TypeOK /\ LeaveInTurn(moving) /\ taken \in AtMostOne(reads)
      /\ taken # {} => ~Valid(0) \/ 0 \in moving
      /\ \A x \in reads : state_array[x[1]] = x[2]
      /\ stage' = NextStage(moving, taken)
  BY DEF Edge, IdInv, AddressesKept
<1>2. WAIT_FOR_WRITE_ACK \in Active /\ 0 \in Active
  BY StageNumbers, SMT DEF Active
<1> TAKE n \in Slots
<1>3. ASSUME InPipe(n)', ~(\E x \in taken : x[1] = n)
      PROVE  InPipe(n) /\ n \notin Returned(moving)
  <2>1. PICK j \in Active : stage'[j] # Empty /\ stage'[j].id = n
    BY <1>3 DEF InPipe, Valid, Active
  <2>2. ~(j = 0 /\ \E x \in taken : stage'[0].id = x[1] /\ stage'[0].addr = x[2])
    BY <2>1, <1>3
  <2>3. PICK i \in Active : Valid(i) /\ ~(i = WAIT_FOR_WRITE_ACK /\ i \in moving) /\ SameOp(stage'[j], stage[i])
    BY <1>1, <2>1, <2>2, OpsComeFrom, Zenon
  <2>4. stage[i].id = n
    BY <2>1, <2>3 DEF SameOp
  <2>5. n \notin Returned(moving)
    BY <1>1, <1>2, <2>3, <2>4 DEF Returned, IdInv, IdsDiffer, LeaveInTurn
  <2> QED  BY <2>3, <2>4, <2>5 DEF InPipe
<1>4. ASSUME InPipe(n), n \notin Returned(moving) PROVE InPipe(n)'
  <2>1. PICK i \in Active : Valid(i) /\ stage[i].id = n
    BY <1>4 DEF InPipe
  <2>2. ~(i = WAIT_FOR_WRITE_ACK /\ i \in moving)
    BY <1>4, <2>1 DEF Returned
  <2>3. /\ After(moving, i) \in Active
        /\ stage'[After(moving, i)] # Empty
        /\ SameOp(stage'[After(moving, i)], stage[i])
    BY <1>1, <2>1, <2>2, OpsGoTo
  <2> QED  BY <2>1, <2>3 DEF InPipe, Valid, SameOp, Active
<1>5. ASSUME NEW x \in taken, x[1] = n PROVE InPipe(n)'
  <2>1. stage'[0] \in OpenOp /\ stage'[0] = Op(x[1], x[2], answer[x[1]])
    BY <1>1, OpsMove
  <2>2. stage'[0] # Empty /\ stage'[0].id = n
    BY <2>1, <1>5, OpenIsValid DEF Op
  <2> QED  BY <2>2, <1>2 DEF InPipe, Valid, Active
<1> QED  BY <1>3, <1>4, <1>5

\* The successor of a slot is a slot.
LEMMA PointersMove ==
    /\ \A p \in Slots : NextPtr(p) \in Slots
    /\ MAX_DEPTH \in Slots
    /\ \A p \in Slots : p = MAX_DEPTH => NextPtr(p) = 0
  BY DepthAssumption, SMT DEF NextPtr, Slots, MAX_DEPTH

\* ooo_fifo never holds more than the one request in dataIn_reg.
LEMMA EdgeOneWaits ==
    ASSUME IdInv, NEW in \in AtMostOne(Addrs), NEW accept, NEW dispatch, NEW moving, NEW taken,
           Edge(in, accept, dispatch, moving, taken)
    PROVE  OneWaits'
<1>1. RingEdge(in, accept, dispatch, Returned(moving)) /\ OneWaits /\ TypeOK
  BY DEF Edge, IdInv
<1>2. CASE accept
  <2>1. in # {} /\ din_reg' = in /\ write_ptr' = NextPtr(write_ptr)
    BY <1>1, <1>2, Zenon DEF RingEdge
  <2>2. CASE din_reg = {}
    <3>1. ~dispatch
      BY <1>1, <2>2, Zenon DEF RingEdge
    <3>2. write_ptr = read_ptr /\ ~looped
      BY <1>1, <2>2, Zenon DEF OneWaits
    <3>3. read_ptr' = read_ptr /\ looped' = (write_ptr = MAX_DEPTH)
      BY <1>1, <1>2, <3>1, <3>2, Zenon DEF RingEdge
    <3> QED  BY <2>1, <3>2, <3>3 DEF OneWaits
  <2>3. CASE din_reg # {}
    <3>1. dispatch
      BY <1>1, <1>2, <2>3, Zenon DEF RingEdge
    <3>2. write_ptr = NextPtr(read_ptr) /\ (looped <=> read_ptr = MAX_DEPTH)
      BY <1>1, <2>3, Zenon DEF OneWaits
    <3>3. read_ptr' = write_ptr /\ looped' = (write_ptr = MAX_DEPTH)
      BY <1>1, <1>2, <3>1, <3>2, Zenon DEF RingEdge
    <3> QED  BY <2>1, <3>2, <3>3 DEF OneWaits
  <2> QED  BY <2>2, <2>3
<1>3. CASE ~accept /\ dispatch
  <2>1. din_reg # {} /\ din_reg' = {} /\ write_ptr' = write_ptr /\ read_ptr' = NextPtr(read_ptr)
    BY <1>1, <1>3, Zenon DEF RingEdge
  <2>2. write_ptr = NextPtr(read_ptr) /\ (looped <=> read_ptr = MAX_DEPTH)
    BY <1>1, <2>1, Zenon DEF OneWaits
  <2>3. looped' = FALSE
    BY <1>1, <1>3, <2>2, Zenon DEF RingEdge
  <2> QED  BY <2>1, <2>2, <2>3 DEF OneWaits
<1>4. CASE ~accept /\ ~dispatch
  <2>1. din_reg' = din_reg /\ write_ptr' = write_ptr /\ read_ptr' = read_ptr /\ looped' = looped
    BY <1>1, <1>4, Zenon DEF RingEdge, TypeOK
  <2> QED  BY <1>1, <2>1 DEF OneWaits
<1>5. accept \in BOOLEAN /\ dispatch \in BOOLEAN
  BY <1>1 DEF RingEdge
<1> QED  BY <1>2, <1>3, <1>4, <1>5

\* The item a request gets is not in use, and it is the next to be handed out.
LEMMA AcceptedIsFree ==
    ASSUME IdInv, NEW in, NEW accept, NEW dispatch, NEW moving, NEW taken,
           Edge(in, accept, dispatch, moving, taken)
    PROVE  /\ accept => ~InReads(write_ptr) /\ ~InPipe(write_ptr) /\ ~(din_reg # {} /\ write_ptr = read_ptr)
           /\ accept => read_ptr' = write_ptr
           /\ din_reg' # {} => accept \/ (din_reg # {} /\ ~dispatch /\ read_ptr' = read_ptr)
<1>1. RingEdge(in, accept, dispatch, Returned(moving)) /\ OneWaits /\ TypeOK /\ IdsAllocated
  BY DEF Edge, IdInv
<1>2. write_ptr \in Slots /\ read_ptr \in Slots
  BY <1>1 DEF TypeOK
<1>3. ASSUME accept PROVE ~InReads(write_ptr) /\ ~InPipe(write_ptr) /\ ~(din_reg # {} /\ write_ptr = read_ptr)
  <2>1. ~item_valid[write_ptr]
    BY <1>1, <1>3, Zenon DEF RingEdge
  <2> QED  BY <1>1, <1>2, <2>1, Zenon DEF IdsAllocated
<1>4. ASSUME accept PROVE read_ptr' = write_ptr
  <2>1. CASE din_reg = {}
    BY <1>1, <1>4, <2>1, Zenon DEF RingEdge, OneWaits
  <2>2. CASE din_reg # {}
    BY <1>1, <1>4, <2>2, Zenon DEF RingEdge, OneWaits
  <2> QED  BY <2>1, <2>2
<1>5. din_reg' # {} => accept \/ (din_reg # {} /\ ~dispatch /\ read_ptr' = read_ptr)
  BY <1>1, Zenon DEF RingEdge
<1> QED  BY <1>3, <1>4, <1>5

\* No edge brings an id to a second place: neither the dispatch of a read, nor its
\* answer, nor a request that is accepted while another operation returns its id.
LEMMA EdgeIdsDiffer ==
    ASSUME IdInv, NEW in \in AtMostOne(Addrs), NEW accept, NEW dispatch, NEW moving, NEW taken,
           Edge(in, accept, dispatch, moving, taken)
    PROVE  IdsDiffer'
<1>1. /\ TypeOK /\ LeaveInTurn(moving) /\ taken \in AtMostOne(reads)
      /\ taken # {} => ~Valid(0) \/ 0 \in moving
      /\ \A x \in reads : state_array[x[1]] = x[2]
      /\ stage' = NextStage(moving, taken)
      /\ RingEdge(in, accept, dispatch, Returned(moving))
      /\ IdsDiffer
  BY DEF Edge, IdInv, AddressesKept
<1>2. \A n \in Slots : InReads(n)' <=>
                  \/ InReads(n) /\ ~(\E x \in taken : x[1] = n)
                  \/ dispatch /\ n = read_ptr
  BY ReadIdsAfter
<1>3. \A n \in Slots : InPipe(n)' <=>
              \/ InPipe(n) /\ n \notin Returned(moving)
              \/ \E x \in taken : x[1] = n
  BY PipeIdsAfter
<1>4. dispatch => din_reg # {}
  BY <1>1, Zenon DEF RingEdge
<1>5. \A x \in taken : InReads(x[1]) /\ x \in reads /\ x[1] \in Slots
  BY <1>1 DEF InReads, AtMostOne, TypeOK
<1>6. read_ptr \in Slots /\ write_ptr \in Slots
  BY <1>1 DEF TypeOK
<1>7. ASSUME NEW x \in reads', NEW y \in reads', x[1] = y[1]
      PROVE  x = y
  <2>1. \A z \in reads' : \/ z \in reads /\ z \notin taken
                          \/ dispatch /\ din_reg = {z[2]} /\ z[1] = read_ptr /\ z \in Slots \X Addrs
    BY ReadIdsAfter
  <2>2. CASE x \in reads /\ y \in reads
    BY <1>1, <1>7, <2>2 DEF IdsDiffer
  <2>3. CASE dispatch /\ din_reg = {x[2]} /\ x[1] = read_ptr /\ x \in Slots \X Addrs
    <3>1. ~InReads(read_ptr)
      BY <1>1, <1>4, <2>3, Zenon DEF IdsDiffer
    <3>2. y \notin reads
      BY <1>7, <2>3, <3>1 DEF InReads
    <3>3. din_reg = {y[2]} /\ y \in Slots \X Addrs
      BY <2>1, <3>2
    <3>4. y[2] = x[2]
      BY <2>3, <3>3
    <3>5. x = <<x[1], x[2]>> /\ y = <<y[1], y[2]>>
      BY <2>3, <3>3
    <3> QED  BY <1>7, <3>4, <3>5, Zenon
  <2>4. CASE dispatch /\ din_reg = {y[2]} /\ y[1] = read_ptr /\ y \in Slots \X Addrs
    <3>1. ~InReads(read_ptr)
      BY <1>1, <1>4, <2>4, Zenon DEF IdsDiffer
    <3>2. x \notin reads
      BY <1>7, <2>4, <3>1 DEF InReads
    <3>3. din_reg = {x[2]} /\ x \in Slots \X Addrs
      BY <2>1, <3>2
    <3>4. y[2] = x[2]
      BY <2>4, <3>3
    <3>5. x = <<x[1], x[2]>> /\ y = <<y[1], y[2]>>
      BY <2>4, <3>3
    <3> QED  BY <1>7, <3>4, <3>5, Zenon
  <2> QED  BY <2>1, <2>2, <2>3, <2>4
<1>8. ASSUME NEW j1 \in Active, NEW j2 \in Active, stage'[j1] # Empty, stage'[j2] # Empty,
             stage'[j1].id = stage'[j2].id
      PROVE  j1 = j2
  <2>1. ASSUME NEW j \in Active, stage'[j] # Empty
        PROVE  \/ j = 0 /\ \E x \in taken : stage'[0].id = x[1]
               \/ \E i \in Active : Valid(i) /\ j = After(moving, i) /\ stage'[j].id = stage[i].id
    <3>1. \/ j = 0 /\ \E x \in taken : stage'[0].id = x[1] /\ stage'[0].addr = x[2]
          \/ \E i \in Active : /\ Valid(i) /\ ~(i = WAIT_FOR_WRITE_ACK /\ i \in moving)
                               /\ j = After(moving, i) /\ SameOp(stage'[j], stage[i])
      BY <1>1, <2>1, OpsComeFrom
    <3> QED  BY <3>1 DEF SameOp
  <2>2. ASSUME NEW x \in taken, NEW i \in Active, Valid(i) PROVE x[1] # stage[i].id
    BY <1>1, <1>5, <2>2 DEF IdsDiffer, InPipe
  <2>3. ASSUME NEW i1 \in Active, NEW i2 \in Active, Valid(i1), Valid(i2), stage[i1].id = stage[i2].id
        PROVE  i1 = i2
    BY <1>1, <2>3 DEF IdsDiffer
  <2>4. \/ j1 = 0 /\ \E x \in taken : stage'[0].id = x[1]
        \/ \E i \in Active : Valid(i) /\ j1 = After(moving, i) /\ stage'[j1].id = stage[i].id
    BY <1>8, <2>1
  <2>5. \/ j2 = 0 /\ \E x \in taken : stage'[0].id = x[1]
        \/ \E i \in Active : Valid(i) /\ j2 = After(moving, i) /\ stage'[j2].id = stage[i].id
    BY <1>8, <2>1
  <2> QED  BY <1>8, <2>2, <2>3, <2>4, <2>5, Zenon
<1>9. ASSUME NEW n \in Slots, InReads(n)', InPipe(n)' PROVE FALSE
  <2>1. CASE dispatch /\ n = read_ptr
    BY <1>1, <1>3, <1>4, <1>5, <1>9, <2>1 DEF IdsDiffer
  <2>2. CASE InReads(n) /\ ~(\E x \in taken : x[1] = n)
    BY <1>1, <1>3, <1>9, <2>2 DEF IdsDiffer
  <2> QED  BY <1>2, <1>9, <2>1, <2>2
<1>10. ASSUME din_reg' # {} PROVE ~InReads(read_ptr)' /\ ~InPipe(read_ptr)'
  <2>0. read_ptr' \in Slots
    BY <1>1, <1>6, PointersMove, Zenon DEF RingEdge
  <2>1. \A n \in Slots : n = read_ptr' => (InReads(n)' <=> InReads(read_ptr)') /\ (InPipe(n)' <=> InPipe(read_ptr)')
    BY DEF InReads, InPipe
  <2>2. CASE accept
    <3>1. read_ptr' = write_ptr /\ ~InReads(write_ptr) /\ ~InPipe(write_ptr) /\ ~(din_reg # {} /\ write_ptr = read_ptr)
      BY <2>2, AcceptedIsFree, Zenon
    <3>2. \A n \in Slots : n = write_ptr => ~InReads(n)'  /\ ~InPipe(n)'
      <4>1. \A x \in taken : x[1] # write_ptr
        BY <1>5, <3>1, Zenon
      <4> QED  BY <1>2, <1>3, <1>4, <3>1, <4>1, Zenon
    <3>3. \A n \in Slots : n = read_ptr' => ~InReads(n)'  /\ ~InPipe(n)'
      BY <3>1, <3>2, Zenon
    <3> QED  BY <2>0, <2>1, <3>3
  <2>3. CASE din_reg # {} /\ ~dispatch /\ read_ptr' = read_ptr
    <3>1. ~InReads(read_ptr) /\ ~InPipe(read_ptr)
      BY <1>1, <2>3 DEF IdsDiffer
    <3>2. \A n \in Slots : n = read_ptr => ~InReads(n)'  /\ ~InPipe(n)'
      BY <1>2, <1>3, <1>5, <2>3, <3>1
    <3>3. \A n \in Slots : n = read_ptr' => ~InReads(n)'  /\ ~InPipe(n)'
      BY <2>3, <3>2, Zenon
    <3> QED  BY <2>0, <2>1, <3>3
  <2>4. accept \/ (din_reg # {} /\ ~dispatch /\ read_ptr' = read_ptr)
    BY <1>10, AcceptedIsFree
  <2> QED  BY <2>2, <2>3, <2>4
<1> QED  BY <1>7, <1>8, <1>9, <1>10 DEF IdsDiffer, Valid, Active

\* The id that is returned is the one of the operation in WAIT_FOR_WRITE_ACK.
LEMMA ReturnedIds ==
    ASSUME IdInv, NEW moving, LeaveInTurn(moving)
    PROVE  \A n \in Returned(moving) : n \in Slots /\ InPipe(n)
<1>1. \A i \in moving : i \in Active /\ Valid(i) /\ stage[i] \in OpenOp
  BY DEF LeaveInTurn, IdInv, TypeOK
<1> QED  BY <1>1 DEF Returned, InPipe, OpenOp

\* item_valid is kept by exactly the ids in use, and those handed out stay locked.
LEMMA EdgeIdsAllocated ==
    ASSUME IdInv, NEW in \in AtMostOne(Addrs), NEW accept, NEW dispatch, NEW moving, NEW taken,
           Edge(in, accept, dispatch, moving, taken)
    PROVE  IdsAllocated' /\ IdsLocked'
<1>1. /\ TypeOK /\ LeaveInTurn(moving) /\ taken \in AtMostOne(reads)
      /\ RingEdge(in, accept, dispatch, Returned(moving))
      /\ IdsDiffer /\ IdsAllocated /\ IdsLocked
  BY DEF Edge, IdInv
<1>2. \A n \in Slots : InReads(n)' <=>
                  \/ InReads(n) /\ ~(\E x \in taken : x[1] = n)
                  \/ dispatch /\ n = read_ptr
  BY ReadIdsAfter
<1>3. \A n \in Slots : InPipe(n)' <=>
              \/ InPipe(n) /\ n \notin Returned(moving)
              \/ \E x \in taken : x[1] = n
  BY PipeIdsAfter
<1>4. dispatch => din_reg # {}
  BY <1>1, Zenon DEF RingEdge
<1>5. \A x \in taken : InReads(x[1]) /\ x[1] \in Slots
  BY <1>1 DEF InReads, AtMostOne, TypeOK
<1>6. \A n \in Returned(moving) : n \in Slots /\ InPipe(n)
  BY <1>1, ReturnedIds
<1>7. read_ptr \in Slots /\ write_ptr \in Slots
  BY <1>1 DEF TypeOK
<1>8. /\ item_valid' = [i \in Slots |-> i \notin Returned(moving) /\ (item_valid[i] \/ (accept /\ write_ptr = i))]
      /\ item_write_lock' = NextItemWriteLock(accept, dispatch, Returned(moving))
  BY <1>1, Zenon DEF RingEdge, NextItemValid
<1>9. /\ accept => ~InReads(write_ptr) /\ ~InPipe(write_ptr) /\ ~(din_reg # {} /\ write_ptr = read_ptr)
      /\ accept => read_ptr' = write_ptr /\ din_reg' # {}
      /\ ~accept /\ ~dispatch => din_reg' = din_reg /\ read_ptr' = read_ptr
      /\ ~accept /\ dispatch => din_reg' = {}
  <2>1. /\ accept => ~InReads(write_ptr) /\ ~InPipe(write_ptr) /\ ~(din_reg # {} /\ write_ptr = read_ptr)
        /\ accept => read_ptr' = write_ptr
    BY AcceptedIsFree
  <2>2. accept => din_reg' # {}
    BY <1>1, Zenon DEF RingEdge
  <2>3. ~accept /\ ~dispatch => din_reg' = din_reg /\ read_ptr' = read_ptr
    BY <1>1, Zenon DEF RingEdge
  <2>4. ~accept /\ dispatch => din_reg' = {}
    BY <1>1, Zenon DEF RingEdge
  <2> QED  BY <2>1, <2>2, <2>3, <2>4
<1>10. ASSUME NEW n \in Slots
       PROVE  item_valid'[n] <=> (din_reg' # {} /\ n = read_ptr') \/ InReads(n)' \/ InPipe(n)'
  <2>1. item_valid'[n] <=> n \notin Returned(moving) /\ (item_valid[n] \/ (accept /\ write_ptr = n))
    BY <1>8
  <2>2. item_valid[n] <=> (din_reg # {} /\ n = read_ptr) \/ InReads(n) \/ InPipe(n)
    BY <1>1 DEF IdsAllocated
  <2>3. InReads(n)' <=> (InReads(n) /\ ~(\E x \in taken : x[1] = n)) \/ (dispatch /\ n = read_ptr)
    BY <1>2
  <2>4. InPipe(n)' <=> (InPipe(n) /\ n \notin Returned(moving)) \/ (\E x \in taken : x[1] = n)
    BY <1>3
  <2>5. n \in Returned(moving) => InPipe(n)
    BY <1>6
  <2>6. (\E x \in taken : x[1] = n) => InReads(n)
    BY <1>5
  <2>7. /\ ~(InReads(n) /\ InPipe(n))
        /\ din_reg # {} /\ n = read_ptr => ~InReads(n) /\ ~InPipe(n)
    BY <1>1 DEF IdsDiffer
  <2>8. accept /\ n = write_ptr => ~InReads(n) /\ ~InPipe(n) /\ ~(din_reg # {} /\ n = read_ptr)
    BY <1>9
  <2>9. (din_reg' # {} /\ n = read_ptr') <=>
           \/ accept /\ n = write_ptr
           \/ ~accept /\ ~dispatch /\ din_reg # {} /\ n = read_ptr
    <3>1. CASE accept
      BY <1>9, <3>1
    <3>2. CASE ~accept
      BY <1>9, <3>2
    <3> QED  BY <3>1, <3>2
  <2>10. item_valid'[n] <=>
            \/ accept /\ n = write_ptr
            \/ /\ n \notin Returned(moving)
               /\ (din_reg # {} /\ n = read_ptr) \/ InReads(n) \/ InPipe(n)
    BY <2>1, <2>2, <2>5, <2>8, Zenon
  <2>11. InReads(n)' \/ InPipe(n)' <=>
            \/ dispatch /\ n = read_ptr
            \/ (InReads(n) \/ InPipe(n)) /\ n \notin Returned(moving)
    BY <2>3, <2>4, <2>5, <2>6, <2>7, Zenon
  <2>12. din_reg # {} /\ n = read_ptr => n \notin Returned(moving)
    BY <2>5, <2>7, Zenon
  <2>13. accept /\ din_reg # {} => dispatch
    BY <1>1, Zenon DEF RingEdge
  <2> QED  BY <1>4, <2>9, <2>10, <2>11, <2>12, <2>13, Zenon
<1>11. ASSUME NEW n \in Slots, InReads(n)' \/ InPipe(n)'
       PROVE  item_write_lock'[n]
  <2>1. \/ InReads(n)
        \/ InPipe(n) /\ n \notin Returned(moving)
        \/ dispatch /\ n = read_ptr
    BY <1>2, <1>3, <1>5, <1>11
  <2>2. n \notin Returned(moving)
    <3>1. dispatch /\ n = read_ptr => ~InPipe(n)
      BY <1>1, <1>4 DEF IdsDiffer
    <3>2. InReads(n) => ~InPipe(n)
      BY <1>1 DEF IdsDiffer
    <3> QED  BY <1>6, <2>1, <3>1, <3>2
  <2>3. ~(accept /\ write_ptr = n)
    BY <1>4, <1>9, <2>1
  <2>4. item_valid[n]
    BY <1>1, <1>4, <2>1 DEF IdsAllocated
  <2>5. (dispatch /\ n = read_ptr) \/ item_write_lock[n]
    BY <1>1, <2>1 DEF IdsLocked
  <2>6. item_write_lock'[n] = /\ n \notin Returned(moving)
                              /\ ~(accept /\ write_ptr = n)
                              /\ IF read_ptr = n \/ (dispatch /\ NextPtr(read_ptr) = n)
                                 THEN item_valid[n] ELSE item_write_lock[n]
    BY <1>8 DEF NextItemWriteLock
  <2> QED  BY <2>2, <2>3, <2>4, <2>5, <2>6
<1> QED  BY <1>10, <1>11 DEF IdsAllocated, IdsLocked

\* state_array keeps the address of a read until its answer comes.
LEMMA EdgeAddressesKept ==
    ASSUME IdInv, NEW in \in AtMostOne(Addrs), NEW accept, NEW dispatch, NEW moving, NEW taken,
           Edge(in, accept, dispatch, moving, taken)
    PROVE  AddressesKept'
<1>1. /\ TypeOK /\ LeaveInTurn(moving)
      /\ IdsDiffer /\ AddressesKept
      /\ state_array' = [i \in Slots |->
            IF dispatch /\ i = read_ptr THEN CHOOSE a \in Addrs : a \in din_reg
            ELSE IF i \in Returned(moving) THEN NoAddr ELSE state_array[i]]
      /\ RingEdge(in, accept, dispatch, Returned(moving))
  BY DEF Edge, IdInv
<1>2. \A x \in reads' : \/ x \in reads /\ x \notin taken
                        \/ dispatch /\ din_reg = {x[2]} /\ x[1] = read_ptr /\ x \in Slots \X Addrs
  BY ReadIdsAfter
<1>3. dispatch => din_reg # {}
  BY <1>1, Zenon DEF RingEdge
<1> SUFFICES ASSUME NEW x \in reads' PROVE state_array'[x[1]] = x[2]
  BY DEF AddressesKept
<1>4. CASE x \in reads
  <2>1. x[1] \in Slots /\ InReads(x[1])
    BY <1>1, <1>4 DEF TypeOK, InReads
  <2>2. ~(dispatch /\ x[1] = read_ptr)
    BY <1>1, <1>3, <2>1 DEF IdsDiffer
  <2>3. x[1] \notin Returned(moving)
    BY <1>1, <2>1, ReturnedIds DEF IdsDiffer
  <2> QED  BY <1>1, <1>4, <2>1, <2>2, <2>3 DEF AddressesKept
<1>5. CASE dispatch /\ din_reg = {x[2]} /\ x[1] = read_ptr /\ x \in Slots \X Addrs
  <2>1. state_array'[x[1]] = CHOOSE a \in Addrs : a \in din_reg
    BY <1>1, <1>5
  <2>2. PICK a \in Addrs : din_reg = {a} /\ (CHOOSE b \in Addrs : b \in din_reg) = a
    BY <1>1, <1>5, DinRegHasOne
  <2>3. a = x[2]
    BY <1>5, <2>2
  <2> QED  BY <2>1, <2>2, <2>3
<1> QED  BY <1>2, <1>4, <1>5

\* An edge keeps the types.
LEMMA EdgeTypes ==
    ASSUME IdInv, NEW in \in AtMostOne(Addrs), NEW accept, NEW dispatch, NEW moving, NEW taken,
           Edge(in, accept, dispatch, moving, taken)
    PROVE  TypeOK'
<1>1. /\ TypeOK /\ LeaveInTurn(moving) /\ taken \in AtMostOne(reads)
      /\ \A x \in reads : state_array[x[1]] = x[2]
      /\ stage' = NextStage(moving, taken)
      /\ RingEdge(in, accept, dispatch, Returned(moving))
  BY DEF Edge, IdInv, AddressesKept
<1>2. write_ptr' \in Slots /\ read_ptr' \in Slots
  BY <1>1, PointersMove, Zenon DEF RingEdge, TypeOK
<1>3. looped' \in BOOLEAN
  BY <1>1, Zenon DEF RingEdge
<1>4. item_valid' \in [Slots -> BOOLEAN] /\ item_write_lock' \in [Slots -> BOOLEAN]
  <2>1. item_valid' = NextItemValid(accept, Returned(moving))
    BY <1>1, Zenon DEF RingEdge
  <2>2. item_write_lock' = NextItemWriteLock(accept, dispatch, Returned(moving))
    BY <1>1, Zenon DEF RingEdge
  <2> QED  BY <2>1, <2>2, Zenon DEF NextItemValid, NextItemWriteLock
<1>5. din_reg' \in AtMostOne(Addrs)
  <2>1. din_reg' = in \/ din_reg' = {} \/ din_reg' = din_reg
    BY <1>1, Zenon DEF RingEdge
  <2> QED  BY <1>1, <2>1 DEF AtMostOne, TypeOK
<1>6. state_array' \in [Slots -> Addrs \cup {NoAddr}]
  <2>1. state_array' = [i \in Slots |->
            IF dispatch /\ i = read_ptr THEN CHOOSE a \in Addrs : a \in din_reg
            ELSE IF i \in Returned(moving) THEN NoAddr ELSE state_array[i]]
    BY DEF Edge
  <2>2. dispatch => (CHOOSE a \in Addrs : a \in din_reg) \in Addrs
    <3>1. dispatch => din_reg # {}
      BY <1>1, Zenon DEF RingEdge
    <3> QED  BY <1>1, <3>1, DinRegHasOne
  <2>3. \A i \in Slots : state_array[i] \in Addrs \cup {NoAddr}
    BY <1>1 DEF TypeOK
  <2> DEFINE word(i) == IF dispatch /\ i = read_ptr THEN CHOOSE a \in Addrs : a \in din_reg
                        ELSE IF i \in Returned(moving) THEN NoAddr ELSE state_array[i]
  <2>4. \A i \in Slots : word(i) \in Addrs \cup {NoAddr}
    BY <2>2, <2>3
  <2>5. state_array' = [i \in Slots |-> word(i)]
    BY <2>1
  <2> HIDE DEF word
  <2> QED  BY <2>4, <2>5
<1>7. /\ stage' \in [Stages -> OpenOp \cup DoneOp \cup {Empty}]
      /\ \A i \in Active : stage'[i] # Empty => stage'[i] \in OpenOp
      /\ \A i \in Stages \ Active : stage'[i] # Empty => stage'[i] \in DoneOp
  BY <1>1, StageTypes
<1>8. memory' \in [Addrs -> Vals]
  <2>1. WRITE_BACK \in Active
    BY StageNumbers, SMT DEF Active
  <2>2. WRITE_BACK \in moving => stage[WRITE_BACK] \in OpenOp
    BY <1>1, <2>1 DEF LeaveInTurn, TypeOK
  <2>3. WRITE_BACK \in moving => stage[WRITE_BACK].addr \in Addrs /\ stage[WRITE_BACK].data \in Vals
    <3> HIDE DEF Vals
    <3> QED  BY <2>2 DEF OpenOp
  <2>4. memory' = IF WRITE_BACK \in moving
                  THEN [memory EXCEPT ![stage[WRITE_BACK].addr] = stage[WRITE_BACK].data]
                  ELSE memory
    BY DEF Edge
  <2> HIDE DEF Vals
  <2> QED  BY <1>1, <2>3, <2>4 DEF TypeOK
<1>9. reads' \in SUBSET (Slots \X Addrs)
  BY <1>1, ReadIdsAfter DEF TypeOK
<1>10. /\ visible' \in [Addrs -> Vals] /\ unseen' \in SUBSET Slots
       /\ answer' \in [Slots -> Vals] /\ age' \in [Slots -> -1 .. READ_LATENCY]
  <2>1. MemoryEdge(moving, taken)
    BY DEF Edge
  <2>2. visible' \in [Addrs -> Vals]
    BY <1>1, <2>1 DEF MemoryEdge, TypeOK
  <2>3. unseen' \in SUBSET Slots
    <3>1. WRITE_BACK \in Active
      BY StageNumbers, SMT DEF Active
    <3>2. WRITE_BACK \in moving => stage[WRITE_BACK] \in OpenOp
      BY <1>1, <3>1 DEF LeaveInTurn, TypeOK
    <3>3. WRITE_BACK \in moving => stage[WRITE_BACK].id \in Slots
      <4> HIDE DEF Vals
      <4> QED  BY <3>2 DEF OpenOp
    <3> QED  BY <1>1, <2>1, <3>3, Zenon DEF MemoryEdge, TypeOK
  <2>4. answer' \in [Slots -> Vals]
    <3>1. 0 \in Vals
      BY StateAssumption, SMT DEF Vals
    <3> HIDE DEF Vals
    <3> QED  BY <1>1, <2>1, <3>1 DEF MemoryEdge, NextAnswer, TypeOK
  <2>5. age' \in [Slots -> -1 .. READ_LATENCY]
    <3>1. age \in [Slots -> -1 .. READ_LATENCY] /\ READ_LATENCY \in Nat
      BY <1>1, PipelineAssumption DEF TypeOK
    <3>2. age' = NextAge(moving, taken) /\ \A n \in Slots : age'[n] <= READ_LATENCY
      BY <2>1 DEF MemoryEdge
    <3>3. \A n \in Slots : NextAge(moving, taken)[n] \in Int /\ NextAge(moving, taken)[n] >= -1
      <4> TAKE n \in Slots
      <4>1. age[n] \in Int /\ age[n] >= -1
        BY <3>1
      <4>2. \/ NextAge(moving, taken)[n] = -1
            \/ NextAge(moving, taken)[n] = age[n] + 1
            \/ NextAge(moving, taken)[n] = age[n]
        BY Zenon DEF NextAge
      <4> QED  BY <4>1, <4>2
    <3>4. \A n \in Slots : age'[n] \in -1 .. READ_LATENCY
      BY <3>1, <3>2, <3>3
    <3>5. age' = [n \in Slots |-> age'[n]]
      BY <3>2, Zenon DEF NextAge
    <3> QED  BY <3>4, <3>5, Zenon
  <2> QED  BY <2>2, <2>3, <2>4, <2>5
<1>11. reported' \in [Addrs -> Vals]
  <2> DEFINE done(a) == \E i \in moving \cap {WAIT_FOR_WRITE_ACK} : stage[i].addr = a
  <2>1. \A a \in Addrs : done(a) => stage[WAIT_FOR_WRITE_ACK].data \in Vals
    <3>1. WAIT_FOR_WRITE_ACK \in moving => stage[WAIT_FOR_WRITE_ACK] \in OpenOp
      BY <1>1 DEF LeaveInTurn, TypeOK
    <3> HIDE DEF Vals
    <3> QED  BY <3>1 DEF OpenOp
  <2>2. reported' = [a \in Addrs |-> IF done(a) THEN stage[WAIT_FOR_WRITE_ACK].data ELSE reported[a]]
    BY DEF Edge
  <2> HIDE DEF Vals, done
  <2> QED  BY <1>1, <2>1, <2>2 DEF TypeOK
<1>12. /\ \A i \in Active : Valid(i)' => stage'[i] \in OpenOp
       /\ \A i \in Stages \ Active : Valid(i)' => stage'[i] \in DoneOp
  BY <1>7 DEF Valid
<1> QED  BY <1>2, <1>3, <1>4, <1>5, <1>6, <1>7, <1>8, <1>9, <1>10, <1>11, <1>12
         DEF TypeOK, Active, Stages

\* A reset gives all the ids back.
LEMMA ResetIdInv == TypeOK /\ Reset => IdInv'
<1> SUFFICES ASSUME TypeOK, Reset PROVE IdInv'
  OBVIOUS
<1>1. 0 \in Slots /\ 0 \in Int
  BY DepthAssumption, SMT DEF Slots, MAX_DEPTH
<1>2. \A i \in Stages : stage'[i] = Empty
  BY DEF Reset
<1>3. Active \subseteq Stages
  BY StageNumbers, SMT DEF Active, Stages
<1> HIDE DEF Vals
<1>4. TypeOK'
  <2>1. stage' \in [Stages -> OpenOp \cup DoneOp \cup {Empty}]
    BY DEF Reset
  <2>2. memory' \in [Addrs -> Vals] /\ visible' \in [Addrs -> Vals] /\ reported' \in [Addrs -> Vals]
    BY DEF Reset, TypeOK
  <2>8. unseen' \in SUBSET Slots /\ answer' \in [Slots -> Vals] /\ age' \in [Slots -> -1 .. READ_LATENCY]
    <3>1. -1 \in -1 .. READ_LATENCY
      BY PipelineAssumption, SMT
    <3>2. 0 \in Vals
      BY StateAssumption, SMT DEF Vals
    <3> QED  BY <3>1, <3>2 DEF Reset
  <2>3. item_valid' \in [Slots -> BOOLEAN] /\ item_write_lock' \in [Slots -> BOOLEAN]
    BY DEF Reset, OooFifoReset
  <2>4. state_array' \in [Slots -> Addrs \cup {NoAddr}]
    BY DEF Reset
  <2>5. write_ptr' \in Slots /\ read_ptr' \in Slots /\ looped' \in BOOLEAN
    <3>1. write_ptr' = 0 /\ read_ptr' = 0 /\ looped' = FALSE
      BY DEF Reset, OooFifoReset
    <3> QED  BY <1>1, <3>1, Zenon
  <2>6. din_reg' \in AtMostOne(Addrs) /\ reads' \in SUBSET (Slots \X Addrs)
    BY DEF Reset, AtMostOne
  <2>7. /\ \A i \in Active : Valid(i)' => stage'[i] \in OpenOp
        /\ \A i \in Stages \ Active : Valid(i)' => stage'[i] \in DoneOp
    BY <1>2, <1>3 DEF Valid
  <2> QED  BY <2>1, <2>2, <2>3, <2>4, <2>5, <2>6, <2>7, <2>8 DEF TypeOK, Active, Stages
<1>5. \A n : ~InReads(n)' /\ ~InPipe(n)'
  BY <1>2, <1>3 DEF InReads, InPipe, Reset, Valid, Active
<1>6. OneWaits'
  BY DEF OneWaits, Reset, OooFifoReset
<1>7. IdsDiffer'
  <2>1. \A i \in Active : ~Valid(i)'
    BY <1>2, <1>3 DEF Valid
  <2>2. reads' = {} /\ din_reg' = {}
    BY DEF Reset
  <2> QED  BY <1>5, <2>1, <2>2 DEF IdsDiffer, Active
<1>8. IdsAllocated' /\ IdsLocked' /\ AddressesKept'
  BY <1>5 DEF IdsAllocated, IdsLocked, AddressesKept, Reset, OooFifoReset
<1> QED  BY <1>4, <1>6, <1>7, <1>8 DEF IdInv

\* What the memory does between two edges leaves everything else alone.
InMemoryOnly ==
    /\ UNCHANGED <<write_ptr, read_ptr, looped, item_valid, item_write_lock, din_reg, state_array, stage>>
    /\ UNCHANGED <<memory, reads, reported>>

\* A sample of a read and the showing of a write are steps of the memory alone.
LEMMA MemorySteps ==
    ASSUME TypeOK
    PROVE  /\ \A x \in reads : Sample(x) =>
                 InMemoryOnly /\ answer' \in [Slots -> Vals] /\ age' \in [Slots -> -1 .. READ_LATENCY]
                 /\ visible' = visible /\ unseen' = unseen
           /\ \A i \in Sent : Show(i) =>
                 InMemoryOnly /\ visible' \in [Addrs -> Vals] /\ unseen' \in SUBSET Slots
                 /\ answer' = answer /\ age' = age
<1>1. ASSUME NEW x \in reads, Sample(x)
      PROVE  InMemoryOnly /\ answer' \in [Slots -> Vals] /\ age' \in [Slots -> -1 .. READ_LATENCY]
             /\ visible' = visible /\ unseen' = unseen
  <2>1. x[1] \in Slots /\ x[2] \in Addrs
    BY DEF TypeOK
  <2>2. visible[x[2]] \in Vals
    <3> HIDE DEF Vals
    <3> QED  BY <2>1 DEF TypeOK
  <2>3. 0 \in -1 .. READ_LATENCY
    BY PipelineAssumption, SMT
  <2>4. InMemoryOnly /\ visible' = visible /\ unseen' = unseen
    BY <1>1 DEF Sample, InMemoryOnly, itemVars, pointerVars
  <2>5. answer' \in [Slots -> Vals] /\ age' \in [Slots -> -1 .. READ_LATENCY]
    <3> HIDE DEF Vals
    <3> QED  BY <1>1, <2>1, <2>2, <2>3 DEF Sample, TypeOK
  <2> QED  BY <2>4, <2>5
<1>2. ASSUME NEW i \in Sent, Show(i)
      PROVE  InMemoryOnly /\ visible' \in [Addrs -> Vals] /\ unseen' \in SUBSET Slots
             /\ answer' = answer /\ age' = age
  <2>1. InMemoryOnly /\ answer' = answer /\ age' = age
    BY <1>2 DEF Show, InMemoryOnly, itemVars, pointerVars
  <2>2. Valid(i) /\ i \in Active
    BY <1>2, SentFacts DEF Show, Unseen
  <2>3. stage[i] \in OpenOp
    BY <2>2 DEF TypeOK
  <2>4. stage[i].data \in Vals
    <3> HIDE DEF Vals
    <3> QED  BY <2>3 DEF OpenOp
  <2>5. visible' \in [Addrs -> Vals] /\ unseen' \in SUBSET Slots
    <3> HIDE DEF Vals
    <3> QED  BY <1>2, <2>4 DEF Show, TypeOK
  <2> QED  BY <2>1, <2>5
<1> QED  BY <1>1, <1>2

\* The invariant of the ids is inductive.
LEMMA NextIdInv == IdInv /\ [Next]_vars => IdInv'
<1> SUFFICES ASSUME IdInv, [Next]_vars PROVE IdInv'
  OBVIOUS
<1>1. CASE Tick
  <2>1. PICK in \in AtMostOne(Addrs), accept \in BOOLEAN, dispatch \in BOOLEAN,
             moving \in SUBSET Active, taken \in AtMostOne(reads) :
             Edge(in, accept, dispatch, moving, taken)
    BY <1>1, TickIsAnEdge DEF IdInv
  <2> QED  BY <2>1, EdgeOneWaits, EdgeIdsDiffer, EdgeIdsAllocated, EdgeAddressesKept, EdgeTypes
           DEF IdInv
<1>2. CASE Reset
  BY <1>2, ResetIdInv DEF IdInv
<1>3. CASE UNCHANGED vars
  BY <1>3 DEF IdInv, TypeOK, OneWaits, IdsDiffer, IdsAllocated, IdsLocked, AddressesKept, InReads, InPipe,
              Valid, vars, itemVars, pointerVars, Active, Stages
<1>4. ASSUME InMemoryOnly, TypeOK' PROVE IdInv'
  BY <1>4 DEF IdInv, OneWaits, IdsDiffer, IdsAllocated, IdsLocked, AddressesKept, InReads, InPipe,
              Valid, InMemoryOnly
<1>5. CASE \E x \in reads : Sample(x)
  <2>1. /\ InMemoryOnly /\ answer' \in [Slots -> Vals] /\ age' \in [Slots -> -1 .. READ_LATENCY]
        /\ visible' = visible /\ unseen' = unseen
    BY <1>5, MemorySteps DEF IdInv
  <2>2. TypeOK'
    BY <2>1 DEF IdInv, TypeOK, InMemoryOnly, Valid, Active, Stages
  <2> QED  BY <1>4, <2>1, <2>2
<1>6. CASE \E i \in Sent : Show(i)
  <2>1. /\ InMemoryOnly /\ visible' \in [Addrs -> Vals] /\ unseen' \in SUBSET Slots
        /\ answer' = answer /\ age' = age
    BY <1>6, MemorySteps DEF IdInv
  <2>2. TypeOK'
    BY <2>1 DEF IdInv, TypeOK, InMemoryOnly, Valid, Active, Stages
  <2> QED  BY <1>4, <2>1, <2>2
<1> QED  BY <1>1, <1>2, <1>3, <1>5, <1>6 DEF Next

\* The invariant of the ids holds in every reachable state.
LEMMA AlwaysIdInv == Spec => []IdInv
  BY InitIdInv, NextIdInv, PTL DEF Spec

\* Two finite sets with a bijection between them have the same size.
LEMMA SameSize ==
    ASSUME NEW S, NEW T, NEW f \in [S -> T], IsFiniteSet(T),
           \A x, y \in S : f[x] = f[y] => x = y,
           \A t \in T : \E x \in S : f[x] = t
    PROVE  IsFiniteSet(S) /\ Cardinality(S) = Cardinality(T)
<1>1. f \in Injection(S, T)
  BY DEF Injection, IsInjective
<1>2. f \in Surjection(S, T)
  BY DEF Surjection
<1> QED  BY <1>1, <1>2, FS_Injection

\* The item waiting in ooo_fifo is that of dataIn_reg.
LEMMA WaitingIsDinReg ==
    ASSUME TypeOK, OneWaits
    PROVE  Waiting = IF din_reg = {} THEN {} ELSE {read_ptr}
<1>1. write_ptr \in Slots /\ read_ptr \in Slots
  BY DEF TypeOK
<1>2. CASE din_reg = {}
  <2>1. write_ptr = read_ptr /\ ~looped
    BY <1>2 DEF OneWaits
  <2>2. \A i \in Slots : ~(i >= read_ptr /\ i < read_ptr)
    BY <1>1, SMT DEF Slots
  <2> QED  BY <1>2, <2>1, <2>2 DEF Waiting
<1>3. CASE din_reg # {}
  <2>1. write_ptr = NextPtr(read_ptr) /\ (looped <=> read_ptr = MAX_DEPTH)
    BY <1>3 DEF OneWaits
  <2>2. CASE read_ptr = MAX_DEPTH
    <3>1. looped /\ write_ptr = 0
      BY <2>1, <2>2 DEF NextPtr
    <3>2. \A i \in Slots : (i >= read_ptr \/ i < 0) <=> i = read_ptr
      BY <2>2, DepthAssumption, SMT DEF Slots, MAX_DEPTH
    <3> QED  BY <1>1, <1>3, <3>1, <3>2 DEF Waiting
  <2>3. CASE read_ptr # MAX_DEPTH
    <3>1. ~looped /\ write_ptr = read_ptr + 1
      BY <2>1, <2>3 DEF NextPtr
    <3>2. \A i \in Slots : (i >= read_ptr /\ i < read_ptr + 1) <=> i = read_ptr
      BY <1>1, SMT DEF Slots
    <3> QED  BY <1>1, <1>3, <3>1, <3>2 DEF Waiting
  <2> QED  BY <2>2, <2>3
<1> QED  BY <1>2, <1>3

\* The ids are counted by the places they are in.
LEMMA IdInvImplies == IdInv => EachIdOnce
<1> SUFFICES ASSUME IdInv PROVE EachIdOnce
  OBVIOUS
<1> DEFINE inPipeline == {i \in Active : Valid(i)}
           readIds == {x[1] : x \in reads}
           pipeIds == {stage[i].id : i \in inPipeline}
           ids == readIds \cup pipeIds
<1>1. TypeOK /\ OneWaits /\ IdsDiffer /\ IdsAllocated /\ IdsLocked
  BY DEF IdInv
<1>2. \A n : n \in ids <=> n \in Slots /\ (InReads(n) \/ InPipe(n))
  <2>1. \A x \in reads : x[1] \in Slots
    BY <1>1 DEF TypeOK
  <2>2. \A i \in inPipeline : stage[i].id \in Slots
    BY <1>1 DEF TypeOK, OpenOp
  <2> QED  BY <2>1, <2>2 DEF InReads, InPipe
<1>3. Waiting = IF din_reg = {} THEN {} ELSE {read_ptr}
  BY <1>1, WaitingIsDinReg
<1>4. ids = HandedOut
  <2> HIDE DEF ids
  <2>1. \A n \in Slots : n \in Waiting <=> din_reg # {} /\ n = read_ptr
    BY <1>3
  <2>2. \A n \in Slots : n \in HandedOut <=> item_valid[n] /\ n \notin Waiting
    BY DEF HandedOut
  <2>3. \A n \in Slots : n \in HandedOut <=> InReads(n) \/ InPipe(n)
    BY <1>1, <2>1, <2>2 DEF IdsAllocated, IdsDiffer
  <2>4. HandedOut \subseteq Slots
    BY DEF HandedOut
  <2> QED  BY <1>2, <2>3, <2>4
<1>5. IsFiniteSet(Slots) /\ IsFiniteSet(Active)
  <2>1. MAX_DEPTH \in Int
    BY DepthAssumption, SMT DEF MAX_DEPTH
  <2> QED  BY <2>1, StageNumbers, FS_Interval DEF Slots, Active
<1>6. IsFiniteSet(readIds) /\ IsFiniteSet(pipeIds) /\ IsFiniteSet(inPipeline) /\ readIds \cap pipeIds = {}
  <2>1. readIds \subseteq Slots /\ pipeIds \subseteq Slots /\ inPipeline \subseteq Active
    <3> HIDE DEF readIds, pipeIds
    <3>1. readIds \subseteq ids /\ pipeIds \subseteq ids
      OBVIOUS
    <3> HIDE DEF ids
    <3> QED  BY <1>2, <3>1
  <2>2. readIds \cap pipeIds = {}
    <3>1. \A n \in readIds : InReads(n) /\ n \in Slots
      BY <2>1 DEF InReads
    <3>2. \A n \in pipeIds : InPipe(n)
      BY DEF InPipe
    <3> HIDE DEF readIds, pipeIds
    <3> QED  BY <1>1, <3>1, <3>2 DEF IdsDiffer
  <2> QED  BY <1>5, <2>1, <2>2, FS_Subset
<1>7. Cardinality(readIds) = Cardinality(reads)
  <2> DEFINE f == [x \in reads |-> x[1]]
  <2>1. f \in [reads -> readIds]
    OBVIOUS
  <2>2. \A x, y \in reads : f[x] = f[y] => x = y
    BY <1>1 DEF IdsDiffer
  <2>3. \A n \in readIds : \E x \in reads : f[x] = n
    OBVIOUS
  <2> HIDE DEF f, readIds
  <2> QED  BY <1>6, <2>1, <2>2, <2>3, SameSize
<1>8. Cardinality(pipeIds) = Cardinality(inPipeline)
  <2> DEFINE f == [i \in inPipeline |-> stage[i].id]
  <2>1. f \in [inPipeline -> pipeIds]
    OBVIOUS
  <2>2. \A x, y \in inPipeline : f[x] = f[y] => x = y
    BY <1>1 DEF IdsDiffer
  <2>3. \A n \in pipeIds : \E x \in inPipeline : f[x] = n
    OBVIOUS
  <2> HIDE DEF f, pipeIds, inPipeline
  <2> QED  BY <1>6, <2>1, <2>2, <2>3, SameSize
<1>9. Cardinality(ids) = Cardinality(reads) + Cardinality(inPipeline)
  <2>1. Cardinality(ids) = Cardinality(readIds) + Cardinality(pipeIds) - Cardinality(readIds \cap pipeIds)
    <3> HIDE DEF readIds, pipeIds
    <3> QED  BY <1>6, FS_Union
  <2>2. Cardinality(readIds \cap pipeIds) = 0
    BY <1>6, FS_EmptySet
  <2>3. Cardinality(readIds) \in Nat /\ Cardinality(pipeIds) \in Nat
    <3> HIDE DEF readIds, pipeIds
    <3> QED  BY <1>6, FS_CardinalityType
  <2> HIDE DEF readIds, pipeIds, ids, inPipeline
  <2> QED  BY <1>7, <1>8, <2>1, <2>2, <2>3
<1>10. Cardinality(Waiting) = Cardinality(din_reg)
  <2>1. CASE din_reg = {}
    BY <1>3, <2>1
  <2>2. CASE din_reg # {}
    <3>1. PICK a \in Addrs : din_reg = {a}
      BY <1>1, <2>2, DinRegHasOne
    <3> QED  BY <1>3, <3>1, FS_Singleton
  <2> QED  BY <2>1, <2>2
<1>11. \A i \in Waiting : item_valid[i]
  BY <1>1, <1>3 DEF IdsAllocated, TypeOK
<1>12. \A i \in ids : item_write_lock[i]
  <2> HIDE DEF ids
  <2> QED  BY <1>1, <1>2 DEF IdsLocked
<1> HIDE DEF ids, inPipeline
<1> QED  BY <1>4, <1>9, <1>10, <1>11, <1>12 DEF EachIdOnce, ids, inPipeline

\* For every depth, latency and history an id is in one place only: it is handed out
\* again no earlier than its operation has been reported (FifoOutOfOrderRead as
\* outOfOrderCummulativeOp.py uses it).
THEOREM IdsAreUsedOnce == Spec => []EachIdOnce
  BY AlwaysIdInv, IdInvImplies, PTL

---------------------------------------------------------------------------
(* The invariant of the data *)

\* The youngest write of a counter holds what the taken writes make.
YoungestIsInMemory ==
    \A i \in Written :
        Valid(i) /\ (\A j \in Written : j < i /\ Valid(j) => stage[j].addr # stage[i].addr)
            => stage[i].data = memory[stage[i].addr]

\* What waits in STATE_LOAD is up to date unless WRITE_BACK holds the same counter.
LoadedIsLatest ==
    Valid(STATE_LOAD) /\ ~(Valid(WRITE_BACK) /\ stage[WRITE_BACK].addr = stage[STATE_LOAD].addr)
        => stage[STATE_LOAD].data = memory[stage[STATE_LOAD].addr]

Stale(s) == Valid(s) /\ stage[s].data # memory[stage[s].addr]

\* A write of the counter in stage s.
WriteOf(s, i) == i \in Written /\ Valid(i) /\ stage[i].addr = stage[s].addr

\* The history that is enough, and how far ahead of a sent write one that was missed is.
HistoryIsEnough == WRITE_HISTORY_SIZE >= READ_LATENCY + WRITE_TO_WRITE_ACK_LATENCY + 2
Ahead == READ_LATENCY + WRITE_TO_WRITE_ACK_LATENCY

\* A read that has sampled its counter before a write of it was seen finds a write of it
\* that has not gone further than the acknowledges since the sample.
AnswersAreFollowed ==
    \A x \in reads :
        age[x[1]] >= 0 /\ answer[x[1]] # memory[x[2]]
            => \E i \in Written :
                  Valid(i) /\ stage[i].addr = x[2] /\ i <= WAIT_FOR_WRITE_ACK + age[x[1]]

\* Only reads that are under way have sampled anything.
SampledIsRead == \A n \in Slots : age[n] >= 0 => \E x \in reads : x[1] = n

\* A stage before STATE_LOAD that read too early has a write it missed ahead of it, so
\* close that the writes which are still to be acknowledged do not push it out of the
\* history.  One more than at READ_DATA_RECEIVE may have been sent when it is in stage 1.
StaleIsFollowed ==
    /\ Stale(0) => \E i \in Written :
          /\ WriteOf(0, i)
          /\ i <= WAIT_FOR_WRITE_ACK + Ahead + 1
          /\ \A p \in Sent : Valid(p) => i <= p + Ahead
    /\ Stale(1) => \E i \in Written :
          /\ WriteOf(1, i)
          /\ \A p \in Sent : Valid(p) => i <= WAIT_FOR_WRITE_ACK + Ahead + 1
          /\ \A p, q \in Sent : p < q /\ Valid(p) /\ Valid(q) => i <= q + Ahead

\* The invariant of the data.
DataInv ==
    /\ YoungestIsInMemory
    /\ LoadedIsLatest
    /\ AnswersAreFollowed
    /\ SampledIsRead
    /\ StaleIsFollowed
    /\ LatestIsWrittenBack

\* Power-up: no operation is there.
LEMMA InitDataInv == Init => DataInv
<1> SUFFICES ASSUME Init PROVE DataInv
  OBVIOUS
<1>1. \A i \in Stages : ~Valid(i)
  BY DEF Init, Valid
<1>2. /\ 0 \in Stages /\ 1 \in Stages /\ STATE_LOAD \in Stages /\ WRITE_BACK \in Stages
      /\ Written \subseteq Stages
  BY StageNumbers, SMT DEF Stages, STATE_LOAD, Written
<1>3. AnswersAreFollowed /\ SampledIsRead
  <2>1. reads = {} /\ \A n \in Slots : age[n] = -1
    BY DEF Init
  <2> QED  BY <2>1 DEF AnswersAreFollowed, SampledIsRead
<1> QED  BY <1>1, <1>2, <1>3 DEF DataInv, YoungestIsInMemory, LoadedIsLatest, StaleIsFollowed,
             LatestIsWrittenBack, Stale

\* The stage a write is in after an edge, finished or not.
Dest(moving, i) ==
    IF i \in moving \/ (i \notin Active /\ WAIT_FOR_WRITE_ACK \in moving) THEN i + 1 ELSE i

\* The numbers of the stages with a write that has been sent.
LEMMA WrittenFacts ==
    /\ \A i \in Written : i \in Nat /\ i >= 4 /\ i <= LAST /\ i \in Stages
    /\ \A i \in Written : i \in Active \/ i \in Stages \ Active
    /\ \A i \in Written \cap Active : i \in Active \ {0, STATE_LOAD, WRITE_BACK}
    /\ \A i \in Written \cap Active : i <= WAIT_FOR_WRITE_ACK
    /\ \A i \in Stages \ Active : i \in Written /\ i > WAIT_FOR_WRITE_ACK /\ i # 0
    /\ WAIT_FOR_WRITE_ACK \in Active
    /\ WRITE_BACK + 1 \in Written \cap Active
    /\ WRITE_BACK \in Active
  BY StageNumbers, SMT DEF Written, Active, Stages, STATE_LOAD

\* A write keeps its counter and its data while it moves on.
LEMMA WritesGoTo ==
    ASSUME TypeOK, NEW moving, LeaveInTurn(moving), NEW r, stage' = NextStage(moving, r),
           NEW i \in Written, Valid(i), Dest(moving, i) <= LAST
    PROVE  /\ Dest(moving, i) \in Written
           /\ stage'[Dest(moving, i)] # Empty
           /\ stage'[Dest(moving, i)].addr = stage[i].addr
           /\ stage'[Dest(moving, i)].data = stage[i].data
<1>1. i \in Nat /\ i >= 4 /\ i <= LAST /\ LAST \in Nat
  BY WrittenFacts, StageNumbers
<1>2. Dest(moving, i) = i \/ Dest(moving, i) = i + 1
  BY DEF Dest
<1>3. Dest(moving, i) \in Written
  BY <1>1, <1>2, StageNumbers, SMT DEF Written
<1>4. CASE i \in moving
  <2>1. Dest(moving, i) = i + 1 /\ i \in Active /\ stage[i] \in OpenOp
    BY <1>4 DEF Dest, LeaveInTurn, TypeOK
  <2>2. CASE i = WAIT_FOR_WRITE_ACK
    <3>1. i + 1 \in Stages \ Active /\ (i + 1) - 1 = i
      BY <1>1, <1>3, <2>1, <2>2, StageNumbers, SMT DEF Active, Stages, Written
    <3>2. stage'[i + 1] = Finished(stage[i])
      <4>1. stage'[i + 1] = Finished(stage[(i + 1) - 1])
        BY <1>4, <2>2, <3>1, StageAfter, Zenon
      <4> QED  BY <3>1, <4>1
    <3> QED  BY <1>3, <2>1, <3>2, FinishedIsDone, OpenIsValid
  <2>3. CASE i # WAIT_FOR_WRITE_ACK
    <3>1. i + 1 \in Active \ {0, STATE_LOAD, WRITE_BACK} /\ (i + 1) - 1 = i
      BY <1>1, <2>1, <2>3, StageNumbers, SMT DEF Active, STATE_LOAD
    <3>2. stage'[i + 1] = stage[i]
      <4>1. (i + 1) - 1 \in moving
        BY <1>4, <3>1
      <4>2. stage'[i + 1] = stage[(i + 1) - 1]
        BY <3>1, <4>1, StageAfter, Zenon
      <4> QED  BY <3>1, <4>2
    <3> QED  BY <1>3, <2>1, <3>2 DEF Valid
  <2> QED  BY <2>2, <2>3
<1>5. CASE i \notin moving /\ i \in Active
  <2>1. i \in Active \ {0, STATE_LOAD, WRITE_BACK} /\ Dest(moving, i) = i
    BY <1>5, WrittenFacts DEF Dest
  <2>2. i - 1 \notin moving
    <3>1. (i - 1) + 1 = i /\ i - 1 # WAIT_FOR_WRITE_ACK
      BY <1>1, <1>5, StageNumbers, SMT DEF Active
    <3> QED  BY <1>5, <3>1 DEF LeaveInTurn
  <2>3. stage'[i] = stage[i]
    BY <1>5, <2>1, <2>2, StageAfter, Zenon
  <2> QED  BY <1>3, <2>1, <2>3 DEF Valid
<1>6. CASE i \notin Active
  <2>1. i \in Stages \ Active /\ i \notin moving /\ i - 1 # i /\ (i + 1) - 1 = i
    BY <1>1, <1>6, WrittenFacts DEF LeaveInTurn
  <2>2. CASE WAIT_FOR_WRITE_ACK \notin moving
    <3>1. stage'[i] = stage[i]
      BY <2>1, <2>2, StageAfter, Zenon
    <3>2. Dest(moving, i) = i
      BY <2>1, <2>2 DEF Dest
    <3> QED  BY <1>3, <3>1, <3>2 DEF Valid
  <2>3. CASE WAIT_FOR_WRITE_ACK \in moving
    <3>1. Dest(moving, i) = i + 1
      BY <1>6, <2>3 DEF Dest
    <3>2. i + 1 \in Stages \ Active /\ (i + 1) - 1 # WAIT_FOR_WRITE_ACK
      BY <1>1, <1>3, <2>1, <3>1, StageNumbers, SMT DEF Active, Stages, Written
    <3>3. stage'[i + 1] = stage[(i + 1) - 1]
      BY <2>3, <3>2, StageAfter, Zenon
    <3> QED  BY <1>3, <2>1, <3>1, <3>3 DEF Valid
  <2> QED  BY <2>2, <2>3
<1> QED  BY <1>4, <1>5, <1>6

\* A write in the pipeline was there before, or it has just left WRITE_BACK.
LEMMA WritesComeFrom ==
    ASSUME TypeOK, NEW moving, LeaveInTurn(moving), NEW r, stage' = NextStage(moving, r),
           NEW j \in Written, stage'[j] # Empty
    PROVE  \/ j = WRITE_BACK + 1 /\ WRITE_BACK \in moving /\ stage'[j] = stage[WRITE_BACK]
           \/ \E i \in Written : /\ Valid(i) /\ j = Dest(moving, i)
                                 /\ stage'[j].addr = stage[i].addr
                                 /\ stage'[j].data = stage[i].data
<1>1. j \in Nat /\ j >= 4 /\ j <= LAST /\ LAST \in Nat /\ WRITE_BACK = 3
  BY WrittenFacts, StageNumbers
<1>2. (j - 1) + 1 = j
  BY <1>1
<1>3. CASE j \in Active /\ j - 1 \in moving
  <2>1. stage'[j] = stage[j - 1]
    <3>1. j \in Active \ {0, STATE_LOAD, WRITE_BACK}
      BY <1>3, WrittenFacts
    <3> QED  BY <1>3, <3>1, StageAfter, Zenon
  <2>2. CASE j = WRITE_BACK + 1
    BY <1>1, <1>3, <2>1, <2>2
  <2>3. CASE j # WRITE_BACK + 1
    <3>1. j - 1 \in Written
      BY <1>1, <2>3, StageNumbers, SMT DEF Written
    <3>2. Dest(moving, j - 1) = j
      BY <1>2, <1>3 DEF Dest
    <3>3. Valid(j - 1)
      BY <1>3 DEF LeaveInTurn
    <3> QED  BY <2>1, <3>1, <3>2, <3>3
  <2> QED  BY <2>2, <2>3
<1>4. CASE j \in Active /\ j - 1 \notin moving
  <2>1. j \in Active \ {0, STATE_LOAD, WRITE_BACK}
    BY <1>4, WrittenFacts
  <2>2. Valid(j) /\ j \notin moving /\ stage'[j] = stage[j]
    BY <1>4, <2>1, StageAfter, Zenon
  <2>3. Dest(moving, j) = j
    BY <1>4, <2>2 DEF Dest
  <2> QED  BY <2>2, <2>3
<1>5. CASE j \notin Active
  <2>1. j \in Stages \ Active /\ j > WAIT_FOR_WRITE_ACK /\ j \notin moving
    BY <1>5, WrittenFacts DEF LeaveInTurn
  <2>2. CASE WAIT_FOR_WRITE_ACK \notin moving
    <3>1. stage'[j] = stage[j]
      BY <2>1, <2>2, StageAfter, Zenon
    <3>2. Dest(moving, j) = j
      BY <2>1, <2>2 DEF Dest
    <3> QED  BY <3>1, <3>2 DEF Valid
  <2>3. CASE WAIT_FOR_WRITE_ACK \in moving /\ j - 1 = WAIT_FOR_WRITE_ACK
    <3>1. stage'[j] = Finished(stage[j - 1])
      BY <2>1, <2>3, StageAfter, Zenon
    <3>2. j - 1 \in Written
      BY <2>3, WrittenFacts, StageNumbers, SMT DEF Written
    <3>3. Dest(moving, j - 1) = j
      BY <1>2, <2>3 DEF Dest
    <3>4. Valid(j - 1) /\ stage[j - 1] \in OpenOp
      BY <2>3 DEF LeaveInTurn, TypeOK
    <3>5. stage'[j].addr = stage[j - 1].addr /\ stage'[j].data = stage[j - 1].data
      BY <3>1, <3>4, FinishedIsDone
    <3> QED  BY <3>2, <3>3, <3>4, <3>5
  <2>4. CASE WAIT_FOR_WRITE_ACK \in moving /\ j - 1 # WAIT_FOR_WRITE_ACK
    <3>1. stage'[j] = stage[j - 1]
      BY <2>1, <2>4, StageAfter, Zenon
    <3>2. j - 1 \in Written /\ j - 1 \notin Active
      BY <1>1, <2>1, <2>4, StageNumbers, SMT DEF Written, Active, Stages
    <3>3. Dest(moving, j - 1) = j
      BY <1>2, <2>4, <3>2 DEF Dest
    <3> QED  BY <3>1, <3>2, <3>3 DEF Valid
  <2> QED  BY <2>2, <2>3, <2>4
<1> QED  BY <1>3, <1>4, <1>5

\* No write overtakes another one.
LEMMA WritesKeepOrder ==
    ASSUME NEW moving, LeaveInTurn(moving), NEW i \in Written, NEW k \in Written, i < k, Valid(k)
    PROVE  Dest(moving, i) < Dest(moving, k)
<1>1. i \in Nat /\ k \in Nat /\ WAIT_FOR_WRITE_ACK \in Nat
  BY WrittenFacts, StageNumbers
<1>2. CASE i + 1 < k
  BY <1>1, <1>2, SMT DEF Dest
<1>3. CASE i + 1 = k /\ Dest(moving, i) = i
  BY <1>1, <1>3, SMT DEF Dest
<1>4. CASE i + 1 = k /\ Dest(moving, i) # i
  <2>1. i \in moving \/ (i \notin Active /\ WAIT_FOR_WRITE_ACK \in moving)
    BY <1>4 DEF Dest
  <2>2. CASE i \in moving /\ i # WAIT_FOR_WRITE_ACK
    <3>1. k \in moving
      BY <1>4, <2>2 DEF LeaveInTurn
    <3> QED  BY <1>1, <1>4, <2>2, <3>1, SMT DEF Dest
  <2>3. CASE i = WAIT_FOR_WRITE_ACK /\ i \in moving
    <3>1. k \notin Active
      BY <1>1, <1>4, <2>3, SMT DEF Active
    <3> QED  BY <1>1, <1>4, <2>3, <3>1, SMT DEF Dest
  <2>4. CASE i \notin Active /\ WAIT_FOR_WRITE_ACK \in moving
    <3>1. k \notin Active
      BY <1>1, <1>4, <2>4, StageNumbers, SMT DEF Active
    <3> QED  BY <1>1, <1>4, <2>4, <3>1, SMT DEF Dest
  <2> QED  BY <2>1, <2>2, <2>3, <2>4
<1> QED  BY <1>1, <1>2, <1>3, <1>4, SMT

\* What is younger than a write after an edge was so before, or has just been sent.
LEMMA WritesBetween ==
    ASSUME TypeOK, NEW moving, LeaveInTurn(moving), NEW r, stage' = NextStage(moving, r),
           NEW i \in Written, Valid(i), NEW j \in Written, stage'[j] # Empty, j < Dest(moving, i)
    PROVE  \/ j = WRITE_BACK + 1 /\ WRITE_BACK \in moving
           \/ \E k \in Written : k < i /\ Valid(k) /\ j = Dest(moving, k)
<1>1. SUFFICES ASSUME NEW k \in Written, Valid(k), j = Dest(moving, k)
               PROVE  k < i
  BY WritesComeFrom
<1>2. i \in Nat /\ k \in Nat /\ j \in Nat
  BY WrittenFacts
<1>3. i < k => Dest(moving, i) < j
  BY <1>1, WritesKeepOrder
<1>4. Dest(moving, i) \in Nat
  BY <1>2 DEF Dest
<1> QED  BY <1>1, <1>2, <1>3, <1>4, SMT

\* The memory changes by the write that leaves WRITE_BACK.
LEMMA MemoryAfter ==
    ASSUME TypeOK, NEW in, NEW accept, NEW dispatch, NEW moving, NEW taken,
           Edge(in, accept, dispatch, moving, taken), NEW a \in Addrs
    PROVE  /\ WRITE_BACK \in moving /\ stage[WRITE_BACK].addr = a =>
                 /\ memory'[a] = stage[WRITE_BACK].data
                 /\ stage'[WRITE_BACK + 1] = stage[WRITE_BACK]
                 /\ stage'[WRITE_BACK + 1] # Empty
           /\ ~(WRITE_BACK \in moving /\ stage[WRITE_BACK].addr = a) => memory'[a] = memory[a]
<1>1. /\ LeaveInTurn(moving) /\ stage' = NextStage(moving, taken)
      /\ memory' = IF WRITE_BACK \in moving
                  THEN [memory EXCEPT ![stage[WRITE_BACK].addr] = stage[WRITE_BACK].data]
                  ELSE memory
  BY DEF Edge
<1>2. memory \in [Addrs -> Vals]
  BY DEF TypeOK
<1>3. WRITE_BACK \in moving => stage'[WRITE_BACK + 1] = stage[WRITE_BACK] /\ stage[WRITE_BACK] # Empty
  <2>1. (WRITE_BACK + 1) - 1 = WRITE_BACK
    BY StageNumbers
  <2>2. WRITE_BACK + 1 \in Active \ {0, STATE_LOAD, WRITE_BACK}
    BY WrittenFacts
  <2>3. ASSUME WRITE_BACK \in moving
        PROVE  stage'[WRITE_BACK + 1] = stage[(WRITE_BACK + 1) - 1]
    <3>1. (WRITE_BACK + 1) - 1 \in moving
      BY <2>1, <2>3
    <3> QED  BY <1>1, <2>2, <3>1, StageAfter, Zenon
  <2> QED  BY <1>1, <2>1, <2>3 DEF LeaveInTurn, Valid
<1> HIDE DEF Vals
<1> QED  BY <1>1, <1>2, <1>3

\* The first write a collision finds is the one in WRITE_BACK or the one in the memory.
LEMMA FirstCollision ==
    ASSUME TypeOK, YoungestIsInMemory, NEW op \in OpenOp
    PROVE  \/ Collisions(op) = {} /\ Forwarded(op).data = op.data
           \/ Valid(WRITE_BACK) /\ stage[WRITE_BACK].addr = op.addr /\ Forwarded(op).data = stage[WRITE_BACK].data
           \/ /\ ~(Valid(WRITE_BACK) /\ stage[WRITE_BACK].addr = op.addr)
              /\ Collisions(op) # {}
              /\ Forwarded(op).data = memory[op.addr]
<1>1. Collisions(op) \subseteq Nat
  BY StageNumbers, SMT DEF Collisions
<1>2. CASE Collisions(op) = {}
  BY <1>2, ForwardedKeeps
<1>3. CASE Collisions(op) # {}
  <2> DEFINE m == Min(Collisions(op))
  <2>1. m \in Collisions(op) /\ \A y \in Collisions(op) : m <= y
    BY <1>1, <1>3, MinIsLeast
  <2>2. Forwarded(op).data = stage[m].data
    BY <1>3, ForwardedKeeps
  <2> HIDE DEF m
  <2>3. m \in WRITE_BACK .. LAST /\ Valid(m) /\ stage[m].addr = op.addr
    BY <2>1 DEF Collisions
  <2>4. CASE m = WRITE_BACK
    BY <2>2, <2>3, <2>4
  <2>5. CASE m # WRITE_BACK
    <3>1. m \in Written /\ WRITE_BACK \in WRITE_BACK .. LAST /\ WRITE_BACK < m
      BY <2>3, <2>5, StageNumbers, SMT DEF Written
    <3>2. ~(Valid(WRITE_BACK) /\ stage[WRITE_BACK].addr = op.addr)
      <4>1. SUFFICES ASSUME Valid(WRITE_BACK), stage[WRITE_BACK].addr = op.addr PROVE FALSE
        OBVIOUS
      <4>2. WRITE_BACK \in Collisions(op)
        BY <3>1, <4>1 DEF Collisions
      <4>3. m <= WRITE_BACK
        BY <2>1, <4>2
      <4> QED  BY <3>1, <4>3, <1>1, <2>1, StageNumbers, SMT
    <3>3. ASSUME NEW j \in Written, j < m, Valid(j) PROVE stage[j].addr # stage[m].addr
      <4>1. SUFFICES ASSUME stage[j].addr = stage[m].addr PROVE FALSE
        OBVIOUS
      <4>2. j \in WRITE_BACK .. LAST
        BY StageNumbers, SMT DEF Written
      <4>3. j \in Collisions(op)
        BY <2>3, <3>3, <4>1, <4>2 DEF Collisions
      <4>4. m <= j
        BY <2>1, <4>3
      <4> QED  BY <3>3, <4>4, <1>1, <2>1, <4>3, SMT
    <3>4. stage[m].data = memory[stage[m].addr]
      BY <2>3, <3>1, <3>3 DEF YoungestIsInMemory
    <3> QED  BY <1>3, <2>2, <2>3, <3>2, <3>4
  <2> QED  BY <2>4, <2>5
<1> QED  BY <1>2, <1>3

\* A write moves on by one stage at most; a finished one with each acknowledge only.
LEMMA DestFacts ==
    ASSUME NEW moving, LeaveInTurn(moving), NEW i \in Written
    PROVE  /\ i \in Nat /\ Dest(moving, i) \in Nat
           /\ \/ Dest(moving, i) = i
              \/ Dest(moving, i) = i + 1 /\ (i < WAIT_FOR_WRITE_ACK \/ WAIT_FOR_WRITE_ACK \in moving)
           /\ i \in moving => Dest(moving, i) = i + 1
<1>1. i \in Nat /\ WAIT_FOR_WRITE_ACK \in Nat
  BY WrittenFacts, StageNumbers
<1>2. CASE i \in moving
  <2>1. Dest(moving, i) = i + 1
    BY <1>2 DEF Dest
  <2>2. i < WAIT_FOR_WRITE_ACK \/ i = WAIT_FOR_WRITE_ACK
    BY <1>1, <1>2, SMT DEF LeaveInTurn, Active
  <2> QED  BY <1>1, <1>2, <2>1, <2>2
<1>3. CASE i \notin moving
  BY <1>1, <1>3 DEF Dest
<1> QED  BY <1>2, <1>3

\* With an acknowledge all the writes that have been sent move on.
LEMMA SentAdvance ==
    ASSUME NEW moving, LeaveInTurn(moving), WAIT_FOR_WRITE_ACK \in moving
    PROVE  \A p \in Sent : Valid(p) => p \in moving
<1> DEFINE Left == {m \in Nat : \E p \in Sent : m = WAIT_FOR_WRITE_ACK - p /\ Valid(p) /\ p \notin moving}
<1>0. /\ WAIT_FOR_WRITE_ACK \in Nat
      /\ \A p \in Sent : p \in Nat /\ p >= 4 /\ p <= WAIT_FOR_WRITE_ACK /\ p \in Active /\ p # WRITE_BACK
      /\ \A p \in Sent : p # WAIT_FOR_WRITE_ACK => p + 1 \in Sent
  BY SentFacts, StageNumbers, SMT DEF Sent
<1>1. SUFFICES ASSUME Left # {} PROVE FALSE
  <2>1. Left = {}
    BY <1>1
  <2> SUFFICES ASSUME NEW p \in Sent, Valid(p), p \notin moving PROVE FALSE
    OBVIOUS
  <2>2. WAIT_FOR_WRITE_ACK - p \in Nat
    BY <1>0
  <2> QED  BY <2>1, <2>2
<1>2. PICK m \in Left : \A y \in Left : m <= y
  <2>1. Left \subseteq Nat
    OBVIOUS
  <2> HIDE DEF Left
  <2> QED  BY <1>1, <2>1, MinIsLeast
<1>3. PICK p \in Sent : m = WAIT_FOR_WRITE_ACK - p /\ Valid(p) /\ p \notin moving
  OBVIOUS
<1>4. p # WAIT_FOR_WRITE_ACK
  BY <1>3
<1>5. Valid(p + 1) /\ p + 1 \notin moving /\ p + 1 \in Sent
  BY <1>0, <1>3, <1>4 DEF LeaveInTurn
<1>6. WAIT_FOR_WRITE_ACK - (p + 1) \in Left
  BY <1>0, <1>5
<1>7. m <= WAIT_FOR_WRITE_ACK - (p + 1)
  <2> HIDE DEF Left
  <2> QED  BY <1>2, <1>6
<1> QED  BY <1>0, <1>3, <1>7

\* A write does not get further ahead of one that has been sent.
LEMMA StaysAhead ==
    ASSUME NEW moving, LeaveInTurn(moving), NEW i \in Written, NEW p \in Sent, Valid(p),
           i <= p + Ahead
    PROVE  Dest(moving, i) <= Dest(moving, p) + Ahead
<1>1. /\ WAIT_FOR_WRITE_ACK \in Nat /\ p \in Written /\ p \in Nat /\ p >= 4 /\ p <= WAIT_FOR_WRITE_ACK
      /\ Ahead \in Nat /\ WAIT_FOR_WRITE_ACK <= 3 + Ahead /\ i \in Nat
  BY SentFacts, StageNumbers, WrittenFacts, PipelineAssumption, SMT DEF Ahead, WAIT_FOR_WRITE_ACK, WRITE_BACK, STATE_LOAD
<1>2. /\ Dest(moving, p) \in Nat /\ Dest(moving, i) \in Nat
      /\ Dest(moving, p) >= p
      /\ p \in moving => Dest(moving, p) = p + 1
  BY <1>1, DestFacts
<1>3. CASE Dest(moving, i) = i
  BY <1>1, <1>2, <1>3
<1>4. CASE Dest(moving, i) = i + 1 /\ i < WAIT_FOR_WRITE_ACK
  BY <1>1, <1>2, <1>4
<1>5. CASE Dest(moving, i) = i + 1 /\ WAIT_FOR_WRITE_ACK \in moving
  BY <1>1, <1>2, <1>5, SentAdvance
<1> QED  BY <1>3, <1>4, <1>5, DestFacts

\* The order of two writes after an edge is the one they had.
LEMMA OrderWasKept ==
    ASSUME NEW moving, LeaveInTurn(moving), NEW i \in Written, NEW k \in Written,
           Valid(i), Dest(moving, i) < Dest(moving, k)
    PROVE  i < k
<1>1. i \in Nat /\ k \in Nat /\ Dest(moving, i) \in Nat /\ Dest(moving, k) \in Nat
  BY DestFacts
<1>2. k < i => Dest(moving, k) < Dest(moving, i)
  BY WritesKeepOrder
<1> QED  BY <1>1, <1>2

\* A write that is not reported stays among the sent ones.
LEMMA SentStays ==
    ASSUME TypeOK, NEW moving, LeaveInTurn(moving), NEW r, stage' = NextStage(moving, r),
           NEW i \in Sent, Valid(i), ~(i = WAIT_FOR_WRITE_ACK /\ i \in moving)
    PROVE  /\ Dest(moving, i) \in Sent
           /\ stage'[Dest(moving, i)] # Empty
           /\ stage'[Dest(moving, i)].addr = stage[i].addr
           /\ stage'[Dest(moving, i)].data = stage[i].data
           /\ Dest(moving, i) = WRITE_BACK + 1 => WRITE_BACK \notin moving
<1>1. i \in Nat /\ i >= 4 /\ i <= WAIT_FOR_WRITE_ACK /\ i \in Written /\ i \in Active
  BY SentFacts
<1>2. Dest(moving, i) = IF i \in moving THEN i + 1 ELSE i
  BY <1>1 DEF Dest
<1>3. Dest(moving, i) \in Sent
  BY <1>1, <1>2, StageNumbers, SMT DEF Sent
<1>4. Dest(moving, i) <= LAST
  BY <1>3, SentFacts
<1>5. ASSUME Dest(moving, i) = WRITE_BACK + 1, WRITE_BACK \in moving PROVE FALSE
  <2>1. i = WRITE_BACK + 1 /\ i \notin moving
    BY <1>1, <1>2, <1>5, StageNumbers, SMT
  <2>2. WRITE_BACK # WAIT_FOR_WRITE_ACK
    BY StageNumbers
  <2> QED  BY <1>5, <2>1, <2>2 DEF LeaveInTurn
<1> QED  BY <1>1, <1>3, <1>4, <1>5, WritesGoTo

\* A sent write was so before, or it has just left WRITE_BACK.
LEMMA SentComeFrom ==
    ASSUME TypeOK, NEW moving, LeaveInTurn(moving), NEW r, stage' = NextStage(moving, r),
           NEW j \in Sent, stage'[j] # Empty
    PROVE  \/ j = WRITE_BACK + 1 /\ WRITE_BACK \in moving /\ stage'[j] = stage[WRITE_BACK]
           \/ \E i \in Sent : /\ Valid(i) /\ j = Dest(moving, i) /\ ~(i = WAIT_FOR_WRITE_ACK /\ i \in moving)
                              /\ stage'[j].addr = stage[i].addr
                              /\ stage'[j].data = stage[i].data
<1>1. j \in Written /\ j <= WAIT_FOR_WRITE_ACK /\ j \in Nat
  BY SentFacts
<1>2. SUFFICES ASSUME NEW i \in Written, Valid(i), j = Dest(moving, i),
                      stage'[j].addr = stage[i].addr, stage'[j].data = stage[i].data
               PROVE  i \in Sent /\ ~(i = WAIT_FOR_WRITE_ACK /\ i \in moving)
  BY <1>1, WritesComeFrom
<1>3. i \in Nat /\ (j = i \/ j = i + 1)
  BY <1>2, WrittenFacts DEF Dest
<1>4. i \in Sent
  BY <1>1, <1>3, SentFacts
<1>5. i \in moving => j = i + 1
  BY <1>2 DEF Dest
<1> QED  BY <1>1, <1>3, <1>4, <1>5, StageNumbers

\* The youngest write of a counter is what the memory holds, after an edge too.
LEMMA EdgeYoungest ==
    ASSUME IdInv, DataInv, NEW in \in AtMostOne(Addrs), NEW accept, NEW dispatch, NEW moving, NEW taken,
           Edge(in, accept, dispatch, moving, taken)
    PROVE  YoungestIsInMemory'
<1>1. TypeOK /\ LeaveInTurn(moving) /\ stage' = NextStage(moving, taken) /\ YoungestIsInMemory
  BY DEF Edge, IdInv, DataInv
<1>2. TypeOK'
  BY EdgeTypes
<1> SUFFICES ASSUME NEW j \in Written, stage'[j] # Empty,
                    \A k \in Written : k < j /\ stage'[k] # Empty => stage'[k].addr # stage'[j].addr
             PROVE  stage'[j].data = memory'[stage'[j].addr]
  BY DEF YoungestIsInMemory, Valid, Written
<1> DEFINE a == stage'[j].addr
<1>3. a \in Addrs
  <2>1. stage'[j] \in OpenOp \cup DoneOp
    BY <1>2, WrittenFacts DEF TypeOK, Valid, Active, Stages
  <2> QED  BY <2>1 DEF OpenOp, DoneOp
<1>4. CASE WRITE_BACK \in moving /\ stage[WRITE_BACK].addr = a
  <2>1. memory'[a] = stage[WRITE_BACK].data /\ stage'[WRITE_BACK + 1] = stage[WRITE_BACK]
        /\ stage'[WRITE_BACK + 1] # Empty
    BY <1>1, <1>3, <1>4, MemoryAfter
  <2>2. ~(WRITE_BACK + 1 < j)
    BY <1>4, <2>1, WrittenFacts
  <2>3. j = WRITE_BACK + 1
    BY <2>2, WrittenFacts, StageNumbers
  <2> QED  BY <2>1, <2>3
<1>5. CASE ~(WRITE_BACK \in moving /\ stage[WRITE_BACK].addr = a)
  <2>1. memory'[a] = memory[a]
    BY <1>1, <1>3, <1>5, MemoryAfter
  <2>2. PICK i \in Written : Valid(i) /\ j = Dest(moving, i) /\ a = stage[i].addr /\ stage'[j].data = stage[i].data
    BY <1>1, <1>5, WritesComeFrom
  <2>3. ASSUME NEW k \in Written, k < i, Valid(k) PROVE stage[k].addr # stage[i].addr
    <3>1. SUFFICES ASSUME stage[k].addr = stage[i].addr PROVE FALSE
      OBVIOUS
    <3>2. Dest(moving, k) < j
      BY <1>1, <2>2, <2>3, WritesKeepOrder
    <3>3. Dest(moving, k) <= LAST
      BY <3>2, WrittenFacts, StageNumbers, SMT DEF Dest
    <3>4. /\ Dest(moving, k) \in Written
          /\ stage'[Dest(moving, k)] # Empty
          /\ stage'[Dest(moving, k)].addr = stage[k].addr
      BY <1>1, <2>3, <3>3, WritesGoTo
    <3> QED  BY <2>2, <3>1, <3>2, <3>4
  <2>4. stage[i].data = memory[stage[i].addr]
    BY <1>1, <2>2, <2>3 DEF YoungestIsInMemory
  <2> QED  BY <2>1, <2>2, <2>4
<1> QED  BY <1>4, <1>5

\* The increment starts from what the memory holds: either STATE_LOAD is up to date or
\* the write just before it is the one MainOp looks at.
LEMMA EdgeLatest ==
    ASSUME IdInv, DataInv, NEW in \in AtMostOne(Addrs), NEW accept, NEW dispatch, NEW moving, NEW taken,
           Edge(in, accept, dispatch, moving, taken)
    PROVE  LatestIsWrittenBack'
<1>1. TypeOK /\ LeaveInTurn(moving) /\ stage' = NextStage(moving, taken) /\ LoadedIsLatest /\ LatestIsWrittenBack
  BY DEF Edge, IdInv, DataInv
<1>2. STATE_LOAD \in Active /\ WRITE_BACK \in Active \ {0} /\ WRITE_BACK - 1 = STATE_LOAD /\ STATE_LOAD + 1 = WRITE_BACK
      /\ STATE_LOAD # WAIT_FOR_WRITE_ACK
  BY StageNumbers, SMT DEF Active, STATE_LOAD
<1> SUFFICES ASSUME stage'[WRITE_BACK] # Empty
             PROVE  stage'[WRITE_BACK].data = (memory'[stage'[WRITE_BACK].addr] + 1) % STATE_MOD
  BY DEF LatestIsWrittenBack, Valid, WRITE_BACK
<1>3. stage'[WRITE_BACK] = IF STATE_LOAD \in moving THEN MainOp(stage[STATE_LOAD])
                   ELSE IF Valid(WRITE_BACK) /\ WRITE_BACK \notin moving THEN stage[WRITE_BACK] ELSE Empty
  <2>1. stage'[WRITE_BACK] = IF WRITE_BACK - 1 \in moving THEN MainOp(stage[WRITE_BACK - 1])
                   ELSE IF Valid(WRITE_BACK) /\ WRITE_BACK \notin moving THEN stage[WRITE_BACK] ELSE Empty
    BY <1>1, StageAfter
  <2> QED  BY <1>2, <2>1
<1>4. CASE STATE_LOAD \in moving
  <2> DEFINE op == stage[STATE_LOAD]
  <2>1. op \in OpenOp /\ Valid(STATE_LOAD) /\ op.addr \in Addrs
    BY <1>1, <1>2, <1>4 DEF LeaveInTurn, TypeOK, OpenOp
  <2>2. stage'[WRITE_BACK] = MainOp(op)
    BY <1>3, <1>4
  <2> HIDE DEF op
  <2>3. stage'[WRITE_BACK].addr = op.addr
    BY <1>1, <2>1, <2>2, MainOpKeeps
  <2>4. CASE Valid(WRITE_BACK) /\ stage[WRITE_BACK].addr = op.addr
    <3>1. WRITE_BACK \in moving
      BY <1>1, <1>2, <1>4, <2>4 DEF LeaveInTurn
    <3>2. memory'[op.addr] = stage[WRITE_BACK].data
      BY <1>1, <2>1, <2>4, <3>1, MemoryAfter
    <3>3. MainOp(op).data = (stage[WRITE_BACK].data + 1) % STATE_MOD
      BY <1>1, <2>1, <2>4, MainOpKeeps
    <3> QED  BY <2>2, <2>3, <3>2, <3>3
  <2>5. CASE ~(Valid(WRITE_BACK) /\ stage[WRITE_BACK].addr = op.addr)
    <3>1. memory'[op.addr] = memory[op.addr]
      BY <1>1, <2>1, <2>5, MemoryAfter DEF LeaveInTurn
    <3>2. MainOp(op).data = (op.data + 1) % STATE_MOD
      BY <1>1, <2>1, <2>5, MainOpKeeps
    <3>3. op.data = memory[op.addr]
      BY <1>1, <2>1, <2>5 DEF LoadedIsLatest, op
    <3> QED  BY <2>2, <2>3, <3>1, <3>2, <3>3
  <2> QED  BY <2>4, <2>5
<1>5. CASE STATE_LOAD \notin moving
  <2>1. Valid(WRITE_BACK) /\ WRITE_BACK \notin moving /\ stage'[WRITE_BACK] = stage[WRITE_BACK]
    BY <1>3, <1>5
  <2>2. memory' = memory
    BY <2>1 DEF Edge
  <2> QED  BY <1>1, <2>1, <2>2 DEF LatestIsWrittenBack
<1> QED  BY <1>4, <1>5

\* What enters STATE_LOAD or waits there is forwarded from the youngest write, or was
\* not stale.
LEMMA EdgeLoaded ==
    ASSUME IdInv, DataInv, NEW in \in AtMostOne(Addrs), NEW accept, NEW dispatch, NEW moving, NEW taken,
           Edge(in, accept, dispatch, moving, taken)
    PROVE  LoadedIsLatest'
<1>1. /\ TypeOK /\ LeaveInTurn(moving) /\ stage' = NextStage(moving, taken)
      /\ LoadedIsLatest /\ YoungestIsInMemory /\ StaleIsFollowed
  BY DEF Edge, IdInv, DataInv
<1>2. /\ 1 \in Active /\ STATE_LOAD \in Active /\ WRITE_BACK \in Active
      /\ STATE_LOAD - 1 = 1 /\ WRITE_BACK - 1 = STATE_LOAD /\ STATE_LOAD + 1 = WRITE_BACK
      /\ STATE_LOAD # WAIT_FOR_WRITE_ACK /\ STATE_LOAD # WRITE_BACK
  BY StageNumbers, SMT DEF Active, STATE_LOAD
<1> SUFFICES ASSUME stage'[STATE_LOAD] # Empty,
                    ~(stage'[WRITE_BACK] # Empty /\ stage'[WRITE_BACK].addr = stage'[STATE_LOAD].addr)
             PROVE  stage'[STATE_LOAD].data = memory'[stage'[STATE_LOAD].addr]
  BY DEF LoadedIsLatest, Valid, WRITE_BACK, STATE_LOAD
<1>3. stage'[STATE_LOAD] = IF 1 \in moving THEN Forwarded(stage[1])
                   ELSE IF Valid(STATE_LOAD) /\ STATE_LOAD \notin moving THEN Forwarded(stage[STATE_LOAD]) ELSE Empty
  <2>1. stage'[STATE_LOAD] = IF STATE_LOAD - 1 \in moving THEN Forwarded(stage[STATE_LOAD - 1])
                   ELSE IF Valid(STATE_LOAD) /\ STATE_LOAD \notin moving THEN Forwarded(stage[STATE_LOAD]) ELSE Empty
    BY <1>1, StageAfter
  <2> QED  BY <1>2, <2>1
<1>4. \* an operation that stays in WRITE_BACK is there in the next state too
      Valid(WRITE_BACK) /\ WRITE_BACK \notin moving => stage'[WRITE_BACK] = stage[WRITE_BACK]
  <2>1. Valid(WRITE_BACK) /\ WRITE_BACK \notin moving => STATE_LOAD \notin moving
    BY <1>1, <1>2 DEF LeaveInTurn
  <2>2. stage'[WRITE_BACK] = IF WRITE_BACK - 1 \in moving THEN MainOp(stage[WRITE_BACK - 1])
                   ELSE IF Valid(WRITE_BACK) /\ WRITE_BACK \notin moving THEN stage[WRITE_BACK] ELSE Empty
    BY <1>1, StageAfter
  <2> QED  BY <1>2, <2>1, <2>2
<1>5. \* what is forwarded is up to date when nothing is missed
      ASSUME NEW op \in OpenOp, stage'[STATE_LOAD] = Forwarded(op),
             Collisions(op) = {} => op.data = memory[op.addr]
      PROVE  stage'[STATE_LOAD].data = memory'[stage'[STATE_LOAD].addr]
  <2>1. op.addr \in Addrs /\ stage'[STATE_LOAD].addr = op.addr
    BY <1>1, <1>5, ForwardedKeeps DEF OpenOp
  <2>2. CASE Valid(WRITE_BACK) /\ stage[WRITE_BACK].addr = op.addr /\ Forwarded(op).data = stage[WRITE_BACK].data
    <3>1. WRITE_BACK \in moving
      BY <1>4, <2>1, <2>2 DEF Valid
    <3>2. memory'[op.addr] = stage[WRITE_BACK].data
      BY <1>1, <2>1, <2>2, <3>1, MemoryAfter
    <3> QED  BY <1>5, <2>1, <2>2, <3>2
  <2>3. CASE ~(Valid(WRITE_BACK) /\ stage[WRITE_BACK].addr = op.addr)
    <3>1. memory'[op.addr] = memory[op.addr]
      BY <1>1, <2>1, <2>3, MemoryAfter DEF LeaveInTurn
    <3>2. Forwarded(op).data = memory[op.addr]
      BY <1>1, <1>5, <2>3, FirstCollision
    <3> QED  BY <1>5, <2>1, <3>1, <3>2
  <2>4. CASE Collisions(op) = {}
    <3>1. WRITE_BACK \in WRITE_BACK .. LAST
      BY StageNumbers, SMT
    <3>2. ~(Valid(WRITE_BACK) /\ stage[WRITE_BACK].addr = op.addr)
      BY <2>4, <3>1 DEF Collisions
    <3> QED  BY <2>3, <3>2
  <2> QED  BY <1>1, <2>2, <2>3, <2>4, FirstCollision
<1>6. CASE 1 \in moving
  <2> DEFINE op == stage[1]
  <2>1. op \in OpenOp /\ Valid(1)
    BY <1>1, <1>2, <1>6 DEF LeaveInTurn, TypeOK
  <2>2. Collisions(op) = {} => op.data = memory[op.addr]
    <3>1. SUFFICES ASSUME Stale(1) PROVE Collisions(op) # {}
      BY <2>1 DEF Stale
    <3>2. PICK i \in Written : Valid(i) /\ stage[i].addr = op.addr
      BY <1>1, <3>1 DEF StaleIsFollowed, WriteOf
    <3>3. i \in WRITE_BACK .. LAST
      BY StageNumbers, SMT DEF Written
    <3> QED  BY <3>2, <3>3 DEF Collisions
  <2> HIDE DEF op
  <2>3. stage'[STATE_LOAD] = Forwarded(op)
    BY <1>3, <1>6 DEF op
  <2> QED  BY <1>5, <2>1, <2>2, <2>3
<1>7. CASE 1 \notin moving
  <2> DEFINE op == stage[STATE_LOAD]
  <2>1. Valid(STATE_LOAD) /\ STATE_LOAD \notin moving /\ stage'[STATE_LOAD] = Forwarded(op)
    BY <1>3, <1>7
  <2>2. op \in OpenOp
    BY <1>1, <1>2, <2>1 DEF TypeOK
  <2>3. Collisions(op) = {} => op.data = memory[op.addr]
    <3>1. WRITE_BACK \in WRITE_BACK .. LAST
      BY StageNumbers, SMT
    <3>2. Collisions(op) = {} => ~(Valid(WRITE_BACK) /\ stage[WRITE_BACK].addr = op.addr)
      BY <3>1 DEF Collisions
    <3> QED  BY <1>1, <2>1, <3>2 DEF LoadedIsLatest
  <2> HIDE DEF op
  <2> QED  BY <1>5, <2>1, <2>2, <2>3
<1> QED  BY <1>6, <1>7

\* A write that a read has missed is close ahead of it as long as the read is under way.
LEMMA EdgeAnswers ==
    ASSUME HistoryIsEnough,
           IdInv, IdInv', DataInv, NEW in \in AtMostOne(Addrs), NEW accept, NEW dispatch, NEW moving, NEW taken,
           Edge(in, accept, dispatch, moving, taken)
    PROVE  AnswersAreFollowed' /\ SampledIsRead'
<1>1. /\ TypeOK /\ LeaveInTurn(moving) /\ stage' = NextStage(moving, taken) /\ taken \in AtMostOne(reads)
      /\ AnswersAreFollowed /\ SampledIsRead /\ IdsDiffer
      /\ reads' = (reads \ taken) \cup (IF dispatch THEN {read_ptr} \X din_reg ELSE {})
      /\ answer' = NextAnswer(taken) /\ age' = NextAge(moving, taken)
      /\ \A n \in Slots : age'[n] <= READ_LATENCY
      /\ dispatch => din_reg # {}
  BY DEF Edge, MemoryEdge, RingEdge, IdInv, DataInv
<1>2. /\ \A n \in Slots : age[n] \in Int /\ age[n] >= -1 /\ age'[n] \in Int /\ age'[n] >= -1
      /\ \A x \in reads : x[1] \in Slots /\ x[2] \in Addrs
  <2>1. age \in [Slots -> -1 .. READ_LATENCY] /\ age' \in [Slots -> -1 .. READ_LATENCY]
    BY DEF IdInv, TypeOK, Slots, MAX_DEPTH
  <2>2. \A m \in -1 .. READ_LATENCY : m \in Int /\ m >= -1
    BY PipelineAssumption, SMT
  <2>3. \A x \in reads : x[1] \in Slots /\ x[2] \in Addrs
    BY DEF IdInv, TypeOK
  <2> QED  BY <2>1, <2>2, <2>3
<1>3. ASSUME NEW n \in Slots, age'[n] >= 0
      PROVE  /\ age[n] >= 0 /\ ~(\E x \in taken : x[1] = n)
             /\ age'[n] = IF WAIT_FOR_WRITE_ACK \in moving THEN age[n] + 1 ELSE age[n]
             /\ answer'[n] = answer[n]
  <2>1. ~(age[n] = -1 \/ (\E x \in taken : x[1] = n))
    <3>1. age[n] = -1 \/ (\E x \in taken : x[1] = n) => age'[n] = -1
      BY <1>1, Zenon DEF NextAge
    <3> QED  BY <1>3, <3>1
  <2>2. age'[n] = IF WAIT_FOR_WRITE_ACK \in moving THEN age[n] + 1 ELSE age[n]
    BY <1>1, <2>1, Zenon DEF NextAge
  <2>3. answer'[n] = answer[n]
    BY <1>1, <2>1, Zenon DEF NextAnswer
  <2> QED  BY <1>2, <2>1, <2>2, <2>3
<1>4. SampledIsRead'
  <2> SUFFICES ASSUME NEW n \in Slots, age'[n] >= 0 PROVE \E x \in reads' : x[1] = n
    BY DEF SampledIsRead, Slots, MAX_DEPTH
  <2>1. PICK x \in reads : x[1] = n
    BY <1>1, <1>3 DEF SampledIsRead
  <2> QED  BY <1>1, <1>3, <2>1
<1>5. ASSUME NEW x \in reads', age'[x[1]] >= 0, x[1] \in Slots PROVE x \in reads
  <2>1. PICK y \in reads : y[1] = x[1]
    BY <1>1, <1>3, <1>5 DEF SampledIsRead
  <2>2. x \in {read_ptr} \X din_reg => (dispatch => x \in reads)
    <3>1. x \in {read_ptr} \X din_reg => x[1] = read_ptr
      OBVIOUS
    <3> QED  BY <1>1, <2>1, <3>1 DEF IdsDiffer, InReads
  <2> QED  BY <1>1, <2>2
<1>6. AnswersAreFollowed'
  <2> SUFFICES ASSUME NEW x \in reads', age'[x[1]] >= 0, answer'[x[1]] # memory'[x[2]]
               PROVE  \E j \in Written : stage'[j] # Empty /\ stage'[j].addr = x[2] /\ j <= WAIT_FOR_WRITE_ACK + age'[x[1]]
    BY DEF AnswersAreFollowed, Written, Valid, LAST, WAIT_FOR_WRITE_ACK, WRITE_BACK, STATE_LOAD
  <2>1. x[1] \in Slots /\ x[2] \in Addrs
    BY DEF IdInv, TypeOK, Slots, MAX_DEPTH
  <2>2. x \in reads
    BY <1>5, <2>1
  <2>3. /\ age[x[1]] >= 0 /\ age[x[1]] \in Int /\ age'[x[1]] \in Int /\ answer'[x[1]] = answer[x[1]]
        /\ age'[x[1]] = IF WAIT_FOR_WRITE_ACK \in moving THEN age[x[1]] + 1 ELSE age[x[1]]
        /\ age'[x[1]] <= READ_LATENCY
    BY <1>1, <1>2, <1>3, <2>1
  <2>4. CASE WRITE_BACK \in moving /\ stage[WRITE_BACK].addr = x[2]
    <3>1. stage'[WRITE_BACK + 1] = stage[WRITE_BACK] /\ stage'[WRITE_BACK + 1] # Empty
      BY <1>1, <2>1, <2>4, MemoryAfter
    <3>2. WRITE_BACK + 1 \in Written /\ WRITE_BACK + 1 <= WAIT_FOR_WRITE_ACK + age'[x[1]]
      BY <2>3, WrittenFacts, StageNumbers, SMT
    <3> QED  BY <2>4, <3>1, <3>2
  <2>5. CASE ~(WRITE_BACK \in moving /\ stage[WRITE_BACK].addr = x[2])
    <3>1. memory'[x[2]] = memory[x[2]]
      BY <1>1, <2>1, <2>5, MemoryAfter
    <3>2. PICK i \in Written : Valid(i) /\ stage[i].addr = x[2] /\ i <= WAIT_FOR_WRITE_ACK + age[x[1]]
      BY <1>1, <2>2, <2>3, <3>1 DEF AnswersAreFollowed
    <3>3. Dest(moving, i) <= WAIT_FOR_WRITE_ACK + age'[x[1]]
      BY <1>1, <2>3, <3>2, DestFacts, StageNumbers
    <3>4. Dest(moving, i) <= LAST
      BY <1>1, <2>3, <3>3, DestFacts, StageNumbers, PipelineAssumption, SMT DEF HistoryIsEnough, LAST
    <3>5. /\ Dest(moving, i) \in Written
          /\ stage'[Dest(moving, i)] # Empty
          /\ stage'[Dest(moving, i)].addr = stage[i].addr
      BY <1>1, <3>2, <3>4, WritesGoTo
    <3> QED  BY <3>2, <3>3, <3>5
  <2> QED  BY <2>4, <2>5
<1> QED  BY <1>4, <1>6

\* An operation that waits in READ_DATA_RECEIVE or in stage 1 holds up WRITE_BACK.
LEMMA HeldUp ==
    ASSUME NEW moving, LeaveInTurn(moving), NEW s \in {0, 1}, Valid(s), s \notin moving
    PROVE  WRITE_BACK \notin moving
<1>1. /\ 0 \in Active /\ 1 \in Active /\ 2 \in Active /\ WRITE_BACK = 3 /\ 0 + 1 = 1 /\ 1 + 1 = 2 /\ 2 + 1 = 3
      /\ 0 # WAIT_FOR_WRITE_ACK /\ 1 # WAIT_FOR_WRITE_ACK /\ 2 # WAIT_FOR_WRITE_ACK
  BY StageNumbers, SMT DEF Active
<1>2. Valid(1) /\ 1 \notin moving
  BY <1>1 DEF LeaveInTurn
<1>3. Valid(2) /\ 2 \notin moving
  BY <1>1, <1>2 DEF LeaveInTurn
<1> QED  BY <1>1, <1>3 DEF LeaveInTurn

\* The numbers that bound how far a write that was missed has gone.
LEMMA AheadFacts ==
    ASSUME HistoryIsEnough
    PROVE  /\ Ahead \in Nat /\ WAIT_FOR_WRITE_ACK \in Nat /\ LAST \in Nat /\ READ_LATENCY \in Nat
           /\ LAST >= WAIT_FOR_WRITE_ACK + Ahead + 2
           /\ WAIT_FOR_WRITE_ACK + READ_LATENCY = 3 + Ahead
           /\ WRITE_BACK + 1 = 4
  BY StageNumbers, PipelineAssumption, SMT
     DEF HistoryIsEnough, Ahead, LAST, WAIT_FOR_WRITE_ACK, WRITE_BACK, STATE_LOAD

\* What a stage that read too early finds ahead of it, seen from the next state.
Followed(s, i) ==
    /\ i \in Written
    /\ stage'[i] # Empty
    /\ stage'[i].addr = stage'[s].addr

\* A write that was missed is still there after an edge.
LEMMA MissedStays ==
    ASSUME TypeOK, NEW moving, LeaveInTurn(moving), NEW r, stage' = NextStage(moving, r),
           NEW s, NEW s1, NEW i, WriteOf(s, i), stage'[s1].addr = stage[s].addr, Dest(moving, i) <= LAST
    PROVE  Followed(s1, Dest(moving, i))
  BY WritesGoTo DEF WriteOf, Followed

\* A read that is answered finds the write it has missed close ahead, and so it stays.
LEMMA EdgeStaleReceived ==
    ASSUME HistoryIsEnough,
           IdInv, DataInv, NEW in \in AtMostOne(Addrs), NEW accept, NEW dispatch, NEW moving, NEW taken,
           Edge(in, accept, dispatch, moving, taken),
           stage'[0] # Empty, stage'[0].data # memory'[stage'[0].addr]
    PROVE  \E i \in Written :
              /\ Followed(0, i)
              /\ i <= WAIT_FOR_WRITE_ACK + Ahead + 1
              /\ \A p \in Sent : stage'[p] # Empty => i <= p + Ahead
<1>1. /\ TypeOK /\ LeaveInTurn(moving) /\ stage' = NextStage(moving, taken) /\ taken \in AtMostOne(reads)
      /\ AddressesKept /\ StaleIsFollowed /\ AnswersAreFollowed /\ taken \subseteq Sampled
  BY DEF Edge, MemoryEdge, IdInv, DataInv
<1>2. \A p \in Sent : p \in Nat /\ p >= 4 /\ p <= WAIT_FOR_WRITE_ACK
  BY SentFacts
<1>3. CASE taken # {}
  <2>1. PICK x \in reads : taken = {x}
    BY <1>1, <1>3 DEF AtMostOne
  <2>2. stage'[0] = Op(x[1], x[2], answer[x[1]])
    <3>1. \A y \in taken : stage'[0] = Op(y[1], y[2], answer[y[1]])
      BY <1>1, OpsMove DEF AddressesKept
    <3> QED  BY <2>1, <3>1
  <2>3. x[2] \in Addrs /\ x[1] \in Slots
    BY <1>1 DEF TypeOK
  <2>4. stage'[0].addr = x[2] /\ stage'[0].data = answer[x[1]]
    BY <2>2 DEF Op
  <2>5. age[x[1]] \in Int /\ age[x[1]] >= 0 /\ age[x[1]] <= READ_LATENCY
    <3>1. age[x[1]] \in -1 .. READ_LATENCY /\ age[x[1]] # -1
      BY <1>1, <2>1, <2>3 DEF TypeOK, Sampled
    <3> QED  BY <3>1, PipelineAssumption, SMT
  <2>6. CASE WRITE_BACK \in moving /\ stage[WRITE_BACK].addr = x[2]
    <3>1. stage'[WRITE_BACK + 1] = stage[WRITE_BACK] /\ stage'[WRITE_BACK + 1] # Empty
      BY <1>1, <2>3, <2>6, MemoryAfter
    <3>2. Followed(0, WRITE_BACK + 1)
      BY <2>4, <2>6, <3>1, WrittenFacts DEF Followed
    <3>3. /\ WRITE_BACK + 1 <= WAIT_FOR_WRITE_ACK + Ahead + 1
          /\ \A p \in Sent : WRITE_BACK + 1 <= p + Ahead
      BY <1>2, AheadFacts, StageNumbers, SMT
    <3> QED  BY <3>2, <3>3 DEF Followed
  <2>7. CASE ~(WRITE_BACK \in moving /\ stage[WRITE_BACK].addr = x[2])
    <3>1. answer[x[1]] # memory[x[2]]
      BY <1>1, <2>3, <2>4, <2>7, MemoryAfter
    <3>2. PICK i \in Written : Valid(i) /\ stage[i].addr = x[2] /\ i <= WAIT_FOR_WRITE_ACK + age[x[1]]
      BY <1>1, <2>5, <3>1 DEF AnswersAreFollowed
    <3>3. Dest(moving, i) \in Nat /\ Dest(moving, i) <= WAIT_FOR_WRITE_ACK + READ_LATENCY + 1
      BY <1>1, <2>5, <3>2, DestFacts, AheadFacts
    <3>4. /\ Dest(moving, i) <= LAST
          /\ Dest(moving, i) <= WAIT_FOR_WRITE_ACK + Ahead + 1
          /\ \A p \in Sent : Dest(moving, i) <= p + Ahead
      BY <1>2, <3>3, AheadFacts, StageNumbers
    <3>5. /\ Dest(moving, i) \in Written
          /\ stage'[Dest(moving, i)] # Empty
          /\ stage'[Dest(moving, i)].addr = stage[i].addr
      BY <1>1, <3>2, <3>4, WritesGoTo
    <3>6. Followed(0, Dest(moving, i))
      BY <2>4, <3>2, <3>5 DEF Followed
    <3> QED  BY <3>4, <3>5, <3>6
  <2> QED  BY <2>6, <2>7
<1>4. CASE taken = {}
  <2>1. stage'[0] = stage[0] /\ Valid(0) /\ 0 \notin moving
    BY <1>1, <1>4, StageAfter, Zenon
  <2>2. WRITE_BACK \notin moving
    BY <1>1, <2>1, HeldUp
  <2>3. memory' = memory
    BY <2>2 DEF Edge
  <2>4. Stale(0)
    BY <2>1, <2>3 DEF Stale
  <2>5. PICK i \in Written :
          /\ WriteOf(0, i)
          /\ i <= WAIT_FOR_WRITE_ACK + Ahead + 1
          /\ \A p \in Sent : Valid(p) => i <= p + Ahead
    BY <1>1, <2>4 DEF StaleIsFollowed
  <2>6. Dest(moving, i) \in Nat /\ Dest(moving, i) <= WAIT_FOR_WRITE_ACK + Ahead + 1
    <3>1. WAIT_FOR_WRITE_ACK \in moving => i <= WAIT_FOR_WRITE_ACK + Ahead
      BY <1>1, <2>5, SentFacts DEF LeaveInTurn
    <3> QED  BY <1>1, <2>5, <3>1, DestFacts, AheadFacts
  <2>7. ASSUME NEW p \in Sent, stage'[p] # Empty PROVE Dest(moving, i) <= p + Ahead
    <3>1. PICK q \in Sent : Valid(q) /\ p = Dest(moving, q)
      BY <1>1, <2>2, <2>7, SentComeFrom
    <3> QED  BY <1>1, <2>5, <3>1, StaysAhead
  <2>8. Followed(0, Dest(moving, i))
    BY <1>1, <2>1, <2>5, <2>6, AheadFacts, MissedStays
  <2> QED  BY <2>6, <2>7, <2>8 DEF Followed
<1> QED  BY <1>3, <1>4

\* One stage later one more write may have been sent; the history is long enough not to
\* lose the one that was missed.
LEMMA EdgeStaleLoading ==
    ASSUME HistoryIsEnough,
           IdInv, DataInv, NEW in \in AtMostOne(Addrs), NEW accept, NEW dispatch, NEW moving, NEW taken,
           Edge(in, accept, dispatch, moving, taken),
           stage'[1] # Empty, stage'[1].data # memory'[stage'[1].addr]
    PROVE  \E i \in Written :
              /\ Followed(1, i)
              /\ \A p \in Sent : stage'[p] # Empty => i <= WAIT_FOR_WRITE_ACK + Ahead + 1
              /\ \A p, q \in Sent : p < q /\ stage'[p] # Empty /\ stage'[q] # Empty => i <= q + Ahead
<1>1. /\ TypeOK /\ LeaveInTurn(moving) /\ stage' = NextStage(moving, taken) /\ StaleIsFollowed
  BY DEF Edge, IdInv, DataInv
<1>2. \A p \in Sent : p \in Nat /\ p >= 4 /\ p <= WAIT_FOR_WRITE_ACK /\ p \in Written
  BY SentFacts
<1>3. /\ 0 \in Active /\ 1 \in Active \ {0, STATE_LOAD, WRITE_BACK} /\ 1 - 1 = 0 /\ WAIT_FOR_WRITE_ACK \in Sent
  BY StageNumbers, SentFacts, SMT DEF Active, STATE_LOAD
<1>4. stage'[1] = IF 0 \in moving THEN stage[0] ELSE IF Valid(1) /\ 1 \notin moving THEN stage[1] ELSE Empty
  <2>1. stage'[1] = IF 1 - 1 \in moving THEN stage[1 - 1] ELSE IF Valid(1) /\ 1 \notin moving THEN stage[1] ELSE Empty
    BY <1>1, <1>3, StageAfter
  <2> QED  BY <1>3, <2>1
<1>5. CASE 0 \in moving
  <2>1. stage'[1] = stage[0] /\ Valid(0) /\ stage[0].addr \in Addrs
    BY <1>1, <1>3, <1>4, <1>5 DEF LeaveInTurn, TypeOK, OpenOp
  <2>2. CASE WRITE_BACK \in moving /\ stage[WRITE_BACK].addr = stage[0].addr
    <3>1. stage'[WRITE_BACK + 1] = stage[WRITE_BACK] /\ stage'[WRITE_BACK + 1] # Empty
      BY <1>1, <2>1, <2>2, MemoryAfter
    <3>2. Followed(1, WRITE_BACK + 1)
      BY <2>1, <2>2, <3>1, WrittenFacts DEF Followed
    <3>3. /\ WRITE_BACK + 1 <= WAIT_FOR_WRITE_ACK + Ahead + 1
          /\ \A p \in Sent : WRITE_BACK + 1 <= p + Ahead
      BY <1>2, AheadFacts, StageNumbers, SMT
    <3> QED  BY <3>2, <3>3 DEF Followed
  <2>3. CASE ~(WRITE_BACK \in moving /\ stage[WRITE_BACK].addr = stage[0].addr)
    <3>1. memory'[stage[0].addr] = memory[stage[0].addr]
      BY <1>1, <2>1, <2>3, MemoryAfter
    <3>2. Stale(0)
      BY <2>1, <3>1 DEF Stale
    <3>3. PICK i \in Written :
            /\ WriteOf(0, i)
            /\ i <= WAIT_FOR_WRITE_ACK + Ahead + 1
            /\ \A p \in Sent : Valid(p) => i <= p + Ahead
      BY <1>1, <3>2 DEF StaleIsFollowed
    <3>4. Dest(moving, i) \in Nat /\ Dest(moving, i) <= WAIT_FOR_WRITE_ACK + Ahead + 1
      <4>1. WAIT_FOR_WRITE_ACK \in moving => i <= WAIT_FOR_WRITE_ACK + Ahead
        BY <1>1, <1>3, <3>3 DEF LeaveInTurn
      <4> QED  BY <1>1, <3>3, <4>1, DestFacts, AheadFacts
    <3>5. ASSUME NEW p \in Sent, NEW q \in Sent, p < q, stage'[q] # Empty PROVE Dest(moving, i) <= q + Ahead
      <4>1. q # WRITE_BACK + 1
        BY <1>2, <3>5, AheadFacts
      <4>2. PICK q0 \in Sent : Valid(q0) /\ q = Dest(moving, q0)
        BY <1>1, <3>5, <4>1, SentComeFrom
      <4> QED  BY <1>1, <3>3, <4>2, StaysAhead
    <3>6. Followed(1, Dest(moving, i))
      BY <1>1, <2>1, <3>3, <3>4, AheadFacts, MissedStays
    <3> QED  BY <3>4, <3>5, <3>6 DEF Followed
  <2> QED  BY <2>2, <2>3
<1>6. CASE 0 \notin moving
  <2>1. stage'[1] = stage[1] /\ Valid(1) /\ 1 \notin moving
    BY <1>4, <1>6
  <2>2. WRITE_BACK \notin moving
    BY <1>1, <2>1, HeldUp
  <2>3. memory' = memory
    BY <2>2 DEF Edge
  <2>4. Stale(1)
    BY <2>1, <2>3 DEF Stale
  <2>5. PICK i \in Written :
          /\ WriteOf(1, i)
          /\ \A p \in Sent : Valid(p) => i <= WAIT_FOR_WRITE_ACK + Ahead + 1
          /\ \A p, q \in Sent : p < q /\ Valid(p) /\ Valid(q) => i <= q + Ahead
    BY <1>1, <2>4 DEF StaleIsFollowed
  <2>6. ASSUME NEW p \in Sent, stage'[p] # Empty
        PROVE  \E q \in Sent : Valid(q) /\ p = Dest(moving, q) /\ ~(q = WAIT_FOR_WRITE_ACK /\ q \in moving)
    BY <1>1, <2>2, <2>6, SentComeFrom
  <2>7. Dest(moving, i) \in Nat /\ Dest(moving, i) <= LAST
    <3>1. WAIT_FOR_WRITE_ACK \in moving => i <= WAIT_FOR_WRITE_ACK + Ahead + 1
      BY <1>1, <1>3, <2>5 DEF LeaveInTurn
    <3>2. i <= LAST
      BY WrittenFacts
    <3> QED  BY <1>1, <3>1, <3>2, DestFacts, AheadFacts
  <2>8. ASSUME NEW p \in Sent, stage'[p] # Empty PROVE Dest(moving, i) <= WAIT_FOR_WRITE_ACK + Ahead + 1
    <3>1. PICK q \in Sent : Valid(q) /\ p = Dest(moving, q) /\ ~(q = WAIT_FOR_WRITE_ACK /\ q \in moving)
      BY <2>6, <2>8
    <3>2. i <= WAIT_FOR_WRITE_ACK + Ahead + 1
      BY <2>5, <3>1
    <3>3. WAIT_FOR_WRITE_ACK \in moving => i <= WAIT_FOR_WRITE_ACK + Ahead
      <4>1. WAIT_FOR_WRITE_ACK \in moving => q < WAIT_FOR_WRITE_ACK /\ Valid(WAIT_FOR_WRITE_ACK)
        BY <1>1, <1>2, <3>1, AheadFacts DEF LeaveInTurn
      <4> QED  BY <1>3, <2>5, <3>1, <4>1
    <3> QED  BY <1>1, <3>2, <3>3, DestFacts, AheadFacts
  <2>9. ASSUME NEW p \in Sent, NEW q \in Sent, p < q, stage'[p] # Empty, stage'[q] # Empty
        PROVE  Dest(moving, i) <= q + Ahead
    <3>1. PICK p0 \in Sent : Valid(p0) /\ p = Dest(moving, p0)
      BY <2>6, <2>9
    <3>2. PICK q0 \in Sent : Valid(q0) /\ q = Dest(moving, q0)
      BY <2>6, <2>9
    <3>3. p0 < q0
      BY <1>1, <1>2, <2>9, <3>1, <3>2, OrderWasKept
    <3>4. i <= q0 + Ahead
      BY <2>5, <3>1, <3>2, <3>3
    <3> QED  BY <1>1, <3>2, <3>4, StaysAhead
  <2>10. Followed(1, Dest(moving, i))
    BY <1>1, <2>1, <2>5, <2>7, MissedStays
  <2> QED  BY <2>8, <2>9, <2>10 DEF Followed
<1> QED  BY <1>5, <1>6

\* An edge keeps the invariant of the data.
LEMMA EdgeDataInv ==
    ASSUME HistoryIsEnough,
           IdInv, IdInv', DataInv, NEW in \in AtMostOne(Addrs), NEW accept, NEW dispatch, NEW moving, NEW taken,
           Edge(in, accept, dispatch, moving, taken)
    PROVE  DataInv'
<1>1. YoungestIsInMemory'
  BY EdgeYoungest
<1>2. LoadedIsLatest'
  BY EdgeLoaded
<1>3. LatestIsWrittenBack'
  BY EdgeLatest
<1>4. AnswersAreFollowed' /\ SampledIsRead'
  BY EdgeAnswers
<1>5. StaleIsFollowed'
  <2>1. Stale(0)' => stage'[0] # Empty /\ stage'[0].data # memory'[stage'[0].addr]
    BY DEF Stale, Valid
  <2>2. Stale(1)' => stage'[1] # Empty /\ stage'[1].data # memory'[stage'[1].addr]
    BY DEF Stale, Valid
  <2>3. Stale(0)' => \E i \in Written :
              /\ Followed(0, i)
              /\ i <= WAIT_FOR_WRITE_ACK + Ahead + 1
              /\ \A p \in Sent : stage'[p] # Empty => i <= p + Ahead
    BY <2>1, EdgeStaleReceived
  <2>4. Stale(1)' => \E i \in Written :
              /\ Followed(1, i)
              /\ \A p \in Sent : stage'[p] # Empty => i <= WAIT_FOR_WRITE_ACK + Ahead + 1
              /\ \A p, q \in Sent : p < q /\ stage'[p] # Empty /\ stage'[q] # Empty => i <= q + Ahead
    BY <2>2, EdgeStaleLoading
  <2>5. \A s, i : Followed(s, i) <=> WriteOf(s, i)'
    BY DEF Followed, WriteOf, Valid, Written, LAST, WAIT_FOR_WRITE_ACK, WRITE_BACK, STATE_LOAD
  <2>6. \A p : Valid(p)' <=> stage'[p] # Empty
    BY DEF Valid
  <2> QED  BY <2>3, <2>4, <2>5, <2>6 DEF StaleIsFollowed, Written, Sent, Ahead, LAST, WAIT_FOR_WRITE_ACK, WRITE_BACK, STATE_LOAD
<1> QED  BY <1>1, <1>2, <1>3, <1>4, <1>5 DEF DataInv

\* A reset forgets every operation.
LEMMA ResetDataInv == Reset => DataInv'
<1> SUFFICES ASSUME Reset PROVE DataInv'
  OBVIOUS
<1>1. \A i \in Stages : stage'[i] = Empty
  BY DEF Reset
<1>2. /\ 0 \in Stages /\ 1 \in Stages /\ STATE_LOAD \in Stages /\ WRITE_BACK \in Stages
      /\ Written \subseteq Stages
  BY StageNumbers, SMT DEF Stages, STATE_LOAD, Written
<1>3. YoungestIsInMemory'
  BY <1>1, <1>2 DEF YoungestIsInMemory, Valid, Written
<1>4. (LoadedIsLatest /\ LatestIsWrittenBack)'
  BY <1>1, <1>2 DEF LoadedIsLatest, LatestIsWrittenBack, Valid, STATE_LOAD, WRITE_BACK
<1>5. ~Stale(0)' /\ ~Stale(1)'
  BY <1>1, <1>2 DEF Stale, Valid
<1>6. StaleIsFollowed'
  BY <1>5 DEF StaleIsFollowed
<1>7. AnswersAreFollowed' /\ SampledIsRead'
  <2>1. reads' = {} /\ \A n \in Slots : age'[n] = -1
    BY DEF Reset
  <2> QED  BY <2>1 DEF AnswersAreFollowed, SampledIsRead, Slots, MAX_DEPTH
<1> QED  BY <1>3, <1>4, <1>6, <1>7 DEF DataInv

---------------------------------------------------------------------------
(* What is reported *)

\* Stage i holds an operation on counter a.
Holds(i, a) == Valid(i) /\ stage[i].addr = a

\* A write is the one before it plus one, the oldest is the reported value plus one.
SentInTurn ==
    \A i \in Sent : Valid(i) =>
        /\ (\A k \in Sent : k > i => ~Holds(k, stage[i].addr))
              => stage[i].data = (reported[stage[i].addr] + 1) % STATE_MOD
        /\ \A k \in Sent : /\ k > i /\ Holds(k, stage[i].addr)
                           /\ \A l \in Sent : l > i /\ l < k => ~Holds(l, stage[i].addr)
              => stage[i].data = (stage[k].data + 1) % STATE_MOD

NothingSent == \A a \in Addrs : (\A i \in Sent : ~Holds(i, a)) => memory[a] = reported[a]

\* The inductive invariant of the reports, relative to the other two.
ReportInv == SentInTurn /\ NothingSent

\* The operation in WAIT_FOR_WRITE_ACK is reported when it leaves.
Reports(moving, a) == WAIT_FOR_WRITE_ACK \in moving /\ stage[WAIT_FOR_WRITE_ACK].addr = a

\* dataOut reports the operation that leaves WAIT_FOR_WRITE_ACK.
LEMMA ReportedAfter ==
    ASSUME NEW in, NEW accept, NEW dispatch, NEW moving, NEW taken,
           Edge(in, accept, dispatch, moving, taken), NEW a \in Addrs
    PROVE  /\ Reports(moving, a) => reported'[a] = stage[WAIT_FOR_WRITE_ACK].data
           /\ ~Reports(moving, a) => reported'[a] = reported[a]
<1>1. reported' = [b \in Addrs |->
            IF \E i \in moving \cap {WAIT_FOR_WRITE_ACK} : stage[i].addr = b
            THEN stage[WAIT_FOR_WRITE_ACK].data ELSE reported[b]]
  BY DEF Edge
<1>2. (\E i \in moving \cap {WAIT_FOR_WRITE_ACK} : stage[i].addr = a) <=> Reports(moving, a)
  BY Zenon DEF Reports
<1> QED  BY <1>1, <1>2

\* What older writes there were: those there are, and the one that is reported.
LEMMA OlderSent ==
    ASSUME TypeOK, NEW moving, LeaveInTurn(moving), NEW r, stage' = NextStage(moving, r),
           NEW j \in Sent, NEW a,
           \A k \in Sent : k > j => ~(stage'[k] # Empty /\ stage'[k].addr = a),
           NEW i \in Sent, Holds(i, a), Dest(moving, i) > j
    PROVE  i = WAIT_FOR_WRITE_ACK /\ Reports(moving, a)
<1>1. Valid(i) /\ stage[i].addr = a
  BY DEF Holds
<1>2. SUFFICES ASSUME ~(i = WAIT_FOR_WRITE_ACK /\ i \in moving)
               PROVE  FALSE
  BY <1>1 DEF Reports
<1> QED  BY <1>1, <1>2, SentStays

\* A counter without a sent write is in the memory as it was reported.
LEMMA EdgeNothingSent ==
    ASSUME IdInv, DataInv, ReportInv,
           NEW in \in AtMostOne(Addrs), NEW accept, NEW dispatch, NEW moving, NEW taken,
           Edge(in, accept, dispatch, moving, taken)
    PROVE  NothingSent'
<1>1. /\ TypeOK /\ LeaveInTurn(moving) /\ stage' = NextStage(moving, taken) /\ YoungestIsInMemory
      /\ NothingSent
  BY DEF Edge, IdInv, DataInv, ReportInv
<1> SUFFICES ASSUME NEW a \in Addrs,
                    \A j \in Sent : ~(stage'[j] # Empty /\ stage'[j].addr = a)
             PROVE  memory'[a] = reported'[a]
  BY DEF NothingSent, Holds, Valid, Sent
<1>2. memory'[a] = memory[a]
  BY <1>1, MemoryAfter, SentFacts
<1>3. \A i \in Sent : Holds(i, a) => i = WAIT_FOR_WRITE_ACK /\ Reports(moving, a)
  <2> SUFFICES ASSUME NEW i \in Sent, Holds(i, a), ~(i = WAIT_FOR_WRITE_ACK /\ i \in moving)
               PROVE  FALSE
    BY DEF Reports, Holds
  <2> QED  BY <1>1, SentStays DEF Holds
<1>4. CASE Reports(moving, a)
  <2>1. Valid(WAIT_FOR_WRITE_ACK) /\ stage[WAIT_FOR_WRITE_ACK].addr = a
    BY <1>1, <1>4 DEF Reports, LeaveInTurn
  <2>2. \A j \in Written : j < WAIT_FOR_WRITE_ACK /\ Valid(j) => stage[j].addr # a
    <3> SUFFICES ASSUME NEW j \in Written, j < WAIT_FOR_WRITE_ACK, Valid(j), stage[j].addr = a PROVE FALSE
      OBVIOUS
    <3>1. j \in Sent /\ j # WAIT_FOR_WRITE_ACK
      BY SentFacts, WrittenFacts, StageNumbers
    <3> QED  BY <1>3, <3>1 DEF Holds
  <2>3. stage[WAIT_FOR_WRITE_ACK].data = memory[a]
    BY <1>1, <2>1, <2>2, SentFacts DEF YoungestIsInMemory
  <2> QED  BY <1>2, <1>4, <2>3, ReportedAfter
<1>5. CASE ~Reports(moving, a)
  <2>1. memory[a] = reported[a]
    BY <1>1, <1>3, <1>5 DEF NothingSent
  <2> QED  BY <1>2, <1>5, <2>1, ReportedAfter
<1> QED  BY <1>4, <1>5

\* The sent writes of a counter stay consecutive increments.
LEMMA EdgeSentInTurn ==
    ASSUME IdInv, DataInv, ReportInv,
           NEW in \in AtMostOne(Addrs), NEW accept, NEW dispatch, NEW moving, NEW taken,
           Edge(in, accept, dispatch, moving, taken)
    PROVE  SentInTurn'
<1>1. /\ TypeOK /\ LeaveInTurn(moving) /\ stage' = NextStage(moving, taken) /\ YoungestIsInMemory
      /\ NothingSent /\ SentInTurn /\ LatestIsWrittenBack
  BY DEF Edge, IdInv, DataInv, ReportInv
<1>2. TypeOK'
  BY EdgeTypes
<1> SUFFICES ASSUME NEW j \in Sent, stage'[j] # Empty, NEW a, a = stage'[j].addr
             PROVE  /\ (\A k \in Sent : k > j => ~(stage'[k] # Empty /\ stage'[k].addr = a))
                         => stage'[j].data = (reported'[a] + 1) % STATE_MOD
                    /\ \A k \in Sent : (/\ k > j /\ stage'[k] # Empty /\ stage'[k].addr = a
                                        /\ \A l \in Sent : l > j /\ l < k => ~(stage'[l] # Empty /\ stage'[l].addr = a))
                         => stage'[j].data = (stage'[k].data + 1) % STATE_MOD
  BY DEF SentInTurn, Holds, Valid, Sent
<1>3. a \in Addrs
  BY <1>2, SentFacts DEF TypeOK, Valid, Active, OpenOp
<1>4. j \in Nat /\ j >= WRITE_BACK + 1 /\ WRITE_BACK + 1 \in Nat
  BY SentFacts
<1>5. CASE j = WRITE_BACK + 1 /\ WRITE_BACK \in moving /\ stage'[j] = stage[WRITE_BACK]
  <2>1. stage'[j].data = (memory[a] + 1) % STATE_MOD
    BY <1>1, <1>5 DEF LatestIsWrittenBack, LeaveInTurn
  <2>2. ASSUME NEW i \in Sent, Holds(i, a), ~(i = WAIT_FOR_WRITE_ACK /\ i \in moving)
        PROVE  /\ Dest(moving, i) \in Sent /\ Dest(moving, i) > j
               /\ stage'[Dest(moving, i)] # Empty /\ stage'[Dest(moving, i)].addr = a
               /\ stage'[Dest(moving, i)].data = stage[i].data
    <3>1. Valid(i) /\ stage[i].addr = a
      BY <2>2 DEF Holds
    <3>2. /\ Dest(moving, i) \in Sent
          /\ stage'[Dest(moving, i)] # Empty
          /\ stage'[Dest(moving, i)].addr = stage[i].addr
          /\ stage'[Dest(moving, i)].data = stage[i].data
          /\ Dest(moving, i) = WRITE_BACK + 1 => WRITE_BACK \notin moving
      BY <1>1, <2>2, <3>1, SentStays
    <3>3. Dest(moving, i) > j
      <4>1. Dest(moving, i) # 4 /\ j = 4
        BY <1>5, <3>2, SentFacts
      <4>2. \A d \in Sent : d # 4 => d > 4
        BY SentFacts, SMT
      <4> QED  BY <3>2, <4>1, <4>2
    <3> QED  BY <3>1, <3>2, <3>3
  <2>3. ASSUME \A k \in Sent : k > j => ~(stage'[k] # Empty /\ stage'[k].addr = a)
        PROVE  memory[a] = reported'[a]
    <3>1. \A i \in Sent : Holds(i, a) => i = WAIT_FOR_WRITE_ACK /\ Reports(moving, a)
      BY <2>2, <2>3 DEF Reports, Holds
    <3>2. CASE Reports(moving, a)
      <4>1. Valid(WAIT_FOR_WRITE_ACK) /\ stage[WAIT_FOR_WRITE_ACK].addr = a
        BY <1>1, <3>2 DEF Reports, LeaveInTurn
      <4>2. \A l \in Written : l < WAIT_FOR_WRITE_ACK /\ Valid(l) => stage[l].addr # a
        <5> SUFFICES ASSUME NEW l \in Written, l < WAIT_FOR_WRITE_ACK, Valid(l), stage[l].addr = a PROVE FALSE
          OBVIOUS
        <5>1. l \in Sent /\ l # WAIT_FOR_WRITE_ACK
          BY SentFacts, WrittenFacts, StageNumbers
        <5> QED  BY <3>1, <5>1 DEF Holds
      <4>3. stage[WAIT_FOR_WRITE_ACK].data = memory[a]
        BY <1>1, <4>1, <4>2, SentFacts DEF YoungestIsInMemory
      <4> QED  BY <1>3, <3>2, <4>3, ReportedAfter
    <3>3. CASE ~Reports(moving, a)
      <4>1. memory[a] = reported[a]
        BY <1>1, <1>3, <3>1, <3>3 DEF NothingSent
      <4> QED  BY <1>3, <3>3, <4>1, ReportedAfter
    <3> QED  BY <3>2, <3>3
  <2>4. ASSUME NEW k \in Sent, k > j, stage'[k] # Empty, stage'[k].addr = a,
               \A l \in Sent : l > j /\ l < k => ~(stage'[l] # Empty /\ stage'[l].addr = a)
        PROVE  memory[a] = stage'[k].data
    <3>1. PICK i \in Sent : /\ Valid(i) /\ k = Dest(moving, i) /\ ~(i = WAIT_FOR_WRITE_ACK /\ i \in moving)
                            /\ stage'[k].addr = stage[i].addr
                            /\ stage'[k].data = stage[i].data
      <4>1. k # WRITE_BACK + 1
        BY <1>5, <2>4, SentFacts
      <4> QED  BY <1>1, <2>4, <4>1, SentComeFrom
    <3>2. \A l \in Written : l < i /\ Valid(l) => stage[l].addr # a
      <4> SUFFICES ASSUME NEW l \in Written, l < i, Valid(l), stage[l].addr = a PROVE FALSE
        OBVIOUS
      <4>1. l \in Sent /\ l # WAIT_FOR_WRITE_ACK
        BY SentFacts, WrittenFacts, StageNumbers
      <4>2. Dest(moving, l) < k
        BY <1>1, <3>1, SentFacts, WritesKeepOrder
      <4> QED  BY <2>2, <2>4, <4>1, <4>2 DEF Holds
    <3> QED  BY <1>1, <2>4, <3>1, <3>2, SentFacts DEF YoungestIsInMemory
  <2> QED  BY <2>1, <2>3, <2>4
<1>6. ASSUME NEW i \in Sent, Valid(i), j = Dest(moving, i), ~(i = WAIT_FOR_WRITE_ACK /\ i \in moving),
             a = stage[i].addr, stage'[j].data = stage[i].data
      PROVE  /\ (\A k \in Sent : k > j => ~(stage'[k] # Empty /\ stage'[k].addr = a))
                   => stage'[j].data = (reported'[a] + 1) % STATE_MOD
             /\ \A k \in Sent : (/\ k > j /\ stage'[k] # Empty /\ stage'[k].addr = a
                                 /\ \A l \in Sent : l > j /\ l < k => ~(stage'[l] # Empty /\ stage'[l].addr = a))
                   => stage'[j].data = (stage'[k].data + 1) % STATE_MOD
  <2>1. \A k \in Sent : k > i /\ Valid(k) => Dest(moving, k) > j
    BY <1>1, <1>6, SentFacts, WritesKeepOrder
  <2>2. ASSUME \A k \in Sent : k > j => ~(stage'[k] # Empty /\ stage'[k].addr = a)
        PROVE  stage[i].data = (reported'[a] + 1) % STATE_MOD
    <3>1. \A k \in Sent : k > i /\ Holds(k, a) => k = WAIT_FOR_WRITE_ACK /\ Reports(moving, a)
      BY <1>1, <2>1, <2>2, OlderSent DEF Holds
    <3>2. CASE Reports(moving, a)
      <4>1. Holds(WAIT_FOR_WRITE_ACK, a) /\ WAIT_FOR_WRITE_ACK > i
        BY <1>1, <1>6, <3>2, SentFacts DEF Reports, LeaveInTurn, Holds
      <4>2. \A l \in Sent : l > i /\ l < WAIT_FOR_WRITE_ACK => ~Holds(l, a)
        BY <3>1, SentFacts
      <4>3. stage[i].data = (stage[WAIT_FOR_WRITE_ACK].data + 1) % STATE_MOD
        BY <1>1, <1>6, <4>1, <4>2, SentFacts DEF SentInTurn
      <4> QED  BY <1>3, <3>2, <4>3, ReportedAfter
    <3>3. CASE ~Reports(moving, a)
      <4>1. stage[i].data = (reported[a] + 1) % STATE_MOD
        BY <1>1, <1>6, <3>1, <3>3 DEF SentInTurn
      <4> QED  BY <1>3, <3>3, <4>1, ReportedAfter
    <3> QED  BY <3>2, <3>3
  <2>3. ASSUME NEW k \in Sent, k > j, stage'[k] # Empty, stage'[k].addr = a,
               \A l \in Sent : l > j /\ l < k => ~(stage'[l] # Empty /\ stage'[l].addr = a)
        PROVE  stage[i].data = (stage'[k].data + 1) % STATE_MOD
    <3>1. PICK k0 \in Sent : /\ Valid(k0) /\ k = Dest(moving, k0) /\ ~(k0 = WAIT_FOR_WRITE_ACK /\ k0 \in moving)
                             /\ stage'[k].addr = stage[k0].addr
                             /\ stage'[k].data = stage[k0].data
      <4>1. k # WRITE_BACK + 1
        BY <1>4, <2>3, SentFacts
      <4> QED  BY <1>1, <2>3, <4>1, SentComeFrom
    <3>2. k0 > i
      <4>1. k0 < i => k < j
        BY <1>1, <1>6, <3>1, SentFacts, WritesKeepOrder
      <4>2. k0 # i
        BY <1>4, <1>6, <2>3, <3>1, SentFacts
      <4> QED  BY <1>4, <2>3, <4>1, <4>2, SentFacts
    <3>3. ASSUME NEW l \in Sent, l > i, l < k0, Holds(l, a) PROVE FALSE
      <4>1. Valid(l) /\ stage[l].addr = a /\ l # WAIT_FOR_WRITE_ACK
        BY <3>3, SentFacts DEF Holds
      <4>2. Dest(moving, l) < k
        BY <1>1, <3>1, <3>3, SentFacts, WritesKeepOrder
      <4>3. Dest(moving, l) > j
        BY <2>1, <3>3, <4>1
      <4>4. /\ Dest(moving, l) \in Sent
            /\ stage'[Dest(moving, l)] # Empty
            /\ stage'[Dest(moving, l)].addr = stage[l].addr
        BY <1>1, <4>1, SentStays
      <4> QED  BY <2>3, <4>1, <4>2, <4>3, <4>4
    <3>4. stage[i].data = (stage[k0].data + 1) % STATE_MOD
      BY <1>1, <1>6, <2>3, <3>1, <3>2, <3>3 DEF SentInTurn, Holds
    <3> QED  BY <3>1, <3>4
  <2> QED  BY <1>6, <2>2, <2>3
<1> QED  BY <1>1, <1>5, <1>6, SentComeFrom

\* Power-up: everything is zero.
LEMMA InitReportInv == Init => ReportInv
<1> SUFFICES ASSUME Init PROVE ReportInv
  OBVIOUS
<1>1. \A i \in Sent : ~Valid(i)
  BY StageNumbers, SMT DEF Init, Valid, Sent, Stages
<1>2. memory = reported
  BY DEF Init
<1> QED  BY <1>1, <1>2 DEF ReportInv, SentInTurn, NothingSent

\* After a reset what counts as reported is the memory.
LEMMA ResetReportInv == Reset => ReportInv'
<1> SUFFICES ASSUME Reset PROVE ReportInv'
  OBVIOUS
<1>1. Sent \subseteq Stages
  BY StageNumbers, SMT DEF Sent, Stages
<1>2. \A i \in Sent : stage'[i] = Empty
  BY <1>1 DEF Reset
<1>3. memory' = reported'
  BY DEF Reset
<1>4. SentInTurn'
  BY <1>2 DEF SentInTurn, Valid, Sent
<1>5. NothingSent'
  BY <1>2, <1>3 DEF NothingSent, Sent
<1> QED  BY <1>4, <1>5 DEF ReportInv

---------------------------------------------------------------------------
(* What reads of the memory see *)

\* The writes of a counter are seen in the order in which they have been sent.
SeenInOrder ==
    \A i, k \in Sent :
        Valid(i) /\ Unseen(k) /\ i < k /\ stage[i].addr = stage[k].addr => Unseen(i)

\* Reads see the youngest write that is seen.
YoungestSeen ==
    \A k \in Sent :
        Valid(k) /\ ~Unseen(k) /\ (\A i \in Sent : i < k /\ Holds(i, stage[k].addr) => Unseen(i))
            => visible[stage[k].addr] = stage[k].data

\* When none of those that are not reported is seen, reads see what was reported.
NothingSeen ==
    \A a \in Addrs : (\A k \in Sent : Holds(k, a) => Unseen(k)) => visible[a] = reported[a]

\* The invariant of what reads see.
SeenInv == SeenInOrder /\ YoungestSeen /\ NothingSeen

\* Reads see what the taken writes make when none of them is yet to be seen.
LEMMA SeenIsInMemory ==
    ASSUME TypeOK, YoungestIsInMemory, NothingSent, SeenInv, NEW a \in Addrs, visible[a] # memory[a]
    PROVE  \E k \in Sent : Holds(k, a) /\ Unseen(k)
<1> SUFFICES ASSUME \A k \in Sent : Holds(k, a) => ~Unseen(k) PROVE FALSE
  OBVIOUS
<1> DEFINE S == {k \in Sent : Holds(k, a)}
<1>1. CASE S = {}
  BY <1>1 DEF NothingSent, SeenInv, NothingSeen
<1>2. CASE S # {}
  <2>1. S \subseteq Nat
    BY SentFacts
  <2>2. PICK k \in S : \A y \in S : k <= y
    <3> HIDE DEF S
    <3> QED  BY <1>2, <2>1, MinIsLeast
  <2>3. k \in Sent /\ Valid(k) /\ stage[k].addr = a /\ ~Unseen(k)
    BY DEF Holds
  <2>4. \A i \in Sent : i < k => ~Holds(i, a)
    BY <2>2, <2>3, SentFacts
  <2>5. visible[a] = stage[k].data
    BY <2>3, <2>4 DEF SeenInv, YoungestSeen
  <2>6. \A j \in Written : j < k /\ Valid(j) => stage[j].addr # a
    BY <2>3, <2>4, SentFacts, WrittenFacts, StageNumbers DEF Holds
  <2>7. stage[k].data = memory[a]
    BY <2>3, <2>6, SentFacts DEF YoungestIsInMemory
  <2> QED  BY <2>5, <2>7
<1> QED  BY <1>1, <1>2

\* A write stays seen or unseen while it moves on.
LEMMA UnseenStays ==
    ASSUME TypeOK, IdsDiffer, NEW in, NEW accept, NEW dispatch, NEW moving, NEW taken,
           Edge(in, accept, dispatch, moving, taken),
           NEW i \in Sent, Valid(i), ~(i = WAIT_FOR_WRITE_ACK /\ i \in moving)
    PROVE  Unseen(Dest(moving, i))' <=> Unseen(i)
<1>1. /\ LeaveInTurn(moving) /\ stage' = NextStage(moving, taken)
      /\ unseen' = IF WRITE_BACK \in moving THEN unseen \cup {stage[WRITE_BACK].id} ELSE unseen
  BY DEF Edge, MemoryEdge
<1>2. /\ i \in Nat /\ i >= 4 /\ i <= WAIT_FOR_WRITE_ACK /\ i \in Active /\ i \in Written
      /\ WAIT_FOR_WRITE_ACK \in Nat /\ WRITE_BACK = 3 /\ (i + 1) - 1 = i /\ (i - 1) + 1 = i
  BY SentFacts, StageNumbers
<1>3. stage'[Dest(moving, i)] = stage[i]
  <2>1. CASE i \in moving
    <3>1. i + 1 \in Active \ {0, STATE_LOAD, WRITE_BACK} /\ Dest(moving, i) = i + 1
      BY <1>2, <2>1, StageNumbers, SMT DEF Active, STATE_LOAD, Dest
    <3>2. stage'[i + 1] = stage[(i + 1) - 1]
      <4>1. (i + 1) - 1 \in moving
        BY <1>2, <2>1
      <4> QED  BY <1>1, <3>1, <4>1, StageAfter, Zenon
    <3> QED  BY <1>2, <3>1, <3>2
  <2>2. CASE i \notin moving
    <3>1. i \in Active \ {0, STATE_LOAD, WRITE_BACK} /\ Dest(moving, i) = i
      BY <1>2, <2>2, WrittenFacts DEF Dest
    <3>2. i - 1 \notin moving
      <4>1. i - 1 # WAIT_FOR_WRITE_ACK
        BY <1>2
      <4> QED  BY <1>1, <1>2, <2>2, <4>1 DEF LeaveInTurn
    <3> QED  BY <1>1, <2>2, <3>1, <3>2, StageAfter, Zenon
  <2> QED  BY <2>1, <2>2
<1>4. Unseen(Dest(moving, i))' <=> stage'[Dest(moving, i)] # Empty /\ stage'[Dest(moving, i)].id \in unseen'
  BY DEF Unseen, Valid, Dest, Active, WAIT_FOR_WRITE_ACK, WRITE_BACK, STATE_LOAD
<1>5. WRITE_BACK \in moving => stage[i].id # stage[WRITE_BACK].id
  <2>1. WRITE_BACK \in Active /\ WRITE_BACK # i
    BY <1>2, WrittenFacts
  <2> QED  BY <1>1, <1>2, <2>1 DEF LeaveInTurn, IdsDiffer
<1> QED  BY <1>1, <1>3, <1>4, <1>5 DEF Unseen, Valid

\* A sent write that is seen was so before, and so were its data.
LEMMA SeenComeFrom ==
    ASSUME TypeOK, IdsDiffer, NEW in, NEW accept, NEW dispatch, NEW moving, NEW taken,
           Edge(in, accept, dispatch, moving, taken),
           NEW j \in Sent, stage'[j] # Empty
    PROVE  \/ j = WRITE_BACK + 1 /\ Unseen(j)'
           \/ \E i \in Sent : /\ Valid(i) /\ j = Dest(moving, i) /\ ~(i = WAIT_FOR_WRITE_ACK /\ i \in moving)
                              /\ stage'[j].addr = stage[i].addr
                              /\ stage'[j].data = stage[i].data
                              /\ Unseen(j)' <=> Unseen(i)
<1>1. LeaveInTurn(moving) /\ stage' = NextStage(moving, taken)
      /\ unseen' = IF WRITE_BACK \in moving THEN unseen \cup {stage[WRITE_BACK].id} ELSE unseen
  BY DEF Edge, MemoryEdge
<1>2. CASE j = WRITE_BACK + 1 /\ WRITE_BACK \in moving /\ stage'[j] = stage[WRITE_BACK]
  <2>1. stage'[j].id \in unseen'
    BY <1>1, <1>2
  <2> QED  BY <1>2, <2>1 DEF Unseen, Valid
<1>3. ASSUME NEW i \in Sent, Valid(i), j = Dest(moving, i), ~(i = WAIT_FOR_WRITE_ACK /\ i \in moving),
             stage'[j].addr = stage[i].addr, stage'[j].data = stage[i].data
      PROVE  Unseen(j)' <=> Unseen(i)
  <2>1. Unseen(Dest(moving, i))' <=> Unseen(i)
    BY <1>3, UnseenStays
  <2>2. Unseen(Dest(moving, i))' <=> stage'[Dest(moving, i)] # Empty /\ stage'[Dest(moving, i)].id \in unseen'
    BY DEF Unseen, Valid, Dest, Active, WAIT_FOR_WRITE_ACK, WRITE_BACK, STATE_LOAD
  <2>3. Unseen(j)' <=> stage'[j] # Empty /\ stage'[j].id \in unseen'
    BY DEF Unseen, Valid
  <2> QED  BY <1>3, <2>1, <2>2, <2>3
<1> QED  BY <1>1, <1>2, <1>3, SentComeFrom

\* An edge shows nothing; what it acknowledges has been seen.
LEMMA EdgeSeenInv ==
    ASSUME IdInv, IdInv', SeenInv, NEW in \in AtMostOne(Addrs), NEW accept, NEW dispatch, NEW moving, NEW taken,
           Edge(in, accept, dispatch, moving, taken)
    PROVE  SeenInv'
<1>1. /\ TypeOK /\ IdsDiffer /\ LeaveInTurn(moving) /\ stage' = NextStage(moving, taken)
      /\ visible' = visible /\ (WAIT_FOR_WRITE_ACK \in moving => ~Unseen(WAIT_FOR_WRITE_ACK))
      /\ SeenInOrder /\ YoungestSeen /\ NothingSeen
  BY DEF Edge, MemoryEdge, IdInv, SeenInv
<1>2. \A k \in Sent : k \in Nat /\ k >= WRITE_BACK + 1 /\ k \in Written /\ k <= WAIT_FOR_WRITE_ACK
  BY SentFacts
<1>3. /\ Sent' = Sent
      /\ \A k : (Valid(k)' <=> stage'[k] # Empty)
      /\ \A k, a : (Holds(k, a)' <=> stage'[k] # Empty /\ stage'[k].addr = a)
  BY DEF Sent, Valid, Holds, WAIT_FOR_WRITE_ACK, WRITE_BACK, STATE_LOAD
<1>4. SeenInOrder'
  <2> SUFFICES ASSUME NEW i \in Sent, NEW k \in Sent, stage'[i] # Empty, Unseen(k)', i < k,
                      stage'[i].addr = stage'[k].addr
               PROVE  Unseen(i)'
    BY <1>3 DEF SeenInOrder
  <2>1. stage'[k] # Empty
    BY DEF Unseen, Valid
  <2>2. k # WRITE_BACK + 1
    BY <1>2
  <2>3. PICK k0 \in Sent : Valid(k0) /\ k = Dest(moving, k0) /\ stage'[k].addr = stage[k0].addr /\ Unseen(k0)
    BY <1>1, <2>1, <2>2, SeenComeFrom
  <2>4. SUFFICES ASSUME NEW i0 \in Sent, Valid(i0), i = Dest(moving, i0), stage'[i].addr = stage[i0].addr,
                        Unseen(i)' <=> Unseen(i0)
                 PROVE  Unseen(i)'
    BY <1>1, SeenComeFrom
  <2>5. i0 < k0
    BY <1>1, <1>2, <2>3, <2>4, OrderWasKept
  <2>6. Unseen(i0)
    BY <1>1, <2>3, <2>4, <2>5 DEF SeenInOrder
  <2> QED  BY <2>4, <2>6
<1>5. \* what is seen, when the younger writes of the counter are not
      ASSUME NEW a, NEW k \in Sent, Holds(k, a), ~Unseen(k),
             \A i \in Sent : i < k /\ Holds(i, a) => Unseen(i)
      PROVE  visible[a] = stage[k].data
  BY <1>1, <1>5 DEF YoungestSeen, Holds
<1>6. \* an unseen write was unseen
      ASSUME NEW i \in Sent, NEW a, Holds(i, a), ~(i = WAIT_FOR_WRITE_ACK /\ i \in moving)
      PROVE  /\ Dest(moving, i) \in Sent
             /\ stage'[Dest(moving, i)] # Empty /\ stage'[Dest(moving, i)].addr = a
             /\ \A d : d = Dest(moving, i) => (Unseen(d)' <=> Unseen(i))
  <2>1. Valid(i) /\ stage[i].addr = a
    BY <1>6 DEF Holds
  <2>2. Unseen(Dest(moving, i))' <=> Unseen(i)
    BY <1>1, <1>6, <2>1, UnseenStays
  <2>3. Unseen(Dest(moving, i))' <=> stage'[Dest(moving, i)] # Empty /\ stage'[Dest(moving, i)].id \in unseen'
    BY DEF Unseen, Valid, Dest, Active, WAIT_FOR_WRITE_ACK, WRITE_BACK, STATE_LOAD
  <2>4. \A d : Unseen(d)' <=> stage'[d] # Empty /\ stage'[d].id \in unseen'
    BY DEF Unseen, Valid
  <2>5. \A d : d = Dest(moving, i) => (Unseen(d)' <=> Unseen(i))
    BY <2>2, <2>3, <2>4
  <2> QED  BY <1>1, <1>6, <2>1, <2>5, SentStays
<1>7. YoungestSeen'
  <2> SUFFICES ASSUME NEW k \in Sent, stage'[k] # Empty, ~Unseen(k)',
                      \A i \in Sent : i < k /\ stage'[i] # Empty /\ stage'[i].addr = stage'[k].addr => Unseen(i)'
               PROVE  visible'[stage'[k].addr] = stage'[k].data
    BY <1>3 DEF YoungestSeen
  <2>1. PICK k0 \in Sent : /\ Valid(k0) /\ k = Dest(moving, k0) /\ ~Unseen(k0)
                           /\ stage'[k].addr = stage[k0].addr /\ stage'[k].data = stage[k0].data
    BY <1>1, SeenComeFrom
  <2>2. ASSUME NEW i \in Sent, i < k0, Holds(i, stage[k0].addr) PROVE Unseen(i)
    <3>1. i # WAIT_FOR_WRITE_ACK
      BY <1>2, <2>2
    <3>2. Dest(moving, i) < k
      BY <1>1, <1>2, <2>1, <2>2, WritesKeepOrder
    <3>3. /\ Dest(moving, i) \in Sent
          /\ stage'[Dest(moving, i)] # Empty /\ stage'[Dest(moving, i)].addr = stage[k0].addr
          /\ \A d : d = Dest(moving, i) => (Unseen(d)' <=> Unseen(i))
      BY <1>6, <2>2, <3>1
    <3>4. \A d \in Sent : d = Dest(moving, i) => Unseen(d)'
      BY <2>1, <3>2, <3>3
    <3> QED  BY <3>3, <3>4
  <2>3. visible[stage[k0].addr] = stage[k0].data
    BY <1>5, <2>1, <2>2 DEF Holds
  <2> QED  BY <1>1, <2>1, <2>3
<1>8. NothingSeen'
  <2> SUFFICES ASSUME NEW a \in Addrs, \A k \in Sent : stage'[k] # Empty /\ stage'[k].addr = a => Unseen(k)'
               PROVE  visible'[a] = reported'[a]
    BY <1>3 DEF NothingSeen
  <2>1. ASSUME NEW i \in Sent, Holds(i, a), ~(i = WAIT_FOR_WRITE_ACK /\ i \in moving) PROVE Unseen(i)
    <3>1. /\ Dest(moving, i) \in Sent
          /\ stage'[Dest(moving, i)] # Empty /\ stage'[Dest(moving, i)].addr = a
          /\ \A d : d = Dest(moving, i) => (Unseen(d)' <=> Unseen(i))
      BY <1>6, <2>1
    <3>2. \A d \in Sent : d = Dest(moving, i) => Unseen(d)'
      BY <3>1
    <3> QED  BY <3>1, <3>2
  <2>2. CASE Reports(moving, a)
    <3>1. Holds(WAIT_FOR_WRITE_ACK, a) /\ ~Unseen(WAIT_FOR_WRITE_ACK) /\ WAIT_FOR_WRITE_ACK \in Sent
      BY <1>1, <2>2, SentFacts DEF Reports, LeaveInTurn, Holds
    <3>2. \A i \in Sent : i < WAIT_FOR_WRITE_ACK /\ Holds(i, a) => Unseen(i)
      BY <1>2, <2>1, StageNumbers
    <3>3. visible[a] = stage[WAIT_FOR_WRITE_ACK].data
      BY <1>5, <3>1, <3>2
    <3> QED  BY <1>1, <2>2, <3>3, ReportedAfter
  <2>3. CASE ~Reports(moving, a)
    <3>1. \A i \in Sent : Holds(i, a) => Unseen(i)
      BY <2>1, <2>3 DEF Reports, Holds
    <3>2. visible[a] = reported[a]
      BY <1>1, <3>1 DEF NothingSeen
    <3> QED  BY <1>1, <2>3, <3>2, ReportedAfter
  <2> QED  BY <2>2, <2>3
<1> QED  BY <1>4, <1>7, <1>8 DEF SeenInv

\* Showing a write keeps the order.
LEMMA ShowSeenInv ==
    ASSUME IdInv, SeenInv, NEW n \in Sent, Show(n)
    PROVE  SeenInv'
<1>1. /\ TypeOK /\ IdsDiffer /\ SeenInOrder /\ YoungestSeen /\ NothingSeen
  BY DEF IdInv, SeenInv
<1>2. /\ Unseen(n) /\ Valid(n)
      /\ \A k \in Sent : k > n /\ Unseen(k) => stage[k].addr # stage[n].addr
      /\ visible' = [visible EXCEPT ![stage[n].addr] = stage[n].data]
      /\ unseen' = unseen \ {stage[n].id}
      /\ stage' = stage /\ reported' = reported
  BY DEF Show, Unseen
<1>3. \A k \in Sent : k \in Nat /\ k \in Active
  BY SentFacts
<1>4. \A k \in Sent : Unseen(k)' <=> Unseen(k) /\ k # n
  <2> TAKE k \in Sent
  <2>1. Unseen(k)' <=> Valid(k) /\ stage[k].id \in unseen /\ stage[k].id # stage[n].id
    BY <1>2 DEF Unseen, Valid
  <2>2. Valid(k) /\ stage[k].id = stage[n].id => k = n
    BY <1>1, <1>2, <1>3 DEF IdsDiffer
  <2> QED  BY <2>1, <2>2 DEF Unseen
<1>5. stage[n].addr \in Addrs /\ visible \in [Addrs -> Vals]
  BY <1>1, <1>2, <1>3 DEF TypeOK, OpenOp
<1>6. /\ \A a \in Addrs : a # stage[n].addr => visible'[a] = visible[a]
      /\ visible'[stage[n].addr] = stage[n].data
  BY <1>2, <1>5
<1>7. \A k, a : (Valid(k)' <=> Valid(k)) /\ (Holds(k, a)' <=> Holds(k, a))
  BY <1>2 DEF Valid, Holds
<1>8. SeenInOrder'
  <2> SUFFICES ASSUME NEW i \in Sent, NEW k \in Sent, Valid(i), Unseen(k)', i < k, stage[i].addr = stage[k].addr
               PROVE  Unseen(i)'
    BY <1>2, <1>7 DEF SeenInOrder, Sent, WAIT_FOR_WRITE_ACK, WRITE_BACK, STATE_LOAD
  <2>1. Unseen(k) /\ k # n
    BY <1>4
  <2>2. Unseen(i)
    BY <1>1, <2>1 DEF SeenInOrder
  <2>3. i # n
    BY <1>2, <1>3, <2>1
  <2> QED  BY <1>4, <2>2, <2>3
<1>9. YoungestSeen'
  <2> SUFFICES ASSUME NEW k \in Sent, Valid(k), ~Unseen(k)',
                      \A i \in Sent : i < k /\ Holds(i, stage[k].addr) => Unseen(i)'
               PROVE  visible'[stage[k].addr] = stage[k].data
    BY <1>2, <1>7 DEF YoungestSeen, Sent, WAIT_FOR_WRITE_ACK, WRITE_BACK, STATE_LOAD
  <2>1. CASE k = n
    BY <1>6, <2>1
  <2>2. CASE k # n
    <3>1. ~Unseen(k)
      BY <1>4, <2>2
    <3>2. stage[k].addr # stage[n].addr
      <4>1. SUFFICES ASSUME stage[k].addr = stage[n].addr PROVE FALSE
        OBVIOUS
      <4>2. k < n \/ n < k
        BY <1>3, <2>2
      <4>3. k < n => Unseen(k)
        BY <1>1, <1>2, <4>1 DEF SeenInOrder
      <4>4. n < k => Unseen(n)'
        BY <1>2, <4>1 DEF Holds
      <4> QED  BY <1>4, <3>1, <4>2, <4>3, <4>4
    <3>3. \A i \in Sent : i < k /\ Holds(i, stage[k].addr) => Unseen(i)
      BY <1>4
    <3>4. visible[stage[k].addr] = stage[k].data
      BY <1>1, <3>1, <3>3 DEF YoungestSeen
    <3>5. stage[k].addr \in Addrs
      BY <1>1, <1>3 DEF TypeOK, OpenOp
    <3> QED  BY <1>6, <3>2, <3>4, <3>5
  <2> QED  BY <2>1, <2>2
<1>10. NothingSeen'
  <2> SUFFICES ASSUME NEW a \in Addrs, \A k \in Sent : Holds(k, a) => Unseen(k)'
               PROVE  visible'[a] = reported[a]
    BY <1>2, <1>7 DEF NothingSeen, Sent, WAIT_FOR_WRITE_ACK, WRITE_BACK, STATE_LOAD
  <2>1. a # stage[n].addr
    BY <1>2, <1>4 DEF Holds
  <2>2. \A k \in Sent : Holds(k, a) => Unseen(k)
    BY <1>4
  <2> QED  BY <1>1, <1>6, <2>1, <2>2 DEF NothingSeen
<1> QED  BY <1>8, <1>9, <1>10 DEF SeenInv

\* In a state without operations reads see what counts as reported.
LEMMA EmptySeenInv ==
    /\ Init => SeenInv
    /\ Reset => SeenInv'
<1>1. Sent \subseteq Stages
  BY StageNumbers, SMT DEF Sent, Stages
<1>2. ASSUME Init PROVE SeenInv
  <2>1. \A i \in Sent : ~Valid(i) /\ ~Unseen(i)
    BY <1>1, <1>2 DEF Init, Valid, Unseen
  <2>2. visible = reported
    BY <1>2 DEF Init
  <2> QED  BY <2>1, <2>2 DEF SeenInv, SeenInOrder, YoungestSeen, NothingSeen
<1>3. ASSUME Reset PROVE SeenInv'
  <2>1. \A i \in Sent : ~Valid(i)' /\ ~Unseen(i)'
    BY <1>1, <1>3 DEF Reset, Valid, Unseen
  <2>2. visible' = reported'
    BY <1>3 DEF Reset
  <2>3. SeenInOrder'
    BY <2>1 DEF SeenInOrder, Sent, WAIT_FOR_WRITE_ACK, WRITE_BACK, STATE_LOAD
  <2>4. YoungestSeen'
    BY <2>1 DEF YoungestSeen, Sent, WAIT_FOR_WRITE_ACK, WRITE_BACK, STATE_LOAD
  <2>5. NothingSeen'
    BY <2>2 DEF NothingSeen
  <2> QED  BY <2>3, <2>4, <2>5 DEF SeenInv
<1> QED  BY <1>2, <1>3

---------------------------------------------------------------------------
(* The invariants together *)

OooInv == IdInv /\ DataInv /\ ReportInv /\ SeenInv

\* What the memory does leaves the pipeline and the reports alone.
LEMMA MemoryKeepsReports ==
    ASSUME InMemoryOnly, ReportInv
    PROVE  ReportInv'
  BY DEF InMemoryOnly, ReportInv, SentInTurn, NothingSent, Holds, Valid

\* ... and so it does the stages' part of the invariant of the data.
LEMMA MemoryKeepsStages ==
    ASSUME InMemoryOnly, DataInv, AnswersAreFollowed', SampledIsRead'
    PROVE  DataInv'
  BY DEF InMemoryOnly, DataInv, YoungestIsInMemory, LoadedIsLatest, LatestIsWrittenBack,
         StaleIsFollowed, Stale, WriteOf, Valid

\* A read that samples its counter misses only writes that are yet to be seen.
LEMMA SampleAnswers ==
    ASSUME OooInv, NEW x \in reads, Sample(x)
    PROVE  AnswersAreFollowed' /\ SampledIsRead'
<1>1. /\ TypeOK /\ IdsDiffer /\ YoungestIsInMemory /\ NothingSent /\ SeenInv
      /\ AnswersAreFollowed /\ SampledIsRead
  BY DEF OooInv, IdInv, DataInv, ReportInv
<1>2. /\ answer' = [answer EXCEPT ![x[1]] = visible[x[2]]]
      /\ age' = [age EXCEPT ![x[1]] = 0]
      /\ stage' = stage /\ memory' = memory /\ reads' = reads
  BY DEF Sample
<1>3. /\ \A y \in reads : y[1] \in Slots /\ y[2] \in Addrs
      /\ \A y \in reads : y[1] = x[1] => y = x
  BY <1>1 DEF TypeOK, IdsDiffer
<1>4. /\ \A n \in Slots : n # x[1] => answer'[n] = answer[n] /\ age'[n] = age[n]
      /\ answer'[x[1]] = visible[x[2]] /\ age'[x[1]] = 0
  BY <1>1, <1>2, <1>3 DEF TypeOK
<1>5. SampledIsRead'
  <2> SUFFICES ASSUME NEW n \in Slots, age'[n] >= 0 PROVE \E y \in reads : y[1] = n
    BY <1>2 DEF SampledIsRead, Slots, MAX_DEPTH
  <2> QED  BY <1>1, <1>4 DEF SampledIsRead
<1>6. AnswersAreFollowed'
  <2> SUFFICES ASSUME NEW y \in reads, age'[y[1]] >= 0, answer'[y[1]] # memory[y[2]]
               PROVE  \E i \in Written :
                        Valid(i) /\ stage[i].addr = y[2] /\ i <= WAIT_FOR_WRITE_ACK + age'[y[1]]
    BY <1>2 DEF AnswersAreFollowed, Valid, Written, LAST, WAIT_FOR_WRITE_ACK, WRITE_BACK, STATE_LOAD
  <2>1. CASE y = x
    <3>1. visible[x[2]] # memory[x[2]]
      BY <1>4, <2>1
    <3>2. PICK k \in Sent : Holds(k, x[2])
      BY <1>1, <1>3, <3>1, SeenIsInMemory
    <3>3. k \in Written /\ k <= WAIT_FOR_WRITE_ACK + age'[x[1]]
      BY <1>4, SentFacts, StageNumbers
    <3> QED  BY <2>1, <3>2, <3>3 DEF Holds
  <2>2. CASE y # x
    BY <1>1, <1>3, <1>4, <2>2 DEF AnswersAreFollowed
  <2> QED  BY <2>1, <2>2
<1> QED  BY <1>5, <1>6

\* The invariants are inductive together.
LEMMA NextOooInv ==
    ASSUME HistoryIsEnough, OooInv, IdInv', [Next]_vars
    PROVE  OooInv'
<1>1. CASE Tick
  <2>1. PICK in \in AtMostOne(Addrs), accept \in BOOLEAN, dispatch \in BOOLEAN,
             moving \in SUBSET Active, taken \in AtMostOne(reads) :
             Edge(in, accept, dispatch, moving, taken)
    BY <1>1, TickIsAnEdge DEF OooInv, IdInv
  <2>2. DataInv'
    BY <2>1, EdgeDataInv DEF OooInv
  <2>3. ReportInv'
    BY <2>1, EdgeSentInTurn, EdgeNothingSent DEF OooInv, ReportInv
  <2>4. SeenInv'
    BY <2>1, EdgeSeenInv DEF OooInv
  <2> QED  BY <2>2, <2>3, <2>4 DEF OooInv
<1>2. CASE Reset
  BY <1>2, ResetDataInv, ResetReportInv, EmptySeenInv DEF OooInv
<1>3. CASE UNCHANGED vars
  <2>1. /\ stage' = stage /\ memory' = memory /\ reads' = reads /\ age' = age /\ answer' = answer
        /\ reported' = reported /\ visible' = visible /\ unseen' = unseen
    BY <1>3 DEF vars
  <2>2. DataInv'
    BY <2>1 DEF OooInv, DataInv, YoungestIsInMemory, LoadedIsLatest, LatestIsWrittenBack,
                StaleIsFollowed, Stale, WriteOf, Valid, AnswersAreFollowed, SampledIsRead
  <2>3. ReportInv'
    BY <2>1 DEF OooInv, ReportInv, SentInTurn, NothingSent, Holds, Valid
  <2>4. SeenInv'
    BY <2>1 DEF OooInv, SeenInv, SeenInOrder, YoungestSeen, NothingSeen, Unseen, Holds, Valid
  <2> QED  BY <2>2, <2>3, <2>4 DEF OooInv
<1>4. CASE \E x \in reads : Sample(x)
  <2>1. PICK x \in reads : Sample(x)
    BY <1>4
  <2>2. InMemoryOnly /\ visible' = visible /\ unseen' = unseen
    BY <2>1, MemorySteps DEF OooInv, IdInv
  <2>3. AnswersAreFollowed' /\ SampledIsRead'
    BY <2>1, SampleAnswers
  <2>4. DataInv' /\ ReportInv'
    BY <2>2, <2>3, MemoryKeepsReports, MemoryKeepsStages DEF OooInv
  <2>5. SeenInv'
    BY <2>2 DEF OooInv, InMemoryOnly, SeenInv, SeenInOrder, YoungestSeen, NothingSeen, Unseen, Holds, Valid
  <2> QED  BY <2>4, <2>5 DEF OooInv
<1>5. CASE \E i \in Sent : Show(i)
  <2>1. PICK i \in Sent : Show(i)
    BY <1>5
  <2>2. InMemoryOnly /\ answer' = answer /\ age' = age
    BY <2>1, MemorySteps DEF OooInv, IdInv
  <2>3. AnswersAreFollowed' /\ SampledIsRead'
    BY <2>2 DEF OooInv, DataInv, AnswersAreFollowed, SampledIsRead, InMemoryOnly, Valid
  <2>4. DataInv' /\ ReportInv'
    BY <2>2, <2>3, MemoryKeepsReports, MemoryKeepsStages DEF OooInv
  <2>5. SeenInv'
    BY <2>1, ShowSeenInv DEF OooInv
  <2> QED  BY <2>4, <2>5 DEF OooInv
<1> QED  BY <1>1, <1>2, <1>3, <1>4, <1>5 DEF Next

\* They hold in every reachable state.
LEMMA AlwaysOooInv ==
    ASSUME HistoryIsEnough
    PROVE  Spec => []OooInv
<1>1. Init => OooInv
  BY InitIdInv, InitDataInv, InitReportInv, EmptySeenInv DEF OooInv
<1>2. IdInv' /\ OooInv /\ [Next]_vars => OooInv'
  BY NextOooInv
<1> QED  BY <1>1, <1>2, AlwaysIdInv, PTL DEF Spec

\* `The most up-to-date version of the data is always selected' (outOfOrderCummulativeOp.py):
\* for every depth, number of counters and width, and every memory that lets at most
\* READ_LATENCY writes be acknowledged between the sample of a read and its answer, a
\* history of READ_LATENCY + WRITE_TO_WRITE_ACK_LATENCY + 2 writes is enough.  With a
\* history of one it is not, as the run OutOfOrderCummulativeOpHistory shows.
THEOREM TheLatestIsWrittenBack ==
    ASSUME WRITE_HISTORY_SIZE >= READ_LATENCY + WRITE_TO_WRITE_ACK_LATENCY + 2
    PROVE  Spec => []LatestIsWrittenBack
<1>1. OooInv => LatestIsWrittenBack
  BY DEF OooInv, DataInv
<1>2. HistoryIsEnough
  BY DEF HistoryIsEnough
<1> QED  BY <1>1, <1>2, AlwaysOooInv, PTL

---------------------------------------------------------------------------
(* Counting *)

\* Quotient and remainder.
LEMMA Division ==
    ASSUME NEW x \in Nat
    PROVE  /\ x = (STATE_MOD * (x \div STATE_MOD)) + (x % STATE_MOD)
           /\ x % STATE_MOD \in 0 .. STATE_MOD - 1
           /\ x \div STATE_MOD \in Nat
  BY StateAssumption, SMT

\* A remainder is found by writing the number as a multiple and a rest.
LEMMA Remainder ==
    ASSUME NEW x \in Nat, NEW q \in Nat, NEW r \in 0 .. STATE_MOD - 1, x = STATE_MOD * q + r
    PROVE  x % STATE_MOD = r
  BY StateAssumption, SMT

\* Incrementing a counter that has wrapped is the same as wrapping afterwards.
LEMMA IncrementAfterMod == \A x \in Nat : ((x % STATE_MOD) + 1) % STATE_MOD = (x + 1) % STATE_MOD
<1> TAKE x \in Nat
<1> DEFINE q == x \div STATE_MOD
           r == x % STATE_MOD
<1>1. x = (STATE_MOD * q) + r /\ r \in 0 .. STATE_MOD - 1 /\ q \in Nat
  BY Division
<1> HIDE DEF q, r
<1>2. CASE r < STATE_MOD - 1
  <2>1. x + 1 = (STATE_MOD * q) + (r + 1) /\ r + 1 \in 0 .. STATE_MOD - 1
    BY <1>1, <1>2, StateAssumption, SMT
  <2>2. (x + 1) % STATE_MOD = r + 1
    <3>1. x + 1 \in Nat
      OBVIOUS
    <3> QED  BY <1>1, <2>1, <3>1, Remainder, Zenon
  <2> QED  BY <2>2, <2>1, StateAssumption, <1>1, SMT DEF r
<1>3. CASE r = STATE_MOD - 1
  <2>1. x + 1 = (STATE_MOD * (q + 1)) + 0 /\ q + 1 \in Nat /\ 0 \in 0 .. STATE_MOD - 1 /\ r + 1 = STATE_MOD
    BY <1>1, <1>3, StateAssumption, SMT
  <2>2. (x + 1) % STATE_MOD = 0
    <3>1. x + 1 \in Nat
      OBVIOUS
    <3> QED  BY <2>1, <3>1, Remainder, Zenon
  <2> QED  BY <2>2, <2>1, StateAssumption, <1>1, SMT DEF r
<1> QED  BY <1>1, <1>2, <1>3, StateAssumption, SMT

\* The writes of a counter that are as old as the one in stage i or older.
NotYounger(i, a) == {k \in i .. WAIT_FOR_WRITE_ACK : Holds(k, a)}

\* A sent write is the reported value plus the number of writes up to it.
LEMMA SentCount ==
    ASSUME TypeOK, SentInTurn, NEW a \in Addrs
    PROVE  \A i \in Sent : Holds(i, a) =>
              stage[i].data = (reported[a] + Cardinality(NotYounger(i, a))) % STATE_MOD
<1> DEFINE Right(i) == stage[i].data = (reported[a] + Cardinality(NotYounger(i, a))) % STATE_MOD
           Wrong == {m \in Nat : \E i \in Sent : m = WAIT_FOR_WRITE_ACK - i /\ Holds(i, a) /\ ~Right(i)}
<1>0. WAIT_FOR_WRITE_ACK \in Nat /\ \A i \in Sent : i \in Nat /\ i <= WAIT_FOR_WRITE_ACK
  BY StageNumbers, SentFacts
<1>00. \A i \in Sent : IsFiniteSet(NotYounger(i, a)) /\ Cardinality(NotYounger(i, a)) \in Nat
  <2> TAKE i \in Sent
  <2>1. IsFiniteSet(i .. WAIT_FOR_WRITE_ACK)
    BY <1>0, FS_Interval
  <2>2. IsFiniteSet(NotYounger(i, a))
    BY <2>1, FS_Subset DEF NotYounger
  <2> QED  BY <2>2, FS_CardinalityType
<1>000. reported[a] \in Nat /\ reported[a] \in Vals
  BY StateAssumption DEF TypeOK, Vals
<1>1. SUFFICES ASSUME Wrong # {} PROVE FALSE
  <2>1. Wrong = {}
    BY <1>1
  <2> SUFFICES ASSUME NEW i \in Sent, Holds(i, a), ~Right(i) PROVE FALSE
    OBVIOUS
  <2> HIDE DEF Right
  <2>2. WAIT_FOR_WRITE_ACK - i \in Nat
    BY <1>0
  <2> QED  BY <2>1, <2>2
<1> HIDE DEF Right
<1>2. Wrong \subseteq Nat
  OBVIOUS
<1>3. PICK m \in Wrong : \A y \in Wrong : m <= y
  <2> HIDE DEF Wrong
  <2> QED  BY <1>1, <1>2, MinIsLeast
<1>4. PICK i \in Sent : m = WAIT_FOR_WRITE_ACK - i /\ Holds(i, a) /\ ~Right(i)
  BY <1>3
<1>5. \A k \in Sent : k > i /\ Holds(k, a) => Right(k)
  <2> SUFFICES ASSUME NEW k \in Sent, k > i, Holds(k, a), ~Right(k) PROVE FALSE
    OBVIOUS
  <2>1. WAIT_FOR_WRITE_ACK - k \in Wrong
    BY <1>0
  <2>2. m <= WAIT_FOR_WRITE_ACK - k
    <3> HIDE DEF Wrong
    <3> QED  BY <1>3, <2>1
  <2> QED  BY <1>0, <1>4, <2>2
<1> HIDE DEF Wrong
<1> DEFINE Older == {k \in Sent : k > i /\ Holds(k, a)}
<1>6. Valid(i) /\ stage[i].addr = a
  BY <1>4 DEF Holds
<1>7. CASE Older = {}
  <2>1. stage[i].data = (reported[a] + 1) % STATE_MOD
    BY <1>6, <1>7 DEF SentInTurn
  <2>2. \A k \in i .. WAIT_FOR_WRITE_ACK : k # i => k \in Sent /\ k > i
    BY <1>0, SentFacts, StageNumbers, SMT DEF Sent
  <2>3. i \in i .. WAIT_FOR_WRITE_ACK
    BY <1>0
  <2>4. NotYounger(i, a) = {i}
    BY <1>4, <1>7, <2>2, <2>3 DEF NotYounger
  <2> QED  BY <1>4, <2>1, <2>4, FS_Singleton DEF Right
<1>8. CASE Older # {}
  <2>1. Older \subseteq Nat
    BY <1>0
  <2>2. PICK k \in Older : \A y \in Older : k <= y
    <3> HIDE DEF Older
    <3> QED  BY <1>8, <2>1, MinIsLeast
  <2>3. k \in Sent /\ k > i /\ Holds(k, a) /\ k \in Nat
    BY <1>0, <2>2
  <2>4. \A l \in Sent : l > i /\ l < k => ~Holds(l, a)
    BY <1>0, <2>2, <2>3
  <2>5. stage[i].data = (stage[k].data + 1) % STATE_MOD
    BY <1>6, <2>3, <2>4 DEF SentInTurn
  <2>6. stage[k].data = (reported[a] + Cardinality(NotYounger(k, a))) % STATE_MOD
    BY <1>5, <2>3 DEF Right
  <2>7. NotYounger(i, a) = NotYounger(k, a) \cup {i}
    <3>1. \A l \in i .. WAIT_FOR_WRITE_ACK : Holds(l, a) /\ l # i => l \in k .. WAIT_FOR_WRITE_ACK
      <4> TAKE l \in i .. WAIT_FOR_WRITE_ACK
      <4>1. l # i => l \in Sent /\ l > i
        BY <1>0, SentFacts, StageNumbers, SMT DEF Sent
      <4> QED  BY <1>0, <2>3, <2>4, <4>1
    <3>2. \A l \in k .. WAIT_FOR_WRITE_ACK : l \in i .. WAIT_FOR_WRITE_ACK
      BY <1>0, <2>3
    <3>3. i \in i .. WAIT_FOR_WRITE_ACK
      BY <1>0
    <3> QED  BY <1>4, <3>1, <3>2, <3>3 DEF NotYounger
  <2>8. i \notin NotYounger(k, a)
    BY <1>0, <2>3 DEF NotYounger
  <2>9. Cardinality(NotYounger(i, a)) = Cardinality(NotYounger(k, a)) + 1
    BY <1>00, <2>3, <2>7, <2>8, FS_AddElement
  <2>10. (((reported[a] + Cardinality(NotYounger(k, a))) % STATE_MOD) + 1) % STATE_MOD
          = (reported[a] + Cardinality(NotYounger(k, a)) + 1) % STATE_MOD
    <3>1. reported[a] + Cardinality(NotYounger(k, a)) \in Nat
      BY <1>00, <1>000, <2>3
    <3> QED  BY <3>1, IncrementAfterMod, Zenon
  <2>11. reported[a] + Cardinality(NotYounger(k, a)) + 1 = reported[a] + Cardinality(NotYounger(i, a))
    BY <1>00, <1>000, <2>3, <2>9
  <2> QED  BY <1>4, <2>5, <2>6, <2>10, <2>11, Zenon DEF Right
<1> QED  BY <1>7, <1>8

\* What reads see is ahead of what was reported by writes that have been sent.
LEMMA VisibleIsAhead ==
    ASSUME TypeOK, SentInTurn, SeenInv, NEW a \in Addrs
    PROVE  \E n \in 0 .. OpsIn(Active, a) : visible[a] = (reported[a] + n) % STATE_MOD
<1> DEFINE S == {k \in Sent : Holds(k, a) /\ ~Unseen(k)}
           A == {i \in Active : Valid(i) /\ stage[i].addr = a}
<1>1. IsFiniteSet(A) /\ Cardinality(A) \in Nat /\ OpsIn(Active, a) = Cardinality(A)
  <2>1. IsFiniteSet(Active)
    BY StageNumbers, FS_Interval DEF Active
  <2>2. A \in SUBSET Active
    OBVIOUS
  <2>3. OpsIn(Active, a) = Cardinality(A)
    BY DEF OpsIn
  <2> HIDE DEF A
  <2> QED  BY <2>1, <2>2, <2>3, FS_Subset, FS_CardinalityType
<1>2. CASE S = {}
  <2>1. visible[a] = reported[a]
    BY <1>2 DEF SeenInv, NothingSeen
  <2>2. reported[a] \in 0 .. STATE_MOD - 1
    BY DEF TypeOK, Vals
  <2>3. visible[a] = (reported[a] + 0) % STATE_MOD
    BY <2>1, <2>2, StateAssumption, SMT
  <2>4. 0 \in 0 .. OpsIn(Active, a)
    <3> HIDE DEF A
    <3> QED  BY <1>1
  <2> QED  BY <2>3, <2>4
<1>3. CASE S # {}
  <2>1. S \subseteq Nat
    BY SentFacts
  <2>2. PICK k \in S : \A y \in S : k <= y
    <3> HIDE DEF S
    <3> QED  BY <1>3, <2>1, MinIsLeast
  <2>3. k \in Sent /\ Holds(k, a) /\ ~Unseen(k)
    OBVIOUS
  <2>4. \A i \in Sent : i < k /\ Holds(i, a) => Unseen(i)
    BY <2>2, <2>3, SentFacts
  <2>5. visible[a] = stage[k].data
    BY <2>3, <2>4 DEF SeenInv, YoungestSeen, Holds
  <2>6. visible[a] = (reported[a] + Cardinality(NotYounger(k, a))) % STATE_MOD
    BY <2>3, <2>5, SentCount
  <2>7. Cardinality(NotYounger(k, a)) \in 0 .. OpsIn(Active, a)
    <3>1. \A i \in k .. WAIT_FOR_WRITE_ACK : i \in Active
      BY <2>3, SentFacts, StageNumbers, SMT DEF Active
    <3>2. NotYounger(k, a) \in SUBSET A
      BY <3>1 DEF NotYounger, Holds
    <3> HIDE DEF A
    <3> QED  BY <1>1, <3>2, FS_Subset, FS_CardinalityType
  <2> QED  BY <2>6, <2>7
<1> QED  BY <1>2, <1>3

---------------------------------------------------------------------------
(* The requests that are open, by id *)

\* Id n is that of an operation on counter a in the pipeline, of the request that waits.
InPipeOf(n, a) == \E i \in Active : Valid(i) /\ stage[i].id = n /\ stage[i].addr = a
WaitsFor(n, a) == din_reg = {a} /\ n = read_ptr
OpenIds(a) == {n \in Slots : InPipeOf(n, a) \/ <<n, a>> \in reads \/ WaitsFor(n, a)}

\* The number of open requests is the number of their ids.
LEMMA OpenIsIds ==
    IdInv => \A a \in Addrs : Open[a] = Cardinality(OpenIds(a)) /\ IsFiniteSet(OpenIds(a))
<1> SUFFICES ASSUME IdInv, NEW a \in Addrs
             PROVE  Open[a] = Cardinality(OpenIds(a)) /\ IsFiniteSet(OpenIds(a))
  OBVIOUS
<1> DEFINE inPipe == {i \in Active : Valid(i) /\ stage[i].addr = a}
           inReads == {x \in reads : x[2] = a}
           P == {n \in Slots : InPipeOf(n, a)}
           R == {n \in Slots : <<n, a>> \in reads}
           W == {n \in Slots : WaitsFor(n, a)}
<1>1. TypeOK /\ IdsDiffer
  BY DEF IdInv
<1>2. IsFiniteSet(Slots)
  <2>1. MAX_DEPTH \in Int
    BY DepthAssumption, SMT DEF MAX_DEPTH
  <2> QED  BY <2>1, FS_Interval DEF Slots
<1>3. IsFiniteSet(P) /\ IsFiniteSet(R) /\ IsFiniteSet(W)
  <2>1. P \in SUBSET Slots /\ R \in SUBSET Slots /\ W \in SUBSET Slots
    OBVIOUS
  <2> HIDE DEF P, R, W
  <2> QED  BY <1>2, <2>1, FS_Subset
<1>4. Cardinality(inPipe) = Cardinality(P)
  <2> DEFINE f == [i \in inPipe |-> stage[i].id]
  <2>1. f \in [inPipe -> P]
    <3>1. \A i \in inPipe : stage[i].id \in Slots
      BY <1>1 DEF TypeOK, OpenOp
    <3> QED  BY <3>1 DEF InPipeOf
  <2>2. \A x, y \in inPipe : f[x] = f[y] => x = y
    BY <1>1 DEF IdsDiffer
  <2>3. \A n \in P : \E x \in inPipe : f[x] = n
    BY DEF InPipeOf
  <2> HIDE DEF f, P, inPipe
  <2> QED  BY <1>3, <2>1, <2>2, <2>3, SameSize
<1>5. Cardinality(inReads) = Cardinality(R)
  <2> DEFINE f == [x \in inReads |-> x[1]]
  <2>0. \A x \in inReads : x[1] \in Slots /\ x = <<x[1], a>>
    <3>1. reads \in SUBSET (Slots \X Addrs)
      BY <1>1 DEF TypeOK
    <3> QED  BY <3>1
  <2>1. f \in [inReads -> R]
    BY <2>0
  <2>2. \A x, y \in inReads : f[x] = f[y] => x = y
    BY <1>1 DEF IdsDiffer
  <2>3. \A n \in R : \E x \in inReads : f[x] = n
    <3> TAKE n \in R
    <3>1. <<n, a>> \in inReads
      OBVIOUS
    <3> QED  BY <3>1
  <2> HIDE DEF f, R, inReads
  <2> QED  BY <1>3, <2>1, <2>2, <2>3, SameSize
<1>6. Cardinality(din_reg \cap {a}) = Cardinality(W)
  <2>1. CASE din_reg = {a}
    <3>1. W = {read_ptr}
      BY <1>1, <2>1 DEF TypeOK, WaitsFor
    <3>2. din_reg \cap {a} = {a}
      BY <2>1
    <3> HIDE DEF W
    <3> QED  BY <3>1, <3>2, FS_Singleton
  <2>2. CASE din_reg # {a}
    <3>1. W = {}
      BY <2>2 DEF WaitsFor
    <3>2. din_reg \cap {a} = {}
      BY <1>1, <2>2 DEF TypeOK, AtMostOne
    <3> HIDE DEF W
    <3> QED  BY <3>1, <3>2
  <2> QED  BY <2>1, <2>2
<1>7. P \cap R = {} /\ (P \cup R) \cap W = {}
  <2>1. \A n \in P : InPipe(n)
    BY DEF InPipeOf, InPipe
  <2>2. \A n \in R : InReads(n)
    <3> TAKE n \in R
    <3>1. <<n, a>> \in reads /\ <<n, a>>[1] = n
      OBVIOUS
    <3> QED  BY <3>1 DEF InReads
  <2>3. \A n \in W : n = read_ptr /\ din_reg # {}
    BY DEF WaitsFor
  <2>4. P \subseteq Slots /\ R \subseteq Slots
    OBVIOUS
  <2> HIDE DEF P, R, W
  <2> QED  BY <1>1, <2>1, <2>2, <2>3, <2>4 DEF IdsDiffer
<1>8. OpenIds(a) = P \cup R \cup W
  BY DEF OpenIds
<1>9. /\ IsFiniteSet(P \cup R \cup W)
      /\ Cardinality(P \cup R \cup W) = Cardinality(P) + Cardinality(R) + Cardinality(W)
  <2> HIDE DEF P, R, W
  <2>1. IsFiniteSet(P \cup R) /\ Cardinality(P \cup R) = Cardinality(P) + Cardinality(R) - Cardinality(P \cap R)
    BY <1>3, FS_Union
  <2>2. /\ IsFiniteSet((P \cup R) \cup W)
        /\ Cardinality((P \cup R) \cup W) = Cardinality(P \cup R) + Cardinality(W) - Cardinality((P \cup R) \cap W)
    BY <1>3, <2>1, FS_Union
  <2>3. Cardinality(P \cap R) = 0 /\ Cardinality((P \cup R) \cap W) = 0
    BY <1>7, FS_EmptySet
  <2>4. Cardinality(P) \in Nat /\ Cardinality(R) \in Nat /\ Cardinality(W) \in Nat
    BY <1>3, FS_CardinalityType
  <2> QED  BY <2>1, <2>2, <2>3, <2>4
<1>10. Open[a] = Cardinality(inPipe) + Cardinality(inReads) + Cardinality(din_reg \cap {a})
  BY DEF Open, OpsIn
<1> HIDE DEF P, R, W, inPipe, inReads
<1> QED  BY <1>4, <1>5, <1>6, <1>8, <1>9, <1>10

\* An id is added for the request that is accepted, that of the operation that is
\* reported is removed.
LEMMA OpenIdsAfter ==
    ASSUME IdInv, NEW in \in AtMostOne(Addrs), NEW accept, NEW dispatch, NEW moving, NEW taken,
           Edge(in, accept, dispatch, moving, taken), NEW a \in Addrs
    PROVE  /\ OpenIds(a)' = (OpenIds(a) \ (IF Reports(moving, a) THEN {stage[WAIT_FOR_WRITE_ACK].id} ELSE {}))
                            \cup (IF accept /\ in = {a} THEN {write_ptr} ELSE {})
           /\ Reports(moving, a) => stage[WAIT_FOR_WRITE_ACK].id \in OpenIds(a)
           /\ accept => write_ptr \notin OpenIds(a)
<1>1. /\ TypeOK /\ LeaveInTurn(moving) /\ taken \in AtMostOne(reads)
      /\ taken # {} => ~Valid(0) \/ 0 \in moving
      /\ \A x \in reads : state_array[x[1]] = x[2]
      /\ stage' = NextStage(moving, taken)
      /\ RingEdge(in, accept, dispatch, Returned(moving))
      /\ IdsDiffer
      /\ reads \in SUBSET (Slots \X Addrs)
      /\ reads' = (reads \ taken) \cup (IF dispatch THEN {read_ptr} \X din_reg ELSE {})
  BY DEF Edge, IdInv, AddressesKept, TypeOK
<1>2. WAIT_FOR_WRITE_ACK \in Active /\ 0 \in Active
  BY StageNumbers, SMT DEF Active
<1>3. read_ptr \in Slots /\ write_ptr \in Slots
  BY <1>1 DEF TypeOK
<1>4. WAIT_FOR_WRITE_ACK \in moving => Valid(WAIT_FOR_WRITE_ACK) /\ stage[WAIT_FOR_WRITE_ACK].id \in Slots
  BY <1>1, <1>2 DEF LeaveInTurn, TypeOK, OpenOp
<1>5. ASSUME NEW n \in Slots
      PROVE  InPipeOf(n, a)' <=> \/ InPipeOf(n, a) /\ ~(Reports(moving, a) /\ n = stage[WAIT_FOR_WRITE_ACK].id)
                                 \/ <<n, a>> \in taken
  <2>1. ASSUME InPipeOf(n, a)', <<n, a>> \notin taken
        PROVE  InPipeOf(n, a) /\ ~(Reports(moving, a) /\ n = stage[WAIT_FOR_WRITE_ACK].id)
    <3>1. PICK j \in Active : stage'[j] # Empty /\ stage'[j].id = n /\ stage'[j].addr = a
      BY <2>1 DEF InPipeOf, Valid, Active
    <3>2. ~(j = 0 /\ \E x \in taken : stage'[0].id = x[1] /\ stage'[0].addr = x[2])
      <4>1. \A x \in taken : x = <<x[1], x[2]>>
        BY <1>1 DEF AtMostOne
      <4> QED  BY <2>1, <3>1, <4>1
    <3>3. PICK i \in Active : Valid(i) /\ ~(i = WAIT_FOR_WRITE_ACK /\ i \in moving) /\ SameOp(stage'[j], stage[i])
      BY <1>1, <3>1, <3>2, OpsComeFrom, Zenon
    <3>4. stage[i].id = n /\ stage[i].addr = a
      BY <3>1, <3>3 DEF SameOp
    <3>5. ~(Reports(moving, a) /\ n = stage[WAIT_FOR_WRITE_ACK].id)
      BY <1>1, <1>2, <1>4, <3>3, <3>4 DEF Reports, IdsDiffer
    <3> QED  BY <3>3, <3>4, <3>5 DEF InPipeOf
  <2>2. ASSUME InPipeOf(n, a), ~(Reports(moving, a) /\ n = stage[WAIT_FOR_WRITE_ACK].id)
        PROVE  InPipeOf(n, a)'
    <3>1. PICK i \in Active : Valid(i) /\ stage[i].id = n /\ stage[i].addr = a
      BY <2>2 DEF InPipeOf
    <3>2. ~(i = WAIT_FOR_WRITE_ACK /\ i \in moving)
      BY <2>2, <3>1 DEF Reports
    <3>3. /\ After(moving, i) \in Active
          /\ stage'[After(moving, i)] # Empty
          /\ SameOp(stage'[After(moving, i)], stage[i])
      BY <1>1, <3>1, <3>2, OpsGoTo
    <3> QED  BY <3>1, <3>3 DEF InPipeOf, Valid, SameOp, Active
  <2>3. ASSUME <<n, a>> \in taken PROVE InPipeOf(n, a)'
    <3>1. stage'[0] \in OpenOp /\ stage'[0] = Op(<<n, a>>[1], <<n, a>>[2], answer[<<n, a>>[1]])
      BY <1>1, <2>3, OpsMove, Zenon
    <3>2. stage'[0] # Empty /\ stage'[0].id = n /\ stage'[0].addr = a
      BY <3>1, OpenIsValid DEF Op
    <3> QED  BY <3>2, <1>2 DEF InPipeOf, Valid, Active
  <2> QED  BY <2>1, <2>2, <2>3
<1>6. ASSUME NEW n \in Slots
      PROVE  <<n, a>> \in reads' <=> \/ <<n, a>> \in reads /\ <<n, a>> \notin taken
                                     \/ dispatch /\ WaitsFor(n, a)
  <2>1. din_reg \in AtMostOne(Addrs)
    BY <1>1 DEF TypeOK
  <2>2. <<n, a>> \in {read_ptr} \X din_reg <=> WaitsFor(n, a)
    BY <2>1 DEF WaitsFor, AtMostOne
  <2> QED  BY <1>1, <2>2
<1>7. ASSUME NEW n \in Slots
      PROVE  WaitsFor(n, a)' <=> \/ accept /\ in = {a} /\ n = write_ptr
                                 \/ ~dispatch /\ WaitsFor(n, a)
  <2>1. accept \in BOOLEAN /\ dispatch \in BOOLEAN
    BY <1>1 DEF RingEdge
  <2>2. CASE accept
    <3>1. din_reg' = in /\ read_ptr' = write_ptr
      BY <1>1, <2>2, AcceptedIsFree, Zenon DEF RingEdge
    <3>2. ~(~dispatch /\ WaitsFor(n, a))
      BY <1>1, <2>2, Zenon DEF RingEdge, WaitsFor
    <3> QED  BY <2>2, <3>1, <3>2, Zenon DEF WaitsFor
  <2>3. CASE ~accept /\ dispatch
    <3>1. din_reg' = {}
      BY <1>1, <2>3, Zenon DEF RingEdge
    <3> QED  BY <2>3, <3>1 DEF WaitsFor
  <2>4. CASE ~accept /\ ~dispatch
    <3>1. din_reg' = din_reg /\ read_ptr' = read_ptr
      BY <1>1, <2>4, Zenon DEF RingEdge
    <3> QED  BY <2>4, <3>1, Zenon DEF WaitsFor
  <2> QED  BY <2>1, <2>2, <2>3, <2>4
<1>8. Reports(moving, a) => /\ InPipeOf(stage[WAIT_FOR_WRITE_ACK].id, a)
                              /\ stage[WAIT_FOR_WRITE_ACK].id \in Slots
  BY <1>2, <1>4 DEF Reports, InPipeOf
<1>9. ASSUME NEW n \in Slots, Reports(moving, a), n = stage[WAIT_FOR_WRITE_ACK].id
      PROVE  <<n, a>> \notin reads /\ ~WaitsFor(n, a)
  <2>1. InPipe(n)
    BY <1>8, <1>9 DEF InPipeOf, InPipe
  <2>2. ~InReads(n) /\ ~(din_reg # {} /\ n = read_ptr)
    BY <1>1, <2>1 DEF IdsDiffer
  <2>3. <<n, a>>[1] = n
    OBVIOUS
  <2> QED  BY <2>2, <2>3 DEF InReads, WaitsFor
<1>10. \A n \in Slots : <<n, a>> \in taken => <<n, a>> \in reads
  BY <1>1 DEF AtMostOne
<1>11. ASSUME NEW n \in Slots
       PROVE  n \in OpenIds(a)' <=>
                \/ n \in OpenIds(a) /\ ~(Reports(moving, a) /\ n = stage[WAIT_FOR_WRITE_ACK].id)
                \/ accept /\ in = {a} /\ n = write_ptr
  <2>1. n \in OpenIds(a)' <=> InPipeOf(n, a)' \/ <<n, a>> \in reads' \/ WaitsFor(n, a)'
    BY DEF OpenIds, Slots, MAX_DEPTH
  <2>2. n \in OpenIds(a) <=> InPipeOf(n, a) \/ <<n, a>> \in reads \/ WaitsFor(n, a)
    BY DEF OpenIds
  <2> QED  BY <1>5, <1>6, <1>7, <1>9, <1>10, <2>1, <2>2, Zenon
<1>12. OpenIds(a)' \subseteq Slots /\ OpenIds(a) \subseteq Slots
  BY DEF OpenIds, Slots, MAX_DEPTH
<1>13. Reports(moving, a) => stage[WAIT_FOR_WRITE_ACK].id \in OpenIds(a)
  BY <1>8 DEF OpenIds
<1>14. accept => write_ptr \notin OpenIds(a)
  <2>1. accept => ~InReads(write_ptr) /\ ~InPipe(write_ptr) /\ ~(din_reg # {} /\ write_ptr = read_ptr)
    BY AcceptedIsFree
  <2>2. InPipeOf(write_ptr, a) => InPipe(write_ptr)
    BY DEF InPipeOf, InPipe
  <2>3. <<write_ptr, a>> \in reads => InReads(write_ptr)
    <3>1. <<write_ptr, a>>[1] = write_ptr
      OBVIOUS
    <3> QED  BY <3>1 DEF InReads
  <2>4. WaitsFor(write_ptr, a) => din_reg # {} /\ write_ptr = read_ptr
    BY DEF WaitsFor
  <2> QED  BY <2>1, <2>2, <2>3, <2>4 DEF OpenIds
<1>15. OpenIds(a)' = (OpenIds(a) \ (IF Reports(moving, a) THEN {stage[WAIT_FOR_WRITE_ACK].id} ELSE {}))
                            \cup (IF accept /\ in = {a} THEN {write_ptr} ELSE {})
  BY <1>3, <1>11, <1>12
<1> QED  BY <1>13, <1>14, <1>15

\* The open requests of a counter after an edge.
LEMMA OpenAfter ==
    ASSUME IdInv, IdInv', NEW in \in AtMostOne(Addrs), NEW accept, NEW dispatch, NEW moving, NEW taken,
           Edge(in, accept, dispatch, moving, taken), NEW a \in Addrs,
           Open'[a] = Cardinality(OpenIds(a)')
    PROVE  /\ Open'[a] = Open[a] + (IF accept /\ in = {a} THEN 1 ELSE 0)
                                 - (IF Reports(moving, a) THEN 1 ELSE 0)
           /\ Reports(moving, a) => Open[a] > 0
<1> DEFINE id == stage[WAIT_FOR_WRITE_ACK].id
           left == IF Reports(moving, a) THEN {id} ELSE {}
           new == IF accept /\ in = {a} THEN {write_ptr} ELSE {}
           S == OpenIds(a)
<1>1. Open[a] = Cardinality(S) /\ IsFiniteSet(S)
  BY OpenIsIds
<1>2. /\ OpenIds(a)' = (S \ left) \cup new
      /\ Reports(moving, a) => id \in S
      /\ accept => write_ptr \notin S
  BY OpenIdsAfter
<1> HIDE DEF S, id
<1>3. IsFiniteSet(S \ left) /\ Cardinality(S \ left) = Cardinality(S) - (IF Reports(moving, a) THEN 1 ELSE 0)
  <2>1. CASE Reports(moving, a)
    <3>1. left = {id}
      BY <2>1
    <3>2. IsFiniteSet(S \ {id}) /\ Cardinality(S \ {id}) = Cardinality(S) - 1
      BY <1>1, <1>2, <2>1, FS_RemoveElement, Zenon
    <3> HIDE DEF left
    <3> QED  BY <2>1, <3>1, <3>2
  <2>2. CASE ~Reports(moving, a)
    <3>1. S \ left = S
      BY <2>2
    <3>2. Cardinality(S) \in Nat
      BY <1>1, FS_CardinalityType
    <3> HIDE DEF left
    <3>3. IsFiniteSet(S \ left) /\ Cardinality(S \ left) = Cardinality(S)
      BY <1>1, <3>1, Zenon
    <3> QED  BY <2>2, <3>2, <3>3
  <2> QED  BY <2>1, <2>2
<1>4. Cardinality(S) \in Nat /\ (Reports(moving, a) => Cardinality(S) > 0)
  BY <1>1, <1>2, FS_CardinalityType, FS_EmptySet
<1>5. Cardinality((S \ left) \cup new) = Cardinality(S \ left) + (IF accept /\ in = {a} THEN 1 ELSE 0)
  <2>1. CASE accept /\ in = {a}
    <3>1. write_ptr \notin S \ left /\ new = {write_ptr}
      BY <1>2, <2>1
    <3> HIDE DEF left, new
    <3>2. IsFiniteSet(S \ left)
      BY <1>3
    <3>3. Cardinality((S \ left) \cup {write_ptr}) = Cardinality(S \ left) + 1
      BY <3>1, <3>2, FS_AddElement, Zenon
    <3> QED  BY <2>1, <3>1, <3>3
  <2>2. CASE ~(accept /\ in = {a})
    <3>1. (S \ left) \cup new = S \ left
      BY <2>2
    <3>2. Cardinality(S \ left) \in Nat
      <4> HIDE DEF left
      <4> QED  BY <1>3, FS_CardinalityType
    <3> HIDE DEF left, new
    <3>3. Cardinality((S \ left) \cup new) = Cardinality(S \ left)
      BY <3>1, Zenon
    <3> QED  BY <2>2, <3>2, <3>3
  <2> QED  BY <2>1, <2>2
<1> HIDE DEF left, new
<1> QED  BY <1>1, <1>2, <1>3, <1>4, <1>5

\* The oldest write of a counter that is reported is the reported value plus one.
LEMMA ReportIsNext ==
    ASSUME IdInv, ReportInv, NEW in, NEW accept, NEW dispatch, NEW moving, NEW taken,
           Edge(in, accept, dispatch, moving, taken), NEW a \in Addrs
    PROVE  reported'[a] = IF Reports(moving, a) THEN (reported[a] + 1) % STATE_MOD ELSE reported[a]
<1>1. CASE ~Reports(moving, a)
  BY <1>1, ReportedAfter
<1>2. CASE Reports(moving, a)
  <2>1. Valid(WAIT_FOR_WRITE_ACK) /\ stage[WAIT_FOR_WRITE_ACK].addr = a
    BY <1>2 DEF Edge, Reports, LeaveInTurn
  <2>2. \A k \in Sent : ~(k > WAIT_FOR_WRITE_ACK)
    BY SentFacts, StageNumbers
  <2>3. stage[WAIT_FOR_WRITE_ACK].data = (reported[a] + 1) % STATE_MOD
    BY <2>1, <2>2, SentFacts DEF ReportInv, SentInTurn
  <2> QED  BY <1>2, <2>3, ReportedAfter
<1> QED  BY <1>1, <1>2

\* A clock edge is one step of the abstract counters.
LEMMA EdgeIsAStep ==
    ASSUME IdInv, ReportInv, IdInv', NEW in \in AtMostOne(Addrs), NEW accept, NEW dispatch, NEW moving, NEW taken,
           Edge(in, accept, dispatch, moving, taken),
           \A a \in Addrs : Open'[a] = Cardinality(OpenIds(a)')
    PROVE  array!Next
<1> DEFINE came == IF accept THEN in ELSE {}
           done == {a \in Addrs : Reports(moving, a)}
<1>1. came \in array!NoneOrOne
  BY DEF array!NoneOrOne, AtMostOne
<1>2. done \in array!NoneOrOne
  BY DEF array!NoneOrOne, Reports
<1>3. \A a \in Addrs : (a \in came) <=> (accept /\ in = {a})
  BY DEF AtMostOne
<1>4. \A a \in Addrs : (a \in done) <=> Reports(moving, a)
  OBVIOUS
<1> HIDE DEF came, done
<1>5. \A a \in done : Open[a] > 0
  <2>1. done \subseteq Addrs
    BY DEF done
  <2> QED  BY <1>4, <2>1, OpenAfter
<1>6. reported' = [a \in Addrs |-> IF a \in done THEN (reported[a] + 1) % STATE_MOD ELSE reported[a]]
  <2>1. \A a \in Addrs : reported'[a] = IF a \in done THEN (reported[a] + 1) % STATE_MOD ELSE reported[a]
    BY <1>4, ReportIsNext
  <2>2. reported' = [a \in Addrs |-> reported'[a]]
    BY DEF Edge
  <2> QED  BY <2>1, <2>2, Zenon
<1>7. Open' = [a \in Addrs |-> Open[a] + (IF a \in came THEN 1 ELSE 0) - (IF a \in done THEN 1 ELSE 0)]
  <2>1. \A a \in Addrs : Open'[a] = Open[a] + (IF a \in came THEN 1 ELSE 0) - (IF a \in done THEN 1 ELSE 0)
    <3> TAKE a \in Addrs
    <3>1. Open'[a] = Open[a] + (IF accept /\ in = {a} THEN 1 ELSE 0) - (IF Reports(moving, a) THEN 1 ELSE 0)
      BY OpenAfter
    <3> QED  BY <1>3, <1>4, <3>1
  <2>2. Open' = [a \in Addrs |-> Open'[a]]
    BY Zenon DEF Open
  <2> QED  BY <2>1, <2>2, Zenon
<1>8. array!Step(came, done)
  BY <1>5, <1>6, <1>7 DEF array!Step
<1> QED  BY <1>1, <1>2, <1>8 DEF array!Next

\* In a state without requests no counter has an open one.
LEMMA NothingOpen ==
    ASSUME \A i \in Active : ~Valid(i), reads = {}, din_reg = {}
    PROVE  Open = [a \in Addrs |-> 0]
<1>1. ASSUME NEW a \in Addrs
      PROVE  OpsIn(Active, a) + Cardinality({x \in reads : x[2] = a}) + Cardinality(din_reg \cap {a}) = 0
  <2>1. {i \in Active : Valid(i) /\ stage[i].addr = a} = {} /\ {x \in reads : x[2] = a} = {} /\ din_reg \cap {a} = {}
    OBVIOUS
  <2>2. Cardinality({}) = 0
    BY FS_EmptySet, Zenon
  <2>3. OpsIn(Active, a) = 0
    BY <2>1, <2>2, Zenon DEF OpsIn
  <2> QED  BY <2>1, <2>2, <2>3
<1> QED  BY <1>1, Zenon DEF Open

\* A reset forgets the open requests; reads see some of them carried out.
LEMMA ResetIsAClear ==
    ASSUME IdInv, ReportInv, SeenInv, Reset, Open' = [a \in Addrs |-> 0]
    PROVE  array!Next
<1>1. TypeOK /\ SentInTurn /\ SeenInv
  BY DEF IdInv, ReportInv
<1>2. reported' = visible
  BY DEF Reset
<1>3. visible \in [Addrs -> 0 .. STATE_MOD - 1]
  BY <1>1 DEF TypeOK, Vals
<1>4. ASSUME NEW a \in Addrs
      PROVE  \E n \in 0 .. Open[a] : visible[a] = (reported[a] + n) % STATE_MOD
  <2>1. PICK n \in 0 .. OpsIn(Active, a) : visible[a] = (reported[a] + n) % STATE_MOD
    BY <1>1, VisibleIsAhead
  <2> DEFINE R == {x \in reads : x[2] = a}
             D == din_reg \cap {a}
             P == {i \in Active : Valid(i) /\ stage[i].addr = a}
  <2>2. Cardinality(R) \in Nat
    <3>1. IsFiniteSet(Slots)
      <4>1. MAX_DEPTH \in Int
        BY DepthAssumption, SMT DEF MAX_DEPTH
      <4> QED  BY <4>1, FS_Interval DEF Slots
    <3> DEFINE f == [x \in R |-> x[1]]
               T == {x[1] : x \in R}
    <3>2. f \in [R -> T]
      OBVIOUS
    <3>3. \A x, y \in R : f[x] = f[y] => x = y
      BY DEF IdInv, IdsDiffer
    <3>4. \A n1 \in T : \E x \in R : f[x] = n1
      OBVIOUS
    <3>5. T \in SUBSET Slots
      BY <1>1 DEF TypeOK
    <3> HIDE DEF f, T, R
    <3>6. IsFiniteSet(T)
      BY <3>1, <3>5, FS_Subset
    <3>7. IsFiniteSet(R)
      BY <3>2, <3>3, <3>4, <3>6, SameSize
    <3> QED  BY <3>7, FS_CardinalityType
  <2>3. Cardinality(D) \in Nat
    <3>1. D = {} \/ D = {a}
      OBVIOUS
    <3>2. Cardinality({}) = 0 /\ Cardinality({a}) = 1
      BY FS_EmptySet, FS_Singleton
    <3> HIDE DEF D
    <3> QED  BY <3>1, <3>2
  <2>4. OpsIn(Active, a) \in Nat
    <3>1. IsFiniteSet(Active)
      BY StageNumbers, FS_Interval DEF Active
    <3>2. P \in SUBSET Active /\ OpsIn(Active, a) = Cardinality(P)
      BY DEF OpsIn
    <3> HIDE DEF P
    <3> QED  BY <3>1, <3>2, FS_Subset, FS_CardinalityType
  <2>5. Open[a] = OpsIn(Active, a) + Cardinality(R) + Cardinality(D)
    BY DEF Open
  <2> HIDE DEF R, D
  <2>6. n \in 0 .. Open[a]
    BY <2>2, <2>3, <2>4, <2>5
  <2> QED  BY <2>1, <2>6
<1>5. array!Clear
  BY <1>2, <1>3, <1>4 DEF array!Clear
<1> QED  BY <1>5 DEF array!Next

\* Power-up: no request is open.
LEMMA NothingOpenInitially == Init => Open = [a \in Addrs |-> 0]
<1>1. Active \subseteq Stages
  BY StageNumbers, SMT DEF Active, Stages
<1> QED  BY <1>1, NothingOpen DEF Init, Valid

\* After a reset no request is open.
LEMMA NothingOpenAfterReset == Reset => Open' = [a \in Addrs |-> 0]
<1> SUFFICES ASSUME Reset PROVE Open' = [a \in Addrs |-> 0]
  OBVIOUS
<1>1. Active \subseteq Stages
  BY StageNumbers, SMT DEF Active, Stages
<1>2. \A i \in Active : stage'[i] = Empty
  BY <1>1 DEF Reset
<1>3. ASSUME NEW a \in Addrs
      PROVE  OpsIn(Active, a)' + Cardinality({x \in reads' : x[2] = a}) + Cardinality(din_reg' \cap {a}) = 0
  <2>1. {i \in Active : stage'[i] # Empty /\ stage'[i].addr = a} = {} /\ {x \in reads' : x[2] = a} = {}
        /\ din_reg' \cap {a} = {}
    BY <1>2 DEF Reset
  <2>2. OpsIn(Active, a)' = Cardinality({i \in Active : stage'[i] # Empty /\ stage'[i].addr = a})
    BY DEF OpsIn, Valid, Active, WAIT_FOR_WRITE_ACK, WRITE_BACK, STATE_LOAD
  <2>3. Cardinality({}) = 0
    BY FS_EmptySet
  <2>4. Cardinality({i \in Active : stage'[i] # Empty /\ stage'[i].addr = a}) = 0
        /\ Cardinality({x \in reads' : x[2] = a}) = 0 /\ Cardinality(din_reg' \cap {a}) = 0
    BY <2>1, <2>3, Zenon
  <2>5. OpsIn(Active, a)' = 0
    BY <2>2, <2>4, Zenon
  <2> QED  BY <2>4, <2>5
<1> QED  BY <1>3, Zenon DEF Open

\* For every depth, number of counters and width, every memory that lets at most
\* READ_LATENCY writes be acknowledged between the sample of a read and its answer, and a
\* history of READ_LATENCY + WRITE_TO_WRITE_ACK_LATENCY + 2 writes, the component is an
\* array of counters with atomic increments: none is lost, repeated or reported with a
\* value another one has reported (counterArray.py).
THEOREM ImplementsCounterArray ==
    ASSUME WRITE_HISTORY_SIZE >= READ_LATENCY + WRITE_TO_WRITE_ACK_LATENCY + 2
    PROVE  Spec => CountersSpec
<1>0. HistoryIsEnough
  BY DEF HistoryIsEnough
<1>1. Init => array!Init
  BY NothingOpenInitially, Zenon DEF Init, array!Init
<1>2. IdInv' => (\A a \in Addrs : Open[a] = Cardinality(OpenIds(a)) /\ IsFiniteSet(OpenIds(a)))'
  BY OpenIsIds, PTL
<1>3. OooInv /\ OooInv' /\ [Next]_vars => [array!Next]_(array!vars)
  <2> SUFFICES ASSUME OooInv, IdInv', [Next]_vars
               PROVE  array!Next \/ array!vars' = array!vars
    BY DEF OooInv
  <2>0. IdInv /\ ReportInv /\ SeenInv
    BY DEF OooInv
  <2>1. CASE Tick
    <3>1. \A a \in Addrs : Open'[a] = Cardinality(OpenIds(a)')
      BY <1>2
    <3> QED  BY <2>0, <2>1, <3>1, TickIsAnEdge, EdgeIsAStep DEF IdInv
  <2>2. CASE Reset
    BY <2>0, <2>2, NothingOpenAfterReset, ResetIsAClear
  <2>3. ASSUME reported' = reported, stage' = stage, reads' = reads, din_reg' = din_reg
        PROVE  array!vars' = array!vars
    <3>1. Open' = Open
      BY <2>3 DEF Open, OpsIn, Valid
    <3> QED  BY <2>3, <3>1 DEF array!vars
  <2>4. CASE UNCHANGED vars
    BY <2>3, <2>4 DEF vars
  <2>5. CASE (\E x \in reads : Sample(x)) \/ (\E i \in Sent : Show(i))
    BY <2>0, <2>3, <2>5, MemorySteps DEF IdInv, InMemoryOnly
  <2> QED  BY <2>1, <2>2, <2>4, <2>5 DEF Next
<1> QED  BY <1>0, <1>1, <1>3, AlwaysOooInv, PTL DEF Spec, CountersSpec, array!Spec
===========================================================================
