---------------------------- MODULE AxiCrossbar ----------------------------
(***************************************************************************)
(* hwtLib.amba.axi_comp.interconnect: AxiInterconnectMatrix and the        *)
(* crossbars AxiInterconnectMatrixR and AxiInterconnectMatrixW it is       *)
(* divided into, with AW_AND_W_WORD_TOGETHER for slaves that take an       *)
(* address only together with its first word.  An action is one transfer:  *)
(* a request enters the register of its master, is dispatched to its       *)
(* slave, a word or an answer passes a data crossbar.  A request is known  *)
(* by its master and its slave.                                            *)
(*                                                                         *)
(* The masters and slaves around the crossbar are part of the module: they *)
(* record what was asked and in which order it was taken.                  *)
(***************************************************************************)
EXTENDS StreamNode, Sequences, FiniteSets

CONSTANTS
    Masters, Slaves,       \* their indexes, numbered from 0
    Accesses,              \* the settings of MASTERS to choose from
    MAX_TRANS_OVERLAP,     \* the room of an order fifo
    SLAVE_QUEUE            \* bound: the requests a slave takes before it answers

ASSUME CrossbarAssumption ==
    /\ IsFiniteSet(Masters) /\ IsFiniteSet(Slaves) /\ Slaves \subseteq Nat
    /\ Accesses \subseteq [Masters -> SUBSET Slaves]

VARIABLES
    MASTERS,               \* the slaves each master has access to
    writes,                \* the write channels, otherwise the read channels
    addr_reg,              \* the registers behind the address ports of the masters
    aw_reg,                \* the registers in front of the aw ports of the slaves
    w_reg,                 \* the registers behind the w ports of the masters
    order_m_index_for_s,   \* fifos of masters, for each channel and slave
    order_s_index_for_m,   \* fifos of slaves, for each channel and master
    \* the environment
    asked,                 \* requests of a master without (complete) answer
    to_send,               \* requests of a master whose data are not all sent
    taken,                 \* the request a slave took with incomplete data
    to_answer,             \* requests a slave has to answer
    mid                    \* the (input, output) in the middle of a packet, for each channel

routeVars == <<MASTERS, writes, order_m_index_for_s, order_s_index_for_m>>
crossVars == <<routeVars, addr_reg, aw_reg, w_reg, asked, to_send, taken, to_answer, mid>>

---------------------------------------------------------------------------
(* The division into groups that share no slave *)

MastersFor(access, s) == {m \in Masters : s \in access[m]}

\* _extract_separable_group: all masters and slaves that are reached from m.
SeparableGroup(access, m) ==
    LET reached[n \in 0 .. Cardinality(Masters)] ==
            IF n = 0 THEN {m}
            ELSE reached[n - 1]
                 \cup UNION {MastersFor(access, s) : s \in UNION {access[k] : k \in reached[n - 1]}}
        ms == reached[Cardinality(Masters)]
    IN  [masters |-> ms, slaves |-> UNION {access[k] : k \in ms}]

\* _extract_separable_groups
SeparableGroups(access) == {SeparableGroup(access, m) : m \in Masters}

\* configure_sub_interconnect: the port of slave s at the crossbar of its group; the
\* indexes are left as they are when they have no gaps.
SubIndex(group, s) ==
    IF \A k \in group.slaves : k < Cardinality(group.slaves) THEN s
    ELSE Cardinality({k \in group.slaves : k < s})

\* The slave at the other end of the port that the address of slave s selects, which is
\* the position of s in sub_interconnect.SLAVES.
Routes == [access \in Accesses |-> [m \in Masters |->
    LET group == SeparableGroup(access, m)
    IN  [s \in access[m] |-> CHOOSE t \in group.slaves :
            SubIndex(group, t) = Cardinality({k \in group.slaves : k < s})]]]

RouteOf(m, s) == Routes[MASTERS][m][s]

---------------------------------------------------------------------------
(* The order of the requests *)

Channels == IF writes THEN {"w", "b"} ELSE {"r"}

\* There is a fifo only where there is a choice.
OrdersMasters(s) == Cardinality(MastersFor(MASTERS, s)) > 1
OrdersSlaves(m) == Cardinality(MASTERS[m]) > 1

RoomForMaster(s) ==
    OrdersMasters(s) => \A c \in Channels : Len(order_m_index_for_s[c][s]) < MAX_TRANS_OVERLAP
RoomForSlave(m) ==
    OrdersSlaves(m) => \A c \in Channels : Len(order_s_index_for_m[c][m]) < MAX_TRANS_OVERLAP

Pushed(fifos, i, x) == [c \in DOMAIN fifos |->
    IF c \in Channels THEN [fifos[c] EXCEPT ![i] = Append(@, x)] ELSE fifos[c]]

\* The masters that ask for slave s and have room to remember it (master_vld_slave).
Asking(s) == {m \in MastersFor(MASTERS, s) :
                  addr_reg[m] # <<>> /\ RouteOf(m, addr_reg[m][1]) = s /\ RoomForSlave(m)}

SlaveReady(s) == IF writes THEN aw_reg[s] = <<>> ELSE Len(to_answer[s]) < SLAVE_QUEUE

\* A request of m enters the register of its port.
Ask(m, s) ==
    /\ s \in MASTERS[m] /\ addr_reg[m] = <<>>
    /\ Len(asked[m]) < SLAVE_QUEUE
    /\ addr_reg' = [addr_reg EXCEPT ![m] = <<s>>]
    /\ asked' = [asked EXCEPT ![m] = Append(@, s)]
    /\ to_send' = IF writes THEN [to_send EXCEPT ![m] = Append(@, s)] ELSE to_send
    /\ UNCHANGED <<routeVars, aw_reg, w_reg, taken, to_answer, mid>>

\* addr_handler_N_to_M: master m wins slave s; both remember the other one.
Dispatch(m, s) ==
    /\ \E priority \in Masters : IsSelected(priority, Asking(s), m)
    /\ SlaveReady(s) /\ RoomForMaster(s)
    /\ addr_reg' = [addr_reg EXCEPT ![m] = <<>>]
    /\ order_m_index_for_s' =
         IF OrdersMasters(s) THEN Pushed(order_m_index_for_s, s, m) ELSE order_m_index_for_s
    /\ order_s_index_for_m' =
         IF OrdersSlaves(m) THEN Pushed(order_s_index_for_m, m, addr_reg[m][1])
         ELSE order_s_index_for_m
    /\ aw_reg' = IF writes THEN [aw_reg EXCEPT ![s] = <<m>>] ELSE aw_reg
    /\ to_answer' = IF writes THEN to_answer ELSE [to_answer EXCEPT ![s] = Append(@, m)]
    /\ UNCHANGED <<MASTERS, writes, w_reg, asked, to_send, taken, mid>>

---------------------------------------------------------------------------
(* The data crossbars: a word passes when the input and the output are at the head of    *)
(* each other's fifo, where they have one.                                               *)

FromSlave_OneSide(c, s, m) ==
    /\ s \in MASTERS[m]
    /\ OrdersMasters(s) => order_m_index_for_s[c][s] # <<>> /\ Head(order_m_index_for_s[c][s]) = m

FromSlave(c, s, m) ==
    /\ s \in MASTERS[m]
    /\ OrdersMasters(s) => order_m_index_for_s[c][s] # <<>> /\ Head(order_m_index_for_s[c][s]) = m
    /\ OrdersSlaves(m) => order_s_index_for_m[c][m] # <<>> /\ Head(order_s_index_for_m[c][m]) = s

Popped(fifos, c, i) == [d \in DOMAIN fifos |->
    IF d = c THEN [fifos[d] EXCEPT ![i] = Tail(@)] ELSE fifos[d]]

\* Both fifos move on with the last word.
PopOrders(c, s, m) ==
    /\ order_m_index_for_s' =
         IF OrdersMasters(s) THEN Popped(order_m_index_for_s, c, s) ELSE order_m_index_for_s
    /\ order_s_index_for_m' =
         IF OrdersSlaves(m) THEN Popped(order_s_index_for_m, c, m) ELSE order_s_index_for_m

PassWord(c, s, m, last) ==
    /\ FromSlave(c, s, m)
    /\ IF last THEN PopOrders(c, s, m) ELSE UNCHANGED <<order_m_index_for_s, order_s_index_for_m>>
    /\ mid' = [mid EXCEPT ![c] = IF last THEN @ \ {<<s, m>>} ELSE @ \cup {<<s, m>>}]
    /\ UNCHANGED <<MASTERS, writes, addr_reg>>

\* Slave s answers its oldest request: a word of read data or a write response.  A
\* packet has at most two words.
AnswerFrom(s, m, last) ==
    LET c == IF writes THEN "b" ELSE "r" IN
    /\ to_answer[s] # <<>>
    /\ ~last => c = "r" /\ <<s, m>> \notin mid[c]
    /\ PassWord(c, s, m, last)
    /\ asked' = IF last THEN [asked EXCEPT ![m] = Tail(@)] ELSE asked
    /\ to_answer' = IF last THEN [to_answer EXCEPT ![s] = Tail(@)] ELSE to_answer
    /\ UNCHANGED <<aw_reg, w_reg, to_send, taken>>

\* A master sends a word of its oldest request that is incomplete.
SendWord(m, last) ==
    /\ writes /\ to_send[m] # <<>> /\ w_reg[m] = <<>>
    /\ ~last => \A s \in Slaves : <<s, m>> \notin mid["w"]
    /\ w_reg' = [w_reg EXCEPT ![m] = <<last>>]
    /\ to_send' = IF last THEN [to_send EXCEPT ![m] = Tail(@)] ELSE to_send
    /\ UNCHANGED <<routeVars, addr_reg, aw_reg, asked, taken, to_answer, mid>>

\* Slave s takes a word, and the address of the request with the first one.
TakeWord(s, m) ==
    LET first == taken[s] = <<>>
        due   == IF first THEN aw_reg[s] ELSE taken[s]
        last  == w_reg[m][1]
    IN
    /\ writes /\ w_reg[m] # <<>> /\ due # <<>>
    /\ first => Len(to_answer[s]) < SLAVE_QUEUE
    /\ PassWord("w", s, m, last)
    /\ w_reg' = [w_reg EXCEPT ![m] = <<>>]
    /\ aw_reg' = IF first THEN [aw_reg EXCEPT ![s] = <<>>] ELSE aw_reg
    /\ taken' = [taken EXCEPT ![s] = IF last THEN Tail(due) ELSE due]
    /\ to_answer' = IF last THEN [to_answer EXCEPT ![s] = Append(@, Head(due))] ELSE to_answer
    /\ UNCHANGED <<asked, to_send>>

---------------------------------------------------------------------------

CrossInit ==
    /\ MASTERS \in Accesses /\ writes \in BOOLEAN
    /\ addr_reg = [m \in Masters |-> <<>>] /\ w_reg = addr_reg
    /\ asked = addr_reg /\ to_send = addr_reg
    /\ aw_reg = [s \in Slaves |-> <<>>] /\ taken = aw_reg /\ to_answer = aw_reg
    /\ order_m_index_for_s = [c \in {"r", "w", "b"} |-> aw_reg]
    /\ order_s_index_for_m = [c \in {"r", "w", "b"} |-> addr_reg]
    /\ mid = [c \in {"r", "w", "b"} |-> {}]

CrossSlave(s) ==
    \E m \in Masters : TakeWord(s, m) \/ \E last \in BOOLEAN : AnswerFrom(s, m, last)

CrossNext ==
    \/ \E m \in Masters, s \in Slaves : Ask(m, s) \/ Dispatch(m, s)
    \/ \E m \in Masters, last \in BOOLEAN : SendWord(m, last)
    \/ \E s \in Slaves : CrossSlave(s)

---------------------------------------------------------------------------
(* Properties *)

\* A request arrives at the slave it is addressed to, and the groups are disjoint.
RoutedToItsSlave ==
    /\ \A m \in Masters : \A s \in MASTERS[m] : RouteOf(m, s) = s
    /\ \A g, h \in SeparableGroups(MASTERS) : g # h => g.slaves \cap h.slaves = {}

\* Whatever can pass a data crossbar is the word of the oldest request of its slave, on
\* its way from or to the oldest request of its master, and no packet is mixed with another.
WordsMeetTheirRequest ==
    \A s \in Slaves, m \in Masters :
        /\ to_answer[s] # <<>> /\ FromSlave(IF writes THEN "b" ELSE "r", s, m) =>
               Head(to_answer[s]) = m /\ Head(asked[m]) = s
        /\ writes /\ w_reg[m] # <<>> /\ aw_reg[s] \o taken[s] # <<>> /\ FromSlave("w", s, m) =>
               Head(taken[s] \o aw_reg[s]) = m
        /\ \A c \in Channels : \A p \in mid[c] :
               p # <<s, m>> /\ (p[1] = s \/ p[2] = m) => ~FromSlave(c, s, m)
===========================================================================
