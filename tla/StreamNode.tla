---------------------------- MODULE StreamNode ----------------------------
(***************************************************************************)
(* hwtLib.handshaked.streamNode.StreamNode: the logic that makes several   *)
(* ready/valid interfaces transfer together.  A node is a function from    *)
(* its interfaces to ports.  A master and a slave have the same equations: *)
(* `up' is the valid of a master, the ready of a slave, and the node       *)
(* answers with ready or valid.  handshaked.joinFair.HsJoinFairShare       *)
(* chooses among the inputs of a node that joins streams.                  *)
(***************************************************************************)
EXTENDS Integers

\* extra is the extraConds of the interface, skip its skipWhen.
Port(up, extra, skip) == [up |-> up, extra |-> extra, skip |-> skip]
PlainPort(up) == Port(up, TRUE, FALSE)

\* vld, rd: the others do not have to wait for interface i.
InTheWay(node, i) == ~node[i].up /\ ~node[i].skip

\* ackForMaster, ackForSlave: the ready or valid the node gives to i.
Answer(node, i) ==
    /\ \A j \in DOMAIN node \ {i} : ~InTheWay(node, j)
    /\ node[i].extra
    /\ ~node[i].skip

\* The interfaces on which a transfer takes place, en is the enSig of sync.
Transfers(node, en) == {i \in DOMAIN node : en /\ node[i].up /\ Answer(node, i)}

\* ack
Ack(node) == \A i \in DOMAIN node : (node[i].up /\ node[i].extra) \/ node[i].skip

---------------------------------------------------------------------------
(* HsJoinFairShare: which of the inputs that are valid is connected to the output.  The   *)
(* priority register rotates at every clock, whether or not a word was taken.             *)

\* priorityAck: the input with the priority wins, otherwise the first valid one.
PriorityAck(priority, vlds, i) ==
    \/ priority = i
    \/ priority \notin {j \in vlds : j > i} /\ ~ \E j \in vlds : j < i

IsSelected(priority, vlds, i) == i \in vlds /\ PriorityAck(priority, vlds, i)

===========================================================================
