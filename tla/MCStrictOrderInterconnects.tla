--------------------- MODULE MCStrictOrderInterconnects ---------------------
(* The read and the write interconnect with their datapumps, for TLC.  Both are built  *)
(* on AxiDatapumpBase, whose registers they share: a behaviour is one of either.       *)
EXTENDS RStrictOrderInterconnect, WStrictOrderInterconnect

CONSTANT Directions    \* subset of {"read", "write"}

vars == <<requestVars, rVars, wVars>>

Init ==
    /\ RequestInit(Directions)
    /\ RInit
    /\ WInit

Next ==
    \/ RNext /\ UNCHANGED wVars
    \/ WNext /\ UNCHANGED rVars

Reads(A) == direction = "read" /\ A /\ UNCHANGED wVars
Writes(A) == direction = "write" /\ A /\ UNCHANGED rVars

\* The memory takes addresses and answers, and the drivers go on with their words.  Nothing
\* is assumed of whose request is selected.
FairSpec ==
    /\ Init /\ [][Next]_vars
    /\ WF_vars(Reads(Beat(FALSE)))
    /\ WF_vars(Writes(Response(FALSE)))
    /\ WF_vars(\E d \in Drivers : Reads(RDispatch(d)) \/ Writes(WDispatch(d)))
    /\ \A d \in Drivers : WF_vars(Writes(Word(d)))

---------------------------------------------------------------------------
\* With AXI_LEN_MAX = 1: two words just fit in a burst, five are split into three.
OneBurstOrThree == {[addr |-> 0, len |-> 1], [addr |-> 2, len |-> 4]}

\* Three bursts only.
ThreeBursts == {[addr |-> 0, len |-> 4]}

Both == {"read", "write"}
ReadOnly == {"read"}

---------------------------------------------------------------------------
(* Properties *)

\* The fifos of the order and of the bursts, which are filled and emptied by different
\* handshakes, and what the memory has to do stay in step, in both directions.
FifosInStep == ReadFifosInStep /\ WriteFifosInStep

Failed == errorRead \/ wErrFlag

\* A request is taken: its driver may make another one.
Taken == \E d \in Drivers : req[d] # NoReq /\ req'[d] = NoReq

\* The fifos, of which several are at their limit or empty at the same time, and the nodes
\* that join them never wait for one another: unless the memory answers with an error, a
\* driver waits for ever only if others are served again and again, and whoever was served
\* gets the last word of its packet, or the acknowledge of what it wrote.
RequestsAreServed ==
    \A d \in Drivers :
        /\ []<>(req[d] = NoReq \/ Failed) \/ []<><<Taken>>_vars
        /\ d \in Range(orderInfoFifo) ~>
              Failed \/ (beat # <<>> /\ beat[1].driver = d /\ beat[1].last)
        /\ sending[d] # <<>> ~> acked = <<d>> \/ Failed
===========================================================================
