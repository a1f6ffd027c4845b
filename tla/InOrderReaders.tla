--------------------------- MODULE InOrderReaders ---------------------------
(***************************************************************************)
(* What the read datapump promises to the drivers that share it: every     *)
(* driver gets, for each of its requests in turn, exactly the words it has *)
(* asked for, as one packet.  After an error of the memory nothing more is *)
(* delivered.                                                              *)
(***************************************************************************)
EXTENDS Integers, Sequences

CONSTANTS Drivers, Requests, NoReq

VARIABLES
    req,      \* [Drivers -> the request at the port of the driver, NoReq for none]
    pending,  \* [Drivers -> Seq(Requests)]: what is still to be delivered
    beat,     \* <<[driver, addr, last]>>: the word delivered in the last step, or <<>>
    failed

vars == <<req, pending, beat, failed>>

Init ==
    /\ req = [d \in Drivers |-> NoReq]
    /\ pending = [d \in Drivers |-> <<>>]
    /\ beat = <<>>
    /\ failed = FALSE

Offer(d) ==
    /\ req[d] = NoReq
    /\ \E q \in Requests : req' = [req EXCEPT ![d] = q]
    /\ beat' = <<>>
    /\ UNCHANGED <<pending, failed>>

Accept(d) ==
    /\ ~failed
    /\ req[d] # NoReq
    /\ req' = [req EXCEPT ![d] = NoReq]
    /\ pending' = [pending EXCEPT ![d] = Append(@, req[d])]
    /\ beat' = <<>>
    /\ UNCHANGED failed

\* The word of a request that is delivered next, and what is left of the request.
Word(d) ==
    LET q == Head(pending[d])
    IN  [driver |-> d, addr |-> q.addr, last |-> q.len = 0]

Rest(d) ==
    LET q == Head(pending[d])
    IN  IF q.len = 0 THEN Tail(pending[d])
        ELSE <<[addr |-> q.addr + 1, len |-> q.len - 1]>> \o Tail(pending[d])

Deliver(d) ==
    /\ ~failed
    /\ pending[d] # <<>>
    /\ beat' = <<Word(d)>>
    /\ \/ pending' = [pending EXCEPT ![d] = Rest(d)] /\ failed' = FALSE
       \* the word that comes with the error is still delivered
       \/ pending' = [x \in Drivers |-> <<>>] /\ failed' = TRUE
    /\ UNCHANGED req

Fail ==
    /\ failed' = TRUE
    /\ beat' = <<>>
    /\ pending' = [d \in Drivers |-> <<>>]
    /\ UNCHANGED req

Quiet ==
    /\ beat' = <<>>
    /\ UNCHANGED <<req, pending, failed>>

Next == Fail \/ Quiet \/ \E d \in Drivers : Offer(d) \/ Accept(d) \/ Deliver(d)

Spec == Init /\ [][Next]_vars
===========================================================================
