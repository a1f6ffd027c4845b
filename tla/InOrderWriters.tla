--------------------------- MODULE InOrderWriters ---------------------------
(***************************************************************************)
(* What the write datapump promises to the drivers that share it: the      *)
(* words of every request go to the addresses that follow its first one,   *)
(* in order, in bursts of its own, and the request is acknowledged when    *)
(* the memory answers the last of them.  After an error of the memory      *)
(* nothing more is written; what was written is still acknowledged.        *)
(***************************************************************************)
EXTENDS Integers, Sequences

CONSTANTS Drivers, Requests, NoReq

VARIABLES
    req,      \* [Drivers -> the request at the port of the driver, NoReq for none]
    pending,  \* [Drivers -> Seq(Requests)]: what is still to be written
    answers,  \* Seq([driver, last]): bursts written and not answered by the memory
    written,  \* <<[driver, addr]>>: the word written in the last step, or <<>>
    acked,    \* <<driver>>: who got an acknowledge in the last step, or <<>>
    failed

vars == <<req, pending, answers, written, acked, failed>>

Init ==
    /\ req = [d \in Drivers |-> NoReq]
    /\ pending = [d \in Drivers |-> <<>>]
    /\ answers = <<>>
    /\ written = <<>>
    /\ acked = <<>>
    /\ failed = FALSE

Nothing == written' = <<>> /\ acked' = <<>>

Offer(d) ==
    /\ req[d] = NoReq
    /\ \E q \in Requests : req' = [req EXCEPT ![d] = q]
    /\ Nothing
    /\ UNCHANGED <<pending, answers, failed>>

Accept(d) ==
    /\ ~failed
    /\ req[d] # NoReq
    /\ req' = [req EXCEPT ![d] = NoReq]
    /\ pending' = [pending EXCEPT ![d] = Append(@, req[d])]
    /\ Nothing
    /\ UNCHANGED <<answers, failed>>

\* What is left of the requests q after a word.
Rest(q) ==
    IF Head(q).len = 0 THEN Tail(q)
    ELSE <<[addr |-> Head(q).addr + 1, len |-> Head(q).len - 1]>> \o Tail(q)

Write(d) ==
    /\ ~failed
    /\ pending[d] # <<>>
    /\ written' = <<[driver |-> d, addr |-> Head(pending[d]).addr]>>
    /\ acked' = <<>>
    /\ pending' = [pending EXCEPT ![d] = Rest(@)]
    /\ \E ends \in {TRUE, Head(pending[d]).len = 0} :
          answers' = IF ends
                     THEN Append(answers, [driver |-> d, last |-> Head(pending[d]).len = 0])
                     ELSE answers
    /\ UNCHANGED <<req, failed>>

\* An error may be seen; it ends all writing.
FailOrNot ==
    \/ UNCHANGED <<pending, failed>>
    \/ failed' = TRUE /\ pending' = [d \in Drivers |-> <<>>]

\* The memory answers a burst, possibly with an error.
Answer ==
    /\ answers # <<>>
    /\ answers' = Tail(answers)
    /\ acked' = IF Head(answers).last THEN <<Head(answers).driver>> ELSE <<>>
    /\ written' = <<>>
    /\ UNCHANGED req
    /\ FailOrNot

Quiet ==
    /\ Nothing
    /\ UNCHANGED <<req, answers>>
    /\ FailOrNot

Next == Answer \/ Quiet \/ \E d \in Drivers : Offer(d) \/ Accept(d) \/ Write(d)

Spec == Init /\ [][Next]_vars
===========================================================================
