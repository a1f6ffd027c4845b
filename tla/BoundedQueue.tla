--------------------------- MODULE BoundedQueue ---------------------------
(***************************************************************************)
(* What every FIFO of the library promises to the two components it sits   *)
(* between: the words handed over at the output are the words accepted at  *)
(* the input, in order, none lost, none twice, and never more than         *)
(* CAPACITY of them inside.  in_xfer and out_xfer are the words that       *)
(* crossed the two ports in the last step, <<>> when none did.             *)
(***************************************************************************)
EXTENDS Naturals, Sequences

CONSTANTS Data, CAPACITY, InitialWords

VARIABLES q, in_xfer, out_xfer

vars == <<q, in_xfer, out_xfer>>

Init ==
    /\ q = InitialWords
    /\ in_xfer = <<>>
    /\ out_xfer = <<>>

\* Nothing crosses a port.
Idle ==
    /\ in_xfer' = <<>>
    /\ out_xfer' = <<>>
    /\ UNCHANGED q

Enqueue(d) ==
    /\ Len(q) < CAPACITY
    /\ in_xfer' = <<d>>
    /\ out_xfer' = <<>>
    /\ q' = Append(q, d)

Dequeue ==
    /\ q # <<>>
    /\ in_xfer' = <<>>
    /\ out_xfer' = <<Head(q)>>
    /\ q' = Tail(q)

\* Both ports in the same step.
Pass(d) ==
    /\ q # <<>>
    /\ in_xfer' = <<d>>
    /\ out_xfer' = <<Head(q)>>
    /\ q' = Append(Tail(q), d)

\* A reset drops what is stored.
Clear ==
    /\ q' = <<>>
    /\ in_xfer' = <<>>
    /\ out_xfer' = <<>>

Next ==
    \/ Idle
    \/ \E d \in Data : Enqueue(d) \/ Pass(d)
    \/ Dequeue
    \/ Clear

Spec == Init /\ [][Next]_vars
===========================================================================
