------------------------- MODULE SpeculativeQueue -------------------------
(***************************************************************************)
(* What a FIFO with commit and discard promises: words accepted at the     *)
(* input wait in the stash until one of them is accepted with commit; then *)
(* the whole stash, in order, joins the queue the consumer is served from. *)
(* A discard empties the stash, the word accepted with it included, and    *)
(* takes nothing from the queue.  The ports are visible: in_xfer is        *)
(* <<word, commit>> or <<>>, out_xfer is <<word>> or <<>>, discarded tells *)
(* whether discard was asserted, all of them in the last step.             *)
(***************************************************************************)
EXTENDS Naturals, Sequences

CONSTANTS Data, CAPACITY

VARIABLES q, stash, in_xfer, out_xfer, discarded

vars == <<q, stash, in_xfer, out_xfer, discarded>>

NoTransfer == <<>>
InTransfers == {NoTransfer} \cup (Data \X BOOLEAN)

Init ==
    /\ q = <<>>
    /\ stash = <<>>
    /\ in_xfer = NoTransfer
    /\ out_xfer = NoTransfer
    /\ discarded = FALSE

\* What is left of the queue once `out' has been handed over.
Served(out) == IF out = NoTransfer THEN q ELSE Tail(q)

\* The stash with the accepted word at its end.
Stashed(in) == IF in = NoTransfer THEN stash ELSE Append(stash, in[1])

Commits(in) == in # NoTransfer /\ in[2]

Step(in, out, discard) ==
    /\ in # NoTransfer => Len(q) + Len(stash) < CAPACITY
    /\ out # NoTransfer => q # <<>> /\ out = <<Head(q)>>
    /\ in_xfer' = in
    /\ out_xfer' = out
    /\ discarded' = discard
    /\ q' = IF ~discard /\ Commits(in) THEN Served(out) \o Stashed(in) ELSE Served(out)
    /\ stash' = IF discard \/ Commits(in) THEN <<>> ELSE Stashed(in)

Clear ==
    /\ q' = <<>>
    /\ stash' = <<>>
    /\ in_xfer' = NoTransfer
    /\ out_xfer' = NoTransfer
    /\ discarded' = FALSE

Next ==
    \/ \E in \in InTransfers, discard \in BOOLEAN :
          \E out \in {NoTransfer} \cup {<<d>> : d \in Data} : Step(in, out, discard)
    \/ Clear

Spec == Init /\ [][Next]_vars
===========================================================================
