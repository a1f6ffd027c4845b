--------------------------- MODULE OrderedStream ---------------------------
(***************************************************************************)
(* What a stage of a stream promises, whatever it does to the width, the   *)
(* timing or the clock of the words: the items that leave it are the items *)
(* that entered it, in their order, none lost, none twice, and at most     *)
(* `capacity' of them are inside.  in_xfer and out_xfer are the sequences  *)
(* of items that crossed the two ports in the last step: a wide word is    *)
(* several items.                                                          *)
(***************************************************************************)
EXTENDS Naturals, Sequences

VARIABLES q, in_xfer, out_xfer,
          was_reset, \* the last step was a reset
          capacity,  \* of this stage
          preset     \* the items that are inside after a reset

vars == <<q, in_xfer, out_xfer, was_reset, capacity, preset>>

Init ==
    /\ q = preset
    /\ in_xfer = <<>>
    /\ out_xfer = <<>>

\* What was inside, followed by what came in, is what went out, followed by what is inside.
Move ==
    /\ ~was_reset'
    /\ q \o in_xfer' = out_xfer' \o q'
    /\ Len(q') <= capacity

Clear ==
    /\ was_reset'
    /\ q' = preset
    /\ in_xfer' = <<>>
    /\ out_xfer' = <<>>

Next == (Move \/ Clear) /\ UNCHANGED <<capacity, preset>>

Spec == Init /\ [][Next]_vars
===========================================================================
