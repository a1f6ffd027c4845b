--------------------------- MODULE CounterArray ---------------------------
(***************************************************************************)
(* What an out of order array of counters promises: requests to increment  *)
(* a counter are accepted at any time and completed in any order, and each *)
(* completion is one atomic increment that reports the new value.          *)
(***************************************************************************)
EXTENDS Integers

CONSTANTS Addrs, STATE_MOD

VARIABLES counter,   \* [Addrs -> value reported by the last completed increment]
          open       \* [Addrs -> requests accepted and not completed]

vars == <<counter, open>>

Init ==
    /\ counter = [a \in Addrs |-> 0]
    /\ open = [a \in Addrs |-> 0]

\* In one step a request may be accepted and another one completed.
Step(in, done) ==
    /\ \A a \in done : open[a] > 0
    /\ counter' = [a \in Addrs |->
                      IF a \in done THEN (counter[a] + 1) % STATE_MOD ELSE counter[a]]
    /\ open' = [a \in Addrs |-> open[a] + (IF a \in in THEN 1 ELSE 0)
                                        - (IF a \in done THEN 1 ELSE 0)]

\* A reset forgets the open requests; some of them may have been carried out.
Clear ==
    /\ counter' \in [Addrs -> 0 .. STATE_MOD - 1]
    /\ \A a \in Addrs : \E n \in 0 .. open[a] : counter'[a] = (counter[a] + n) % STATE_MOD
    /\ open' = [a \in Addrs |-> 0]

NoneOrOne == {{}} \cup {{a} : a \in Addrs}

Next == Clear \/ \E in, done \in NoneOrOne : Step(in, done)

Spec == Init /\ [][Next]_vars
===========================================================================
