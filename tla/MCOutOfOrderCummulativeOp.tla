--------------------- MODULE MCOutOfOrderCummulativeOp ---------------------
(* Instances of OutOfOrderCummulativeOp for TLC.                           *)
EXTENDS OutOfOrderCummulativeOp, TLC

\* The counters behave alike.
Symmetry == Permutations(Addrs)

\* Of the four ids two are in use at a time.
MAX_OPEN == 2
FewOpen == Cardinality({n \in Slots : item_valid[n]}) <= MAX_OPEN

---------------------------------------------------------------------------
(* A memory that answers reads in order and at once, shows a write before anything     *)
(* else happens and acknowledges it then; only the moment of an answer and of the      *)
(* readiness for a write vary.                                                         *)

Age(id) == (read_ptr - id - 1) % DEPTH
Oldest(x) == \A y \in reads : Age(y[1]) <= Age(x[1])

InOrderNext ==
    \/ \E i \in Sent : Show(i)
    \/ unseen = {} /\ \E x \in reads : Oldest(x) /\ Sample(x)
    \/ /\ unseen = {}
       /\ \E in \in {{a} : a \in Addrs}, w_ready \in BOOLEAN, r \in AtMostOne(Sampled) :
             Cycle(in, TRUE, r, w_ready, MayAcknowledge)

InOrderSpec == Init /\ [][InOrderNext]_vars
===========================================================================
