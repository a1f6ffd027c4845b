--------------------------- MODULE HandshakedReg ---------------------------
(***************************************************************************)
(* hwtLib.handshaked.reg.HandshakedReg: registers on a ready/valid stream, *)
(* one after the other.  Each is of one of three kinds: "latency" passes   *)
(* the ready of its consumer to its producer, "delay" accepts a word only  *)
(* while it is empty, "break" (LATENCY = (1, 2)) has a second register for *)
(* the word that arrives before the producer has seen that the consumer    *)
(* stopped, so that no ready or valid is connected through it.             *)
(***************************************************************************)
EXTENDS Naturals, Sequences

CONSTANTS Data, Undef,
          Pipes   \* the sequences of kinds to choose from

VARIABLES kinds,     \* the kind of each register
          regs,      \* the registers, the first is at dataIn
          init_data, \* INIT_DATA: one word for each register, or none
          in_xfer, out_xfer

regVars == <<kinds, regs, init_data>>

N == Len(kinds)

\* What a register of a kind holds after a reset, word = <<>> without initial data.
PowerUp(word) ==
    [occupied |-> <<word # <<>>, FALSE>>, reader_prio |-> 0,
     data |-> <<IF word = <<>> THEN Undef ELSE word[1], Undef>>]

AfterReset == [i \in 1 .. N |-> PowerUp(IF init_data = <<>> THEN <<>> ELSE <<init_data[i]>>)]

RegInit ==
    /\ kinds \in Pipes
    /\ init_data \in {<<>>} \cup [1 .. N -> Data]
    /\ regs = AfterReset

---------------------------------------------------------------------------
(* One register, r. *)

\* _implReadyChainBreak: which of the two registers is read.
Consume0(r) == (r.reader_prio = 0 /\ r.occupied[1]) \/ ~r.occupied[2]
Consume1(r) == (r.reader_prio = 1 /\ r.occupied[2]) \/ ~r.occupied[1]

OutVld(r) == r.occupied[1] \/ r.occupied[2]

OutWord(r) == IF Consume0(r) /\ r.occupied[1] THEN r.data[1] ELSE r.data[2]

\* Ready towards the producer, when the consumer's ready is rd.
InRd(kind, r, rd) ==
    CASE kind = "latency" -> r.occupied[1] => rd
      [] kind = "delay"   -> ~r.occupied[1]
      [] kind = "break"   -> ~r.occupied[1] \/ ~r.occupied[2]

\* _impl_latency
NextLatency(r, in, rd) ==
    LET load == in # <<>> /\ (r.occupied[1] => rd) IN
    [r EXCEPT !.occupied[1] = IF @ THEN ~(rd /\ in = <<>>) ELSE in # <<>>,
              !.data[1] = IF load THEN in[1] ELSE @]

\* _implLatencyAndDelay
NextDelay(r, in, rd) ==
    [r EXCEPT !.occupied[1] = IF @ THEN ~rd ELSE in # <<>>,
              !.data[1] = IF ~r.occupied[1] /\ in # <<>> THEN in[1] ELSE @]

\* _implReadyChainBreak: a word goes to register 0 if that is free; reader_prio remembers
\* which of the two is older.
NextPrio_Stale(r, in) == r.reader_prio
NextPrio(r, in) ==
    IF in = <<>> \/ (r.occupied[1] /\ r.occupied[2]) THEN r.reader_prio
    ELSE IF r.occupied[1] THEN 0
    ELSE IF r.occupied[2] THEN 1
    ELSE r.reader_prio

NextBreak(r, in, rd) ==
    LET occ0 == r.occupied[1]
        occ1 == r.occupied[2]
        set0 == in # <<>> /\ ~occ0
        set1 == in # <<>> /\ occ0 /\ ~occ1
    IN [occupied |-> <<(occ0 \/ set0) /\ ~(rd /\ occ0 /\ Consume0(r)),
                       (occ1 \/ set1) /\ ~(rd /\ occ1 /\ Consume1(r))>>,
        reader_prio |-> NextPrio(r, in),
        data |-> <<IF set0 THEN in[1] ELSE r.data[1],
                   IF in # <<>> /\ ~occ1 THEN in[1] ELSE r.data[2]>>]

---------------------------------------------------------------------------
(* The chain. *)

\* The ready of each register, from the consumer's ready rd backwards.
Ready(rd) ==
    LET Rd[i \in 1 .. N + 1] == IF i = N + 1 THEN rd ELSE InRd(kinds[i], regs[i], Rd[i + 1])
    IN Rd

\* What is offered to each register, in at dataIn.
Offered(in) ==
    [i \in 1 .. N |->
        IF i = 1 THEN in
        ELSE IF OutVld(regs[i - 1]) THEN <<OutWord(regs[i - 1])>> ELSE <<>>]

\* One clock edge: the producer offers `in' (<<>> or one word), the consumer drives rd.
RegCycle(in, rd) ==
    LET Rd == Ready(rd)
        step(i) == CASE kinds[i] = "latency" -> NextLatency(regs[i], Offered(in)[i], Rd[i + 1])
                     [] kinds[i] = "delay"   -> NextDelay(regs[i], Offered(in)[i], Rd[i + 1])
                     [] kinds[i] = "break"   -> NextBreak(regs[i], Offered(in)[i], Rd[i + 1])
    IN /\ regs' = [i \in 1 .. N |-> step(i)]
       /\ in_xfer' = IF Rd[1] THEN in ELSE <<>>
       /\ out_xfer' = IF rd /\ OutVld(regs[N]) THEN <<OutWord(regs[N])>> ELSE <<>>
       /\ UNCHANGED <<kinds, init_data>>

RegReset ==
    /\ regs' = AfterReset
    /\ in_xfer' = <<>>
    /\ out_xfer' = <<>>
    /\ UNCHANGED <<kinds, init_data>>

---------------------------------------------------------------------------
(* The words inside, oldest first. *)

Held(r) ==
    IF r.occupied[1] /\ r.occupied[2]
    THEN IF r.reader_prio = 0 THEN r.data ELSE <<r.data[2], r.data[1]>>
    ELSE IF r.occupied[1] THEN <<r.data[1]>>
    ELSE IF r.occupied[2] THEN <<r.data[2]>> ELSE <<>>

RegContents ==
    LET From[i \in 0 .. N] == IF i = 0 THEN <<>> ELSE Held(regs[i]) \o From[i - 1]
    IN From[N]

RegPreset == IF init_data = <<>> THEN <<>> ELSE [i \in 1 .. N |-> init_data[N + 1 - i]]

RegCapacity == LET Size[i \in 0 .. N] ==
                       IF i = 0 THEN 0
                       ELSE Size[i - 1] + (IF kinds[i] = "break" THEN 2 ELSE 1)
               IN Size[N]
===========================================================================
