------------------------------ MODULE RamPorts ------------------------------
(***************************************************************************)
(* Memories built from RAMs with one write and one read port (mem/ram.py:  *)
(* a read that meets a write returns the old word, one clock later).       *)
(* RamXorSingleClock (mem/ramXor.py) has several write ports: a word is    *)
(* the XOR of what the ports have in their own RAMs.  RamCumulativeMask    *)
(* (mem/ramCumulativeMask.py) remembers for each byte whether it was       *)
(* written, and takes two clocks to add bytes to those of before.          *)
(***************************************************************************)
EXTENDS Naturals, FiniteSets, FiniteSetsExt

CONSTANTS
    WritePorts, RamAddrs,
    Bytes,
    HURRIED,             \* a port writes what another one wrote one clock before
    MOVED_ON,            \* a word comes out while the read port is at another address, one
                         \* that was just written
    READ_IN_ACCUMULATE   \* another word is read in the clock in which an accumulation ends

VARIABLES
    w_rams, w_dout,   \* the RAM that one port writes and another reads, and its output
    w_reg,            \* w_en_reg, w_addr_reg and w_data_reg of each port
    r_rams, r_dout,   \* the RAMs of the read port and their outputs
    xor_stored,       \* what the user has written
    xor_settled,      \* what was written by the clock before the last one
    xor_read,         \* the read of the last clock: its address, what is stored there, and
                      \* what has been written in the same clock
    xor_answer,       \* what came out in the last clock, and what may
    mask_ram, mask_dout,
    preload,
    mask_w,           \* the write request that is at the port
    mask_stored,      \* what the user has written
    mask_read         \* what a read that was accepted in the last clock is to return

xorVars == <<w_rams, w_dout, w_reg, r_rams, r_dout, xor_stored, xor_settled, xor_read,
             xor_answer>>
maskVars == <<mask_ram, mask_dout, preload, mask_w, mask_stored, mask_read>>

ASSUME PortsAssumption == IsFiniteSet(WritePorts)

Bit == {0, 1}
XorOf(set) == (Cardinality(set) % 2)  \* of bits, each given by whoever contributes a 1

---------------------------------------------------------------------------
(* RamXorSingleClock. *)

Zeros == [a \in RamAddrs |-> 0]

XorInit ==
    /\ w_rams = [i \in WritePorts |-> [j \in WritePorts \ {i} |-> Zeros]]
    /\ w_dout = [i \in WritePorts |-> [j \in WritePorts \ {i} |-> 0]]
    /\ w_reg = [i \in WritePorts |-> {}]
    /\ r_rams = [i \in WritePorts |-> Zeros]
    /\ r_dout = [i \in WritePorts |-> 0]
    /\ xor_stored = Zeros
    /\ xor_settled = Zeros
    /\ xor_read = {}
    /\ xor_answer = {}

\* xored_data: what the RAMs of a port get is the new word without the share of the others.
Xored(i, reg) ==
    (reg.data + XorOf({j \in WritePorts \ {i} : w_dout[i][j] = 1})) % 2

Updated(ram, i) ==
    [a \in RamAddrs |-> IF \E g \in w_reg[i] : g.addr = a
                        THEN Xored(i, CHOOSE g \in w_reg[i] : TRUE) ELSE ram[a]]

\* dout: a word that is just being written is taken from the register of its port; r_addr is
\* what is on the read port now, one clock after the read.
Share_NotForwarded(i, r_addr) == r_dout[i]
Share(i, r_addr) ==
    IF \E g \in w_reg[i] : g.addr = r_addr
    THEN Xored(i, CHOOSE g \in w_reg[i] : TRUE) ELSE r_dout[i]

XorDout(r_addr) == XorOf({i \in WritePorts : Share(i, r_addr) = 1})

\* What the ports write to a.
WrittenTo(a, w) == {g.data : g \in {h \in UNION {w[i] : i \in WritePorts} : h.addr = a}}

\* A write takes two clocks: a read in either of them may return the word of before.  One in
\* the first of them returns the new word when the read port stays at its address.
MayReturn(x, r_addr) == IF x.new # {} /\ r_addr = x.addr THEN x.new ELSE x.old \cup x.new

\* One clock: w[i] is {} or {[addr, data]}, r_addr is on the read port, r_en or not.
XorCycle(w, r_en, r_addr) ==
    /\ w_reg' = w
    /\ w_dout' = [i \in WritePorts |-> [j \in WritePorts \ {i} |->
                    IF w[i] = {} THEN w_dout[i][j]
                    ELSE w_rams[i][j][(CHOOSE g \in w[i] : TRUE).addr]]]
    /\ w_rams' = [i \in WritePorts |-> [j \in WritePorts \ {i} |-> Updated(w_rams[i][j], j)]]
    /\ r_rams' = [i \in WritePorts |-> Updated(r_rams[i], i)]
    /\ r_dout' = [i \in WritePorts |-> IF r_en THEN r_rams[i][r_addr] ELSE r_dout[i]]
    /\ xor_stored' = [a \in RamAddrs |-> IF WrittenTo(a, w) = {} THEN xor_stored[a]
                                          ELSE CHOOSE d \in WrittenTo(a, w) : TRUE]
    /\ xor_settled' = xor_stored
    /\ xor_read' = IF r_en THEN {[addr |-> r_addr, new |-> WrittenTo(r_addr, w),
                                  old |-> {xor_settled[r_addr], xor_stored[r_addr]}]}
                   ELSE {}
    /\ xor_answer' = {[got |-> XorDout(r_addr), may |-> MayReturn(x, r_addr)] : x \in xor_read}

\* Two ports do not write to one address in one clock, nor, unless HURRIED, in neighbouring
\* ones, where the later one would take the old word of the other.
XorNext ==
    \E w \in [WritePorts -> {{}} \cup {{g} : g \in [addr : RamAddrs, data : Bit]}],
       r_en \in BOOLEAN, r_addr \in RamAddrs :
        /\ \A i, j \in WritePorts : \A g \in w[i], h \in w[j] : g.addr = h.addr => i = j
        /\ \/ HURRIED
           \/ \A i, j \in WritePorts : \A g \in w_reg[i], h \in w[j] : g.addr = h.addr => i = j
        /\ \/ MOVED_ON
           \/ \A x \in xor_read, i \in WritePorts : \A g \in w_reg[i] :
                  g.addr = r_addr => r_addr = x.addr
        /\ XorCycle(w, r_en, r_addr)

---------------------------------------------------------------------------
(* RamCumulativeMask, with at most eight bytes in a word. *)

(* A word is its mask: data bytes are written as in any RAM.  *)

MaskRequests ==
    [addr : RamAddrs, we : SUBSET Bytes, do_accumulate : BOOLEAN, do_overwrite : BOOLEAN]

MaskInit ==
    /\ mask_ram = [a \in RamAddrs |-> {}]
    /\ mask_dout = {}
    /\ preload = FALSE
    /\ mask_w = {}
    /\ mask_stored = mask_ram
    /\ mask_read = {}

Accumulates(q) == q.do_accumulate /\ ~q.do_overwrite

\* rd of the two ports.
MaskWriteRd == \A q \in mask_w : ~Accumulates(q) \/ preload
MaskReadRd == MaskWriteRd

\* w_mask, and we_for_we_bytes: an accumulation of no byte leaves the mask alone.
NextMask(q) ==
    IF Accumulates(q) /\ q.we = {} THEN mask_ram[q.addr]
    ELSE IF preload THEN q.we \cup mask_dout
    ELSE q.we

\* One clock; r is {} or {addr}, next the request that follows one that is finished.
MaskCycle(r, next) ==
    LET will_preload == \E q \in mask_w : Accumulates(q)
        written == IF MaskWriteRd THEN mask_w ELSE {}
        address == IF will_preload THEN {q.addr : q \in mask_w} ELSE r
        added(q) == q.we \cup IF Accumulates(q) THEN mask_stored[q.addr] ELSE {}
    IN /\ preload' = IF mask_w = {} THEN preload ELSE ~preload /\ will_preload
       /\ mask_ram' = [a \in RamAddrs |->
                        IF \E q \in written : q.addr = a
                        THEN NextMask(CHOOSE q \in written : TRUE) ELSE mask_ram[a]]
       /\ mask_dout' = IF address = {} THEN mask_dout ELSE mask_ram[CHOOSE a \in address : TRUE]
       /\ mask_w' = IF MaskWriteRd THEN next ELSE mask_w
       /\ mask_stored' = [a \in RamAddrs |->
                            IF \E q \in written : q.addr = a
                            THEN added(CHOOSE q \in written : TRUE) ELSE mask_stored[a]]
       /\ mask_read' = IF MaskReadRd THEN {mask_stored[a] : a \in r} ELSE {}

MaskNext ==
    \E r \in {{}} \cup {{a} : a \in RamAddrs}, next \in {{}} \cup {{q} : q \in MaskRequests} :
        /\ READ_IN_ACCUMULATE \/ ~preload \/ r \subseteq {q.addr : q \in mask_w}
        /\ MaskCycle(r, next)

\* The two memories, each with its users.
PortsSpec ==
    /\ XorInit /\ MaskInit
    /\ [][\/ XorNext /\ UNCHANGED maskVars
          \/ MaskNext /\ UNCHANGED xorVars]_<<xorVars, maskVars>>

---------------------------------------------------------------------------
(* Properties *)

\* A read returns what was stored when it was accepted: with several write ports the word
\* of the last write to its address, whichever port it came through, or the one before as
\* long as that write is under way, and of a word with a mask exactly the bytes written
\* since the last overwrite.
ReadsSeeWrites ==
    /\ \A x \in xor_answer : x.got \in x.may
    /\ \A word \in mask_read : mask_dout = word
===========================================================================
