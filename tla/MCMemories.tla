------------------------------ MODULE MCMemories ------------------------------
(* The memories and tables, for TLC: a behaviour is one of one component, chosen at the   *)
(* start, with its users.                                                                 *)
EXTENDS FifoArray, CuckooHashTable, RamTransactional, RamPorts, AxiCache,
        StructManipulators, TLC

CONSTANTS
    Components,   \* of "fifo_array", "hash_table", "transactional", "xor", "mask", "cache",
                  \* "upload", "list", "mmu"
    k1, k2, k3, k4

VARIABLES
    component,
    edge,    \* parity of the clock edges of "transactional"
    eager    \* in its last clock no user made another one wait

vars == <<component, edge, eager, arrayVars, cuckooVars, transVars, xorVars, maskVars,
          cacheVars, structVars>>

Init ==
    /\ component \in Components
    /\ edge = FALSE /\ eager = TRUE
    /\ ArrayInit /\ CuckooInit /\ TransInit /\ XorInit /\ MaskInit
    /\ CacheInit /\ StructInit
    /\ component # "hash_table" => insertTargetOH = {} /\ ~insertFinal
    /\ component # "transactional" => users = "together"
    /\ component # "cache" => \A i \in Indexes, w \in Ways : tag_mem[i][w] = NoTag

Array == component = "fifo_array" /\ ArrayNext
         /\ UNCHANGED <<component, edge, eager, cuckooVars, transVars, xorVars, maskVars,
                      cacheVars, structVars>>

HashTable(rd, ins_rd) ==
    component = "hash_table" /\ CuckooStep(rd, ins_rd)
    /\ UNCHANGED <<component, edge, eager, arrayVars, transVars, xorVars, maskVars, cacheVars,
                  structVars>>

Transactional(late, slow) ==
    component = "transactional" /\ TransStep(late, slow)
    /\ edge' = ~edge /\ eager' = (~late /\ ~slow)
    /\ UNCHANGED <<component, arrayVars, cuckooVars, xorVars, maskVars, cacheVars,
                  structVars>>

XorRam == component = "xor" /\ XorNext
          /\ UNCHANGED <<component, edge, eager, arrayVars, cuckooVars, transVars, maskVars,
                        cacheVars, structVars>>

MaskRam == component = "mask" /\ MaskNext
           /\ UNCHANGED <<component, edge, eager, arrayVars, cuckooVars, transVars, xorVars,
                         cacheVars, structVars>>

Cache == component = "cache" /\ CacheNext
         /\ UNCHANGED <<component, edge, eager, arrayVars, cuckooVars, transVars, xorVars, maskVars,
                       structVars>>

memoryVars == <<edge, eager, arrayVars, cuckooVars, transVars, xorVars, maskVars, cacheVars>>

Upload == component = "upload" /\ UploadNext
          /\ UNCHANGED <<component, memoryVars, listVars, mmuVars>>

List == component = "list" /\ ListNext
        /\ UNCHANGED <<component, memoryVars, upVars, mmuVars>>

Mmu == component = "mmu" /\ MmuNext
       /\ UNCHANGED <<component, memoryVars, upVars, listVars>>

Next ==
    \/ Array
    \/ \E rd \in BOOLEAN, ins_rd \in InsRd : HashTable(rd, ins_rd)
    \/ \E late \in May("late_data"), slow \in May("slow_reader") : Transactional(late, slow)
    \/ XorRam
    \/ MaskRam
    \/ Cache \/ Upload \/ List \/ Mmu

Spec == Init /\ [][Next]_vars

\* The table engines answer a lookup at some time and take a write, the users of the
\* results are ready at some time, and who started a transfer of several words goes on.
\* Around a component that works over a datapump there is again and again a clock in which
\* everyone is ready.
FairSpec ==
    /\ Spec
    /\ WF_vars(HashTable(TRUE, TRUE) /\ (res_vld' \/ pipe' = <<>>))
    /\ WF_<<edge, eager>>(component = "transactional" /\ edge' = ~edge /\ eager' = TRUE)
    /\ WF_upVars(component = "upload" /\ UploadEager)
    /\ WF_listVars(component = "list" /\ ListEager)
    /\ WF_mmuVars(component = "mmu" /\ MmuEager)

\* Four keys of which three share both of their slots.
HashOf ==
    (0 :> (k1 :> 0 @@ k2 :> 0 @@ k3 :> 0 @@ k4 :> 0))
    @@ (1 :> (k1 :> 0 @@ k2 :> 1 @@ k3 :> 0 @@ k4 :> 0))

\* A set with more lines than ways, and another one.
FourLines == {[index |-> 0, tag |-> t] : t \in {k1, k2, k3}} \cup {[index |-> 1, tag |-> k1]}

\* A list that goes round two blocks.
TwoBlocks == [b \in 0 .. 1 |-> 1 - b]

\* Both items of a word of a leaf table, another table, a page that is not mapped and a table
\* that is not there.
SomeVirts == {[l1 |-> 0, l2 |-> 0], [l1 |-> 0, l2 |-> 1], [l1 |-> 1, l2 |-> 3],
              [l1 |-> 2, l2 |-> 0]}
TwoTables == [i \in 0 .. 2 |-> IF i = 2 THEN BadBase ELSE i]
UnmappedItem == {<<1, 3>>}

---------------------------------------------------------------------------
(* Properties *)

Works ==
    CASE component = "hash_table" -> fsm # "idle"
      [] component = "upload" -> FifoSize(buff) # 0
      [] component = "list" -> wrPtr # rdPtr
      [] component = "mmu" -> pageOffsetFifo.out # <<>>
      [] OTHER -> FALSE

Ends ==
    CASE component = "hash_table" -> fsm = "idle"
      [] component = "upload" -> st = "waitOnAck"
      [] component = "list" -> downloadPending
      [] component = "mmu" -> translated # <<>> \/ segfaultFlag
      [] OTHER -> TRUE

\* An insert that displaces other items, a delete and a clean come to an end, whatever the
\* hashes are, although the docstring expects an endless loop (cuckooHashTable.py:46); so do the transfers of several words, a flush together with its write.  Items
\* that wait are written after the time out, what a list has is read, and an address gets its
\* translation or the fault is shown.
OperationsEnd ==
    /\ Works ~> Ends
    /\ r_index.vld ~> ~r_index.vld
    /\ w_index.vld ~> ~w_index.vld
===========================================================================
