--------------------- MODULE HandshakedFifoDropProofs ---------------------
(***************************************************************************)
(* The FIFO with commit and discard, for every depth and every set of      *)
(* words: the registers keep their types, and both write pointers, both    *)
(* wrap flags and the counters describe one ring, which implements the     *)
(* speculative queue, as long as no discard coincides with the reader      *)
(* leaving the last slot.                                                  *)
(*                                                                         *)
(* The flags alone say nothing: `looped' may be cleared only while it is   *)
(* set, and both flags are set whenever the reader wraps.  That follows    *)
(* from the order of the pointers, which RingInv adds to the counters.     *)
(***************************************************************************)
EXTENDS HandshakedFifoDrop, SequenceTheorems, TLAPS

\* Each flag tells on which side of the reader its pointer is; the counters count.
RingInv ==
    /\ looped => wr_ptr <= rd_ptr
    /\ ~looped => rd_ptr <= wr_ptr
    /\ looped_tmp => wr_ptr_tmp <= rd_ptr
    /\ ~looped_tmp => rd_ptr <= wr_ptr_tmp
    /\ Committed <= Written
    /\ size = Committed
    /\ size + stash_size = Written

\* No slot between the reader and the tentative pointer is unwritten.
FilledInv == \A i \in 0 .. Written - 1 : memory[Slot(i)] \in Data

\* The inductive invariant.
IInv ==
    /\ TypeOK
    /\ RingInv
    /\ FilledInv
    /\ out_vld => data \in Data

---------------------------------------------------------------------------
(* The ring *)

\* How many words there are, and where they can be.
LEMMA RingBounds ==
    ASSUME DropTypeOK, RingInv
    PROVE  /\ Committed \in 0 .. DEPTH /\ Written \in 0 .. DEPTH
           /\ InWait <=> Written = DEPTH
           /\ OutWait <=> Committed = 0
           /\ \A i \in 0 .. DEPTH - 1 : Slot(i) \in Slots
           /\ Slot(0) = rd_ptr
           /\ Written < DEPTH => Slot(Written) = wr_ptr_tmp
  BY DepthAssumption
     DEF DropTypeOK, RingInv, Committed, Written, Distance, Slot, Slots, InWait, OutWait, MAX_DEPTH

\* Different positions are different slots.
LEMMA SlotInjective ==
    ASSUME DropTypeOK, NEW i \in 0 .. DEPTH - 1, NEW j \in 0 .. DEPTH - 1, i # j
    PROVE  Slot(i) # Slot(j)
  BY DepthAssumption DEF DropTypeOK, Slot, Slots, MAX_DEPTH

\* How many words an edge takes from the front.
Taken(rd_en) == IF rd_en THEN 1 ELSE 0

\* One edge moves each end of the ring as far as the handshakes say: the reader by the word
\* taken, the tentative pointer by the word written or back to the committed one, the
\* committed pointer up to the tentative one.
LEMMA CycleDistances ==
    ASSUME DropTypeOK, RingInv,
           NEW en \in BOOLEAN, NEW commit \in BOOLEAN, NEW discard \in BOOLEAN,
           NEW rd_en \in BOOLEAN, NEW word,
           en => ~InWait, rd_en => ~OutWait,
           ~(commit /\ discard), discard => ~ReaderWraps(rd_en),
           DropCycle(en, word, commit, discard, rd_en)
    PROVE  /\ FifoWrite(en) <=> en
           /\ FifoRead(rd_en) <=> rd_en
           /\ wr_ptr' \in Slots /\ wr_ptr_tmp' \in Slots /\ rd_ptr' \in Slots
           /\ looped' \in BOOLEAN /\ looped_tmp' \in BOOLEAN
           /\ looped' => wr_ptr' <= rd_ptr'
           /\ ~looped' => rd_ptr' <= wr_ptr'
           /\ looped_tmp' => wr_ptr_tmp' <= rd_ptr'
           /\ ~looped_tmp' => rd_ptr' <= wr_ptr_tmp'
           /\ Written' = (IF discard THEN Committed ELSE IF en THEN Written + 1 ELSE Written)
                         - Taken(rd_en)
           /\ Committed' = (IF en /\ commit THEN Written + 1 ELSE Committed) - Taken(rd_en)
<1> USE DepthAssumption
<1>1. (FifoWrite(en) <=> en) /\ (FifoRead(rd_en) <=> rd_en)
  BY DEF FifoWrite, FifoRead, InWait, OutWait
<1>2. /\ rd_ptr' = IF rd_en THEN NextPtr(rd_ptr) ELSE rd_ptr
      /\ wr_ptr_tmp' = IF discard THEN wr_ptr ELSE IF en THEN NextPtr(wr_ptr_tmp) ELSE wr_ptr_tmp
      /\ wr_ptr' = IF en /\ commit THEN NextPtr(wr_ptr_tmp) ELSE wr_ptr
      /\ looped' = NextLooped(en, commit, discard, rd_en)
      /\ looped_tmp' = NextLoopedTmp(en, discard, rd_en)
  BY <1>1 DEF DropCycle, NextWrPtrTmp, NextWrPtr
<1>3. /\ wr_ptr \in 0 .. DEPTH - 1 /\ wr_ptr_tmp \in 0 .. DEPTH - 1 /\ rd_ptr \in 0 .. DEPTH - 1
      /\ looped \in BOOLEAN /\ looped_tmp \in BOOLEAN
  BY DEF DropTypeOK, Slots, MAX_DEPTH
<1>4. wr_ptr' \in Slots /\ wr_ptr_tmp' \in Slots /\ rd_ptr' \in Slots
  BY <1>2, <1>3 DEF NextPtr, Slots, MAX_DEPTH
<1>5. ReaderWraps(rd_en) => looped /\ looped_tmp
  BY <1>3 DEF ReaderWraps, OutWait, RingInv, Committed, Written, Distance, MAX_DEPTH
<1>6. en /\ wr_ptr_tmp = MAX_DEPTH => ~looped_tmp
  BY <1>3 DEF InWait, RingInv, MAX_DEPTH
<1>7. Committed = (IF looped THEN DEPTH - rd_ptr + wr_ptr ELSE wr_ptr - rd_ptr)
      /\ Written = (IF looped_tmp THEN DEPTH - rd_ptr + wr_ptr_tmp ELSE wr_ptr_tmp - rd_ptr)
  BY DEF Committed, Written, Distance
<1>8. Committed' = (IF looped' THEN DEPTH - rd_ptr' + wr_ptr' ELSE wr_ptr' - rd_ptr')
      /\ Written' = (IF looped_tmp' THEN DEPTH - rd_ptr' + wr_ptr_tmp' ELSE wr_ptr_tmp' - rd_ptr')
  BY DEF Committed, Written, Distance
<1>9. /\ rd_en => rd_ptr' = IF ReaderWraps(rd_en) THEN 0 ELSE rd_ptr + 1
      /\ ~rd_en => rd_ptr' = rd_ptr /\ ~ReaderWraps(rd_en)
  BY <1>2, <1>3 DEF ReaderWraps, NextPtr
\* The committed pointer stays: only the reader moves against it.
<1>10. ASSUME wr_ptr' = wr_ptr, looped' = (looped /\ ~ReaderWraps(rd_en))
       PROVE  /\ looped' => wr_ptr' <= rd_ptr'
              /\ ~looped' => rd_ptr' <= wr_ptr'
              /\ Committed' = Committed - Taken(rd_en)
  BY <1>3, <1>5, <1>7, <1>8, <1>9, <1>10 DEF RingInv, OutWait, ReaderWraps, Taken, MAX_DEPTH
\* The tentative pointer moves by the word written.
<1>11. ASSUME ~discard
       PROVE  /\ looped_tmp' => wr_ptr_tmp' <= rd_ptr'
              /\ ~looped_tmp' => rd_ptr' <= wr_ptr_tmp'
              /\ Written' = (IF en THEN Written + 1 ELSE Written) - Taken(rd_en)
  <2>1. looped_tmp' = IF en /\ wr_ptr_tmp = MAX_DEPTH THEN TRUE ELSE looped_tmp /\ ~ReaderWraps(rd_en)
    BY <1>2, <1>11 DEF NextLoopedTmp
  <2>2. en => wr_ptr_tmp' = IF wr_ptr_tmp = MAX_DEPTH THEN 0 ELSE wr_ptr_tmp + 1
    BY <1>2, <1>11 DEF NextPtr
  <2>3. ~en => wr_ptr_tmp' = wr_ptr_tmp
    BY <1>2, <1>11
  <2>4. rd_en => Committed > 0 /\ Written > 0
    BY <1>3, <1>7 DEF RingInv, OutWait
  <2>5. en => Written < DEPTH
    BY <1>3, <1>7 DEF RingInv, InWait
  <2>6. CASE en /\ wr_ptr_tmp = MAX_DEPTH
    <3>1. rd_en => rd_ptr < MAX_DEPTH
      BY <1>3, <1>6, <1>7, <2>4, <2>6 DEF MAX_DEPTH
    <3>2. ~ReaderWraps(rd_en)
      BY <3>1, <1>3 DEF ReaderWraps, MAX_DEPTH
    <3> QED BY <1>3, <1>6, <1>7, <1>8, <1>9, <2>1, <2>2, <2>6, <3>1, <3>2 DEF Taken, MAX_DEPTH
  <2>7. CASE ~(en /\ wr_ptr_tmp = MAX_DEPTH)
    <3>1. CASE ReaderWraps(rd_en)
      <4>1. rd_en /\ rd_ptr = MAX_DEPTH
        BY <3>1 DEF ReaderWraps
      <4>2. rd_ptr' = 0 /\ looped_tmp /\ ~looped_tmp'
        BY <1>5, <1>9, <2>1, <2>7, <3>1, <4>1
      <4> QED BY <1>3, <1>7, <1>8, <2>2, <2>3, <2>7, <4>1, <4>2 DEF Taken, MAX_DEPTH
    <3>2. CASE ~ReaderWraps(rd_en)
      <4>1. looped_tmp' = looped_tmp
        BY <1>3, <2>1, <2>7, <3>2
      <4>2. rd_ptr' = rd_ptr + Taken(rd_en)
        BY <1>3, <1>9, <3>2 DEF Taken
      <4>3. wr_ptr_tmp' = IF en THEN wr_ptr_tmp + 1 ELSE wr_ptr_tmp
        BY <2>2, <2>3, <2>7
      <4> QED BY <1>3, <1>7, <1>8, <2>4, <2>5, <4>1, <4>2, <4>3 DEF RingInv, Taken
    <3> QED BY <3>1, <3>2
  <2> QED BY <2>6, <2>7
<1>12. CASE discard
  <2>1. wr_ptr' = wr_ptr /\ wr_ptr_tmp' = wr_ptr /\ looped_tmp' = looped
    BY <1>2, <1>12 DEF NextLoopedTmp
  <2>2. looped' = (looped /\ ~ReaderWraps(rd_en)) /\ looped' = looped
    BY <1>2, <1>3, <1>12 DEF NextLooped
  <2>3. Written' = Committed'
    BY <1>8, <2>1, <2>2
  <2> QED BY <1>1, <1>3, <1>4, <1>10, <1>12, <2>1, <2>2, <2>3
<1>13. CASE ~discard /\ en /\ commit
  <2>1. wr_ptr' = wr_ptr_tmp' /\ looped' = looped_tmp' /\ looped_tmp' \in BOOLEAN
    BY <1>2, <1>3, <1>13 DEF NextLooped, NextLoopedTmp
  <2>2. Committed' = Written'
    BY <1>8, <2>1
  <2> QED BY <1>1, <1>4, <1>11, <1>13, <2>1, <2>2
<1>14. CASE ~discard /\ ~(en /\ commit)
  <2>1. wr_ptr' = wr_ptr /\ looped' = (looped /\ ~ReaderWraps(rd_en)) /\ looped_tmp' \in BOOLEAN
        /\ looped' \in BOOLEAN
    BY <1>2, <1>3, <1>14 DEF NextLooped, NextLoopedTmp
  <2> QED BY <1>1, <1>4, <1>10, <1>11, <1>14, <2>1
<1> QED BY <1>12, <1>13, <1>14

\* The counters follow: size what is committed, both counters together what is written.
LEMMA CycleCounters ==
    ASSUME DropTypeOK, RingInv,
           NEW en \in BOOLEAN, NEW commit \in BOOLEAN, NEW discard \in BOOLEAN,
           NEW rd_en \in BOOLEAN, NEW word,
           en => ~InWait, rd_en => ~OutWait,
           ~(commit /\ discard), discard => ~ReaderWraps(rd_en),
           DropCycle(en, word, commit, discard, rd_en)
    PROVE  RingInv'
<1> USE DepthAssumption, CounterAssumption
<1>1. /\ FifoWrite(en) <=> en
      /\ FifoRead(rd_en) <=> rd_en
      /\ Written' = (IF discard THEN Committed ELSE IF en THEN Written + 1 ELSE Written)
                    - Taken(rd_en)
      /\ Committed' = (IF en /\ commit THEN Written + 1 ELSE Committed) - Taken(rd_en)
  BY CycleDistances
<1>2. /\ Committed \in 0 .. DEPTH /\ Written \in 0 .. DEPTH /\ Committed <= Written
      /\ InWait <=> Written = DEPTH
      /\ OutWait <=> Committed = 0
      /\ size = Committed /\ size + stash_size = Written
  BY RingBounds DEF RingInv
<1>3. /\ stash_size \in Nat /\ size \in Nat
      /\ stash_size + size <= DEPTH
  BY <1>2 DEF DropTypeOK
<1>4. size' = IF rd_en THEN IF en /\ commit THEN Wrap(size + stash_size) ELSE Wrap(size - 1)
              ELSE IF en /\ commit THEN Wrap(size + stash_size + 1) ELSE size
  BY <1>1 DEF DropCycle, NextSize
<1>5. stash_size' = IF discard THEN 0 ELSE IF ~en THEN stash_size
                    ELSE IF commit THEN 0 ELSE Wrap(stash_size + 1)
  BY <1>1 DEF DropCycle, NextStashSize
<1>6. size' = Committed'
  BY <1>1, <1>2, <1>3, <1>4 DEF Wrap, Taken
<1>7. size' + stash_size' = Written'
  BY <1>1, <1>2, <1>3, <1>5, <1>6 DEF Wrap, Taken
<1>8. Committed' <= Written'
  BY <1>1, <1>2 DEF Taken
<1>9. /\ looped' => wr_ptr' <= rd_ptr'
      /\ ~looped' => rd_ptr' <= wr_ptr'
      /\ looped_tmp' => wr_ptr_tmp' <= rd_ptr'
      /\ ~looped_tmp' => rd_ptr' <= wr_ptr_tmp'
  BY CycleDistances
<1> QED BY <1>6, <1>7, <1>8, <1>9 DEF RingInv

\* The registers keep their types; space too, although it does not count the room.
LEMMA CycleTypes ==
    ASSUME DropTypeOK, RingInv,
           NEW en \in BOOLEAN, NEW commit \in BOOLEAN, NEW discard \in BOOLEAN,
           NEW rd_en \in BOOLEAN, NEW word \in Data,
           en => ~InWait, rd_en => ~OutWait,
           ~(commit /\ discard), discard => ~ReaderWraps(rd_en),
           DropCycle(en, word, commit, discard, rd_en)
    PROVE  DropTypeOK'
<1> USE DepthAssumption, CounterAssumption
<1>1. /\ wr_ptr' \in Slots /\ wr_ptr_tmp' \in Slots /\ rd_ptr' \in Slots
      /\ looped' \in BOOLEAN /\ looped_tmp' \in BOOLEAN
  BY CycleDistances
<1>2. ASSUME NEW a \in 0 .. COUNTER_MOD - 1, NEW b \in 0 .. COUNTER_MOD - 1
      PROVE  /\ Wrap(a + b) \in 0 .. COUNTER_MOD - 1 /\ Wrap(a - b) \in 0 .. COUNTER_MOD - 1
             /\ Wrap(a + b + 1) \in 0 .. COUNTER_MOD - 1 /\ Wrap(a + 1) \in 0 .. COUNTER_MOD - 1
             /\ Wrap(a - 1) \in 0 .. COUNTER_MOD - 1
  BY DEF Wrap
<1>3. stash_size' \in 0 .. COUNTER_MOD - 1
  BY <1>2 DEF DropCycle, NextStashSize, DropTypeOK
<1>4. size' \in 0 .. COUNTER_MOD - 1
  BY <1>2 DEF DropCycle, NextSize, DropTypeOK
<1>5. space' \in 0 .. COUNTER_MOD - 1
  BY <1>2 DEF DropCycle, NextSpace, DropTypeOK
<1>6. memory' \in [Slots -> Data \cup {Undef}]
  BY DEF DropCycle, NextMemory, DropTypeOK
<1>7. data' \in Data \cup {Undef}
  BY DEF DropCycle, NextData, DropTypeOK
<1> QED BY <1>1, <1>3, <1>4, <1>5, <1>6, <1>7 DEF DropTypeOK

\* The word at a position after an edge is the one that was Taken positions further back, or
\* the one just written: what a discard or a read releases changes no word that stays.
LEMMA CycleSlots ==
    ASSUME DropTypeOK, RingInv,
           NEW en \in BOOLEAN, NEW commit \in BOOLEAN, NEW discard \in BOOLEAN,
           NEW rd_en \in BOOLEAN, NEW word \in Data,
           en => ~InWait, rd_en => ~OutWait,
           ~(commit /\ discard), discard => ~ReaderWraps(rd_en),
           DropCycle(en, word, commit, discard, rd_en),
           NEW i \in 0 .. Written' - 1
    PROVE  /\ i + Taken(rd_en) \in 0 .. Written
           /\ i + Taken(rd_en) < Written => memory'[Slot(i)'] = memory[Slot(i + Taken(rd_en))]
           /\ ~(i + Taken(rd_en) < Written) => en /\ memory'[Slot(i)'] = word
<1> USE DepthAssumption
<1> DEFINE j == i + Taken(rd_en)
<1>1. /\ FifoWrite(en) <=> en
      /\ FifoRead(rd_en) <=> rd_en
      /\ Written' = (IF discard THEN Committed ELSE IF en THEN Written + 1 ELSE Written)
                    - Taken(rd_en)
  BY CycleDistances
<1>2. /\ Committed \in 0 .. DEPTH /\ Written \in 0 .. DEPTH /\ Committed <= Written
      /\ InWait <=> Written = DEPTH
      /\ \A k \in 0 .. DEPTH - 1 : Slot(k) \in Slots
      /\ Written < DEPTH => Slot(Written) = wr_ptr_tmp
  BY RingBounds DEF RingInv
<1>3. memory' = IF en THEN [memory EXCEPT ![wr_ptr_tmp] = word] ELSE memory
  BY <1>1 DEF DropCycle, NextMemory
<1>4. j \in 0 .. DEPTH - 1 /\ j <= Written /\ (j = Written => en)
  BY <1>1, <1>2 DEF Taken
<1>5. Slot(i)' = Slot(j)
  <2>1. rd_ptr' = IF rd_en THEN NextPtr(rd_ptr) ELSE rd_ptr
    BY <1>1 DEF DropCycle
  <2> QED BY <1>4, <2>1 DEF Taken, Slot, NextPtr, DropTypeOK, Slots, MAX_DEPTH
<1>6. CASE j < Written
  <2>1. en => Slot(j) # wr_ptr_tmp
    <3>1. en => Written \in 0 .. DEPTH - 1
      BY <1>2
    <3> QED BY <1>2, <1>4, <1>6, <3>1, SlotInjective
  <2> QED BY <1>2, <1>3, <1>4, <1>5, <1>6, <2>1 DEF DropTypeOK
<1>7. CASE ~(j < Written)
  <2>1. en /\ Slot(j) = wr_ptr_tmp
    BY <1>2, <1>4, <1>7
  <2> QED BY <1>3, <1>4, <1>5, <1>7, <2>1 DEF DropTypeOK
<1> QED BY <1>6, <1>7

\* A slot in use holds a word: the slots a discard takes back are not in use any more.
LEMMA CycleFilled ==
    ASSUME DropTypeOK, RingInv, FilledInv,
           NEW en \in BOOLEAN, NEW commit \in BOOLEAN, NEW discard \in BOOLEAN,
           NEW rd_en \in BOOLEAN, NEW word \in Data,
           en => ~InWait, rd_en => ~OutWait,
           ~(commit /\ discard), discard => ~ReaderWraps(rd_en),
           DropCycle(en, word, commit, discard, rd_en)
    PROVE  /\ FilledInv'
           /\ rd_en => data' \in Data
           /\ ~rd_en => data' = data
<1> USE DepthAssumption
<1>1. FifoRead(rd_en) <=> rd_en
  BY CycleDistances
<1>2. /\ Committed \in 0 .. DEPTH /\ Written \in 0 .. DEPTH /\ Committed <= Written
      /\ OutWait <=> Committed = 0
      /\ Slot(0) = rd_ptr
  BY RingBounds DEF RingInv
<1>3. ASSUME NEW i \in 0 .. Written' - 1
      PROVE  memory'[Slot(i)'] \in Data
  <2>1. /\ i + Taken(rd_en) \in 0 .. Written
        /\ i + Taken(rd_en) < Written => memory'[Slot(i)'] = memory[Slot(i + Taken(rd_en))]
        /\ ~(i + Taken(rd_en) < Written) => en /\ memory'[Slot(i)'] = word
    BY CycleSlots
  <2> QED BY <1>2, <2>1 DEF FilledInv
<1>4. rd_en => data' \in Data
  <2>1. rd_en => memory[Slot(0)] \in Data
    BY <1>2 DEF FilledInv
  <2> QED BY <1>1, <1>2, <2>1 DEF DropCycle, NextData
<1>5. ~rd_en => data' = data
  BY <1>1 DEF DropCycle, NextData
<1> QED BY <1>3, <1>4, <1>5 DEF FilledInv

---------------------------------------------------------------------------
(* The invariant is inductive *)

\* At first the ring is empty.
LEMMA InitIInv == Init => IInv
<1> USE DepthAssumption, CounterAssumption
<1> SUFFICES ASSUME Init
             PROVE  IInv
  OBVIOUS
<1>1. /\ rd_ptr = 0 /\ wr_ptr = 0 /\ wr_ptr_tmp = 0 /\ looped = FALSE /\ looped_tmp = FALSE
      /\ stash_size = 0 /\ size = 0 /\ space = DEPTH /\ out_vld = FALSE
  BY DEF Init, DropInit
<1>2. memory \in [Slots -> Data \cup {Undef}] /\ data \in Data \cup {Undef}
  BY DEF Init, DropInit
<1>3. DropTypeOK
  <2>1. 0 \in Slots /\ 0 \in 0 .. COUNTER_MOD - 1 /\ DEPTH \in 0 .. COUNTER_MOD - 1
    BY DEF Slots, MAX_DEPTH
  <2> QED BY <1>1, <1>2, <2>1, Zenon DEF DropTypeOK
<1>4. TypeOK
  BY <1>3 DEF Init, TypeOK
<1>5. Committed = 0 /\ Written = 0
  BY <1>1 DEF Committed, Written, Distance
<1> QED BY <1>1, <1>4, <1>5 DEF IInv, RingInv, FilledInv

\* A cycle keeps the invariant, whatever combination of its inputs the producer may drive.
LEMMA CycleIInv ==
    ASSUME ~DISCARD_AT_WRAP, IInv,
           NEW vld \in BOOLEAN, NEW commit \in BOOLEAN, NEW discard \in BOOLEAN,
           NEW rd \in BOOLEAN, NEW word \in Data,
           ProducerMayDrive(commit, discard, rd),
           Cycle(vld, word, commit, discard, rd)
    PROVE  IInv'
<1> DEFINE en == FifoInEn(vld)
           rd_en == OutEn(rd)
<1>1. TypeOK /\ DropTypeOK /\ RingInv /\ FilledInv
  BY DEF IInv, TypeOK
<1>2. /\ en \in BOOLEAN /\ rd_en \in BOOLEAN
      /\ en => ~InWait
      /\ rd_en => ~OutWait
      /\ ~(commit /\ discard) /\ (discard => ~ReaderWraps(rd_en))
      /\ DropCycle(en, word, commit, discard, rd_en)
  BY <1>1 DEF TypeOK, DropTypeOK, FifoInEn, OutEn, InRd, InWait, OutWait, Cycle, ProducerMayDrive
<1> HIDE DEF en, rd_en
<1>3. RingInv' /\ DropTypeOK' /\ FilledInv'
  BY <1>1, <1>2, CycleCounters, CycleTypes, CycleFilled
<1>4. (rd_en => data' \in Data) /\ (~rd_en => data' = data)
  BY <1>1, <1>2, CycleFilled
<1>5. out_vld' => data' \in Data
  <2>1. out_vld' => rd_en \/ (out_vld /\ ~rd_en)
    BY <1>1 DEF Cycle, NextOutVld, rd_en, OutEn, TypeOK
  <2> QED BY <1>4, <2>1 DEF IInv
<1>6. TypeOK'
  <2>1. out_vld' \in BOOLEAN /\ discarded' \in BOOLEAN /\ clk' \in BOOLEAN /\ rst' \in BOOLEAN
    BY <1>1 DEF Cycle, NextOutVld, OutWait, TypeOK
  <2>2. in_xfer' \in {NoTransfer} \cup (Data \X BOOLEAN)
    BY DEF Cycle
  <2>3. out_xfer' \in {NoTransfer} \cup {<<d>> : d \in Data}
    BY DEF Cycle, IInv
  <2> QED BY <1>3, <2>1, <2>2, <2>3 DEF TypeOK
<1> QED BY <1>3, <1>5, <1>6 DEF IInv

\* A reset empties the ring; what it leaves in the memory is not in use.
LEMMA ResetIInv ==
    ASSUME IInv, NEW vld \in BOOLEAN, NEW rd \in BOOLEAN, NEW word \in Data,
           Reset(vld, word, rd)
    PROVE  IInv'
<1> USE DepthAssumption, CounterAssumption
<1>1. TypeOK /\ DropTypeOK
  BY DEF IInv, TypeOK
<1>2. /\ rd_ptr' = 0 /\ wr_ptr' = 0 /\ wr_ptr_tmp' = 0 /\ looped' = FALSE /\ looped_tmp' = FALSE
      /\ stash_size' = 0 /\ size' = 0 /\ space' = DEPTH
      /\ out_vld' = FALSE /\ in_xfer' = NoTransfer /\ out_xfer' = NoTransfer
      /\ discarded' = FALSE /\ clk' = ~clk /\ rst' = TRUE
  BY DEF Reset, DropReset
<1>3. memory' \in [Slots -> Data \cup {Undef}]
  BY <1>1 DEF Reset, DropReset, NextMemory, DropTypeOK
<1>4. data' \in Data \cup {Undef}
  BY <1>1 DEF Reset, DropReset, NextData, DropTypeOK
<1>5. TypeOK'
  <2>1. DropTypeOK'
    <3>1. 0 \in Slots /\ 0 \in 0 .. COUNTER_MOD - 1 /\ DEPTH \in 0 .. COUNTER_MOD - 1
      BY DEF Slots, MAX_DEPTH
    <3> QED BY <1>2, <1>3, <1>4, <3>1, Zenon DEF DropTypeOK
  <2>2. out_vld' \in BOOLEAN /\ discarded' \in BOOLEAN /\ clk' \in BOOLEAN /\ rst' \in BOOLEAN
    BY <1>1, <1>2 DEF TypeOK
  <2> QED BY <1>2, <2>1, <2>2 DEF TypeOK
<1>6. Committed' = 0 /\ Written' = 0
  BY <1>2 DEF Committed, Written, Distance
<1> QED BY <1>2, <1>5, <1>6 DEF IInv, RingInv, FilledInv

\* Every step keeps the invariant.
LEMMA NextIInv ==
    ASSUME ~DISCARD_AT_WRAP, IInv, [Next]_vars
    PROVE  IInv'
<1>1. CASE Next
  BY <1>1, CycleIInv, ResetIInv DEF Next
<1>2. CASE UNCHANGED vars
  BY <1>2 DEF vars, dropVars, IInv, TypeOK, DropTypeOK, RingInv, FilledInv, Committed, Written,
              Distance, Slot
<1> QED BY <1>1, <1>2

---------------------------------------------------------------------------
(* The queue and the stash that the registers stand for *)

\* The committed words, and the ones behind them, are sequences.
LEMMA WordsAreSequences ==
    ASSUME DropTypeOK, RingInv, FilledInv
    PROVE  /\ CommittedWords \in Seq(Data)
           /\ Len(CommittedWords) = Committed
           /\ \A i \in 1 .. Committed : CommittedWords[i] = memory[Slot(i - 1)]
           /\ StashedWords \in Seq(Data)
           /\ Len(StashedWords) = Written - Committed
           /\ \A i \in 1 .. Written - Committed :
                 StashedWords[i] = memory[Slot(Committed + i - 1)]
<1>1. Committed \in Nat /\ Written \in Nat /\ Committed <= Written /\ Written - Committed \in Nat
  BY RingBounds, DepthAssumption DEF RingInv
<1>2. \A i \in 1 .. Committed : memory[Slot(i - 1)] \in Data
  BY <1>1 DEF FilledInv
<1>3. \A i \in 1 .. Written - Committed : memory[Slot(Committed + i - 1)] \in Data
  BY <1>1 DEF FilledInv
<1>4. CommittedWords \in Seq(Data) /\ Len(CommittedWords) = Committed
  <2>1. CommittedWords \in [1 .. Committed -> Data]
    BY <1>2 DEF CommittedWords
  <2>2. CommittedWords \in Seq(Data)
    BY <1>1, <2>1, SeqDef
  <2> QED BY <1>1, <2>1, <2>2, LenProperties
<1>5. StashedWords \in Seq(Data) /\ Len(StashedWords) = Written - Committed
  <2>1. StashedWords \in [1 .. Written - Committed -> Data]
    BY <1>3 DEF StashedWords
  <2>2. StashedWords \in Seq(Data)
    BY <1>1, <2>1, SeqDef
  <2> QED BY <1>1, <2>1, <2>2, LenProperties
<1>6. \A i \in 1 .. Committed : CommittedWords[i] = memory[Slot(i - 1)]
  BY DEF CommittedWords
<1>7. \A i \in 1 .. Written - Committed : StashedWords[i] = memory[Slot(Committed + i - 1)]
  BY DEF StashedWords
<1> QED BY <1>4, <1>5, <1>6, <1>7

\* The committed words without the one that a read takes.
Rest(rd_en) == IF rd_en THEN Tail(CommittedWords) ELSE CommittedWords

\* The stash with the word that is written behind it.
Grown(en, word) == IF en THEN Append(StashedWords, word) ELSE StashedWords

\* What both of them are made of.
LEMMA PartsOfTheRing ==
    ASSUME DropTypeOK, RingInv, FilledInv,
           NEW en \in BOOLEAN, NEW rd_en \in BOOLEAN, NEW word \in Data, rd_en => ~OutWait
    PROVE  /\ Rest(rd_en) \in Seq(Data)
           /\ Len(Rest(rd_en)) = Committed - Taken(rd_en)
           /\ \A i \in 1 .. Committed - Taken(rd_en) :
                 Rest(rd_en)[i] = memory[Slot(i - 1 + Taken(rd_en))]
           /\ Grown(en, word) \in Seq(Data)
           /\ Len(Grown(en, word)) = Written - Committed + (IF en THEN 1 ELSE 0)
           /\ \A i \in 1 .. Written - Committed :
                 Grown(en, word)[i] = memory[Slot(Committed + i - 1)]
           /\ en => Grown(en, word)[Written - Committed + 1] = word
<1>1. /\ Committed \in Nat /\ Written \in Nat /\ Committed <= Written
      /\ rd_en => Committed > 0
  BY RingBounds, DepthAssumption DEF RingInv
<1>2. /\ CommittedWords \in Seq(Data)
      /\ Len(CommittedWords) = Committed
      /\ \A i \in 1 .. Committed : CommittedWords[i] = memory[Slot(i - 1)]
  BY WordsAreSequences
<1>3. /\ StashedWords \in Seq(Data)
      /\ Len(StashedWords) = Written - Committed
      /\ \A i \in 1 .. Written - Committed : StashedWords[i] = memory[Slot(Committed + i - 1)]
  BY WordsAreSequences
<1>4. /\ Rest(rd_en) \in Seq(Data)
      /\ Len(Rest(rd_en)) = Committed - Taken(rd_en)
      /\ \A i \in 1 .. Committed - Taken(rd_en) :
            Rest(rd_en)[i] = memory[Slot(i - 1 + Taken(rd_en))]
  <2>1. CASE rd_en
    <3>1. CommittedWords # <<>>
      BY <1>1, <1>2, <2>1
    <3>2. /\ Tail(CommittedWords) \in Seq(Data)
          /\ Len(Tail(CommittedWords)) = Committed - 1
          /\ \A i \in 1 .. Committed - 1 : Tail(CommittedWords)[i] = CommittedWords[i + 1]
      BY <1>2, <3>1, HeadTailProperties
    <3>3. \A i \in 1 .. Committed - 1 : i + 1 \in 1 .. Committed /\ i + 1 - 1 = i /\ i - 1 + 1 = i
      BY <1>1
    <3> QED BY <1>2, <2>1, <3>2, <3>3 DEF Rest, Taken
  <2>2. CASE ~rd_en
    <3>1. \A i \in 1 .. Committed : i - 1 + 0 = i - 1
      BY <1>1
    <3> QED BY <1>1, <1>2, <2>2, <3>1 DEF Rest, Taken
  <2> QED BY <2>1, <2>2
<1>5. /\ Grown(en, word) \in Seq(Data)
      /\ Len(Grown(en, word)) = Written - Committed + (IF en THEN 1 ELSE 0)
      /\ \A i \in 1 .. Written - Committed :
            Grown(en, word)[i] = memory[Slot(Committed + i - 1)]
      /\ en => Grown(en, word)[Written - Committed + 1] = word
  <2>1. CASE en
    BY <1>1, <1>3, <2>1, AppendProperties DEF Grown
  <2>2. CASE ~en
    BY <1>1, <1>3, <2>2 DEF Grown
  <2> QED BY <2>1, <2>2
<1> QED BY <1>4, <1>5

\* One edge, seen from the queue and the stash: a read takes the first committed word, a
\* write goes to the end of the stash, a commit moves the stash with it to the queue, a
\* discard drops it.
LEMMA CycleQueues ==
    ASSUME DropTypeOK, RingInv, FilledInv,
           NEW en \in BOOLEAN, NEW commit \in BOOLEAN, NEW discard \in BOOLEAN,
           NEW rd_en \in BOOLEAN, NEW word \in Data,
           en => ~InWait, rd_en => ~OutWait,
           ~(commit /\ discard), discard => ~ReaderWraps(rd_en),
           DropCycle(en, word, commit, discard, rd_en)
    PROVE  /\ rd_en => CommittedWords # <<>> /\ data' = Head(CommittedWords)
           /\ ~rd_en => data' = data
           /\ CommittedWords' = IF en /\ commit THEN Rest(rd_en) \o Grown(en, word) ELSE Rest(rd_en)
           /\ StashedWords' = IF discard \/ (en /\ commit) THEN <<>> ELSE Grown(en, word)
<1> DEFINE rest == Rest(rd_en)
           grown == Grown(en, word)
           t == Taken(rd_en)
           C == Committed
           W == Written
<1>1. /\ C \in Nat /\ W \in Nat /\ C <= W
      /\ rd_en => C > 0
      /\ Slot(0) = rd_ptr
  BY RingBounds, DepthAssumption DEF RingInv
<1>2. /\ FifoRead(rd_en) <=> rd_en
      /\ W' = (IF discard THEN C ELSE IF en THEN W + 1 ELSE W) - t
      /\ C' = (IF en /\ commit THEN W + 1 ELSE C) - t
  BY CycleDistances
<1>3. t \in {0, 1} /\ t <= C
  BY <1>1 DEF Taken
<1>4. DropTypeOK' /\ RingInv' /\ FilledInv'
  BY CycleTypes, CycleCounters, CycleFilled
<1>5. /\ CommittedWords \in Seq(Data)
      /\ Len(CommittedWords) = C
      /\ \A i \in 1 .. C : CommittedWords[i] = memory[Slot(i - 1)]
  BY WordsAreSequences
<1>6. (/\ CommittedWords \in Seq(Data)
       /\ Len(CommittedWords) = Committed
       /\ \A i \in 1 .. Committed : CommittedWords[i] = memory[Slot(i - 1)]
       /\ StashedWords \in Seq(Data)
       /\ Len(StashedWords) = Written - Committed
       /\ \A i \in 1 .. Written - Committed :
             StashedWords[i] = memory[Slot(Committed + i - 1)])'
  BY <1>4, WordsAreSequences, PTL
<1>7. /\ rest \in Seq(Data)
      /\ Len(rest) = C - t
      /\ \A i \in 1 .. C - t : rest[i] = memory[Slot(i - 1 + t)]
  BY PartsOfTheRing
<1>8. /\ grown \in Seq(Data)
      /\ Len(grown) = W - C + (IF en THEN 1 ELSE 0)
      /\ \A i \in 1 .. W - C : grown[i] = memory[Slot(C + i - 1)]
      /\ en => grown[W - C + 1] = word
  BY PartsOfTheRing
<1>9. \A i \in 0 .. W' - 1 :
         /\ i + t \in 0 .. W
         /\ i + t < W => memory'[Slot(i)'] = memory[Slot(i + t)]
         /\ ~(i + t < W) => en /\ memory'[Slot(i)'] = word
  BY CycleSlots
<1>10. rd_en => CommittedWords # <<>> /\ data' = Head(CommittedWords)
  <2>1. ASSUME rd_en
        PROVE  CommittedWords # <<>> /\ Head(CommittedWords) = memory[rd_ptr]
    <3>1. 1 \in 1 .. C /\ 1 - 1 = 0
      BY <1>1, <2>1
    <3>2. CommittedWords[1] = memory[Slot(0)]
      BY <1>5, <3>1
    <3> QED BY <1>1, <1>5, <3>1, <3>2
  <2> QED BY <1>2, <2>1 DEF DropCycle, NextData
<1>11. ~rd_en => data' = data
  BY <1>2 DEF DropCycle, NextData
<1> HIDE DEF rest, grown, t, C, W
<1>12. CASE en /\ commit
  <2> DEFINE after == rest \o grown
  <2>1. /\ after \in Seq(Data)
        /\ Len(after) = Len(rest) + Len(grown)
        /\ \A i \in 1 .. Len(rest) + Len(grown) :
              after[i] = IF i <= Len(rest) THEN rest[i] ELSE grown[i - Len(rest)]
    BY <1>7, <1>8, ConcatProperties
  <2> HIDE DEF after
  <2>2. Len(after) = W + 1 - t /\ C' = W + 1 - t /\ W' = W + 1 - t
    BY <1>1, <1>2, <1>3, <1>7, <1>8, <1>12, <2>1, SMTT(30)
  <2>3. ASSUME NEW i \in 1 .. W + 1 - t
        PROVE  CommittedWords'[i] = after[i]
    <3>1. /\ i - 1 \in 0 .. W' - 1 /\ i - 1 + t \in 0 .. W
          /\ i - 1 + t < W => memory'[Slot(i - 1)'] = memory[Slot(i - 1 + t)]
          /\ ~(i - 1 + t < W) => memory'[Slot(i - 1)'] = word
      BY <1>1, <1>3, <1>9, <2>2
    <3>2. CommittedWords'[i] = memory'[Slot(i - 1)']
      BY <1>6, <2>2 DEF C
    <3>3. CASE i <= C - t
      <4>1. i \in 1 .. C - t /\ i - 1 + t < W
        BY <1>1, <1>3, <3>3
      <4>2. after[i] = rest[i]
        BY <1>1, <1>3, <1>7, <2>1, <2>2, <3>3
      <4>3. rest[i] = memory[Slot(i - 1 + t)]
        BY <1>7, <4>1
      <4> QED BY <3>1, <3>2, <4>1, <4>2, <4>3
    <3>4. CASE ~(i <= C - t) /\ i - 1 + t < W
      <4>1. PICK k \in 1 .. W - C : k = i - (C - t) /\ C + k - 1 = i - 1 + t
        BY <1>1, <1>3, <3>4
      <4>2. after[i] = grown[k]
        BY <1>1, <1>3, <1>7, <2>1, <2>2, <3>4, <4>1
      <4>3. grown[k] = memory[Slot(i - 1 + t)]
        BY <1>8, <4>1
      <4> QED BY <3>1, <3>2, <3>4, <4>2, <4>3
    <3>5. CASE ~(i <= C - t) /\ ~(i - 1 + t < W)
      <4>1. i - (C - t) = W - C + 1
        BY <1>1, <1>3, <3>1, <3>5
      <4>2. after[i] = grown[i - (C - t)]
        BY <1>1, <1>3, <1>7, <2>1, <2>2, <3>5
      <4> QED BY <1>8, <1>12, <3>1, <3>2, <3>5, <4>1, <4>2
    <3> QED BY <3>3, <3>4, <3>5
  <2>4. CommittedWords' = after
    <3>1. CommittedWords' \in Seq(Data) /\ Len(CommittedWords') = Len(after)
      BY <1>6, <2>2 DEF C
    <3>2. \A i \in 1 .. Len(CommittedWords') : CommittedWords'[i] = after[i]
      BY <2>2, <2>3, <3>1
    <3> QED BY <2>1, <3>1, <3>2, SeqEqual, Zenon
  <2>5. StashedWords' = <<>>
    <3>1. Len(StashedWords') = 0 /\ StashedWords' \in Seq(Data)
      BY <1>1, <1>3, <1>6, <2>2 DEF C, W
    <3> QED BY <3>1, EmptySeq
  <2> QED BY <1>10, <1>11, <1>12, <2>4, <2>5 DEF after, rest, grown
<1>13. CASE ~(en /\ commit)
  <2>1. C' = C - t
    BY <1>2, <1>13
  <2>2. CommittedWords' = rest
    <3>1. CommittedWords' \in Seq(Data) /\ Len(CommittedWords') = Len(rest)
      BY <1>6, <1>7, <2>1 DEF C
    <3>2. ASSUME NEW i \in 1 .. C - t
          PROVE  CommittedWords'[i] = rest[i]
      <4>1. i - 1 \in 0 .. W' - 1 /\ i - 1 + t < W
        BY <1>1, <1>2, <1>3, <1>13
      <4>2. CommittedWords'[i] = memory'[Slot(i - 1)']
        BY <1>6, <2>1 DEF C
      <4> QED BY <1>7, <1>9, <4>1, <4>2
    <3>3. \A i \in 1 .. Len(CommittedWords') : CommittedWords'[i] = rest[i]
      BY <1>7, <3>1, <3>2
    <3> QED BY <1>7, <3>1, <3>3, SeqEqual, Zenon
  <2>3. discard => StashedWords' = <<>>
    <3>1. discard => Len(StashedWords') = 0 /\ StashedWords' \in Seq(Data)
      BY <1>1, <1>2, <1>3, <1>6, <2>1 DEF C, W
    <3> QED BY <3>1, EmptySeq
  <2>4. ASSUME ~discard
        PROVE  StashedWords' = grown
    <3>1. W' - C' = W - C + (IF en THEN 1 ELSE 0)
      BY <1>1, <1>2, <1>3, <2>1, <2>4
    <3>2. StashedWords' \in Seq(Data) /\ Len(StashedWords') = Len(grown)
      BY <1>6, <1>8, <3>1 DEF C, W
    <3>3. ASSUME NEW i \in 1 .. Len(grown)
          PROVE  StashedWords'[i] = grown[i]
      <4>1. PICK k \in 0 .. W' - 1 : k = C' + i - 1 /\ k + t = C + i - 1
        BY <1>1, <1>2, <1>3, <1>8, <2>1, <2>4
      <4>2. StashedWords'[i] = memory'[Slot(k)']
        <5>1. i \in 1 .. W' - C'
          BY <1>8, <3>1
        <5> QED BY <1>6, <4>1, <5>1 DEF C, W, Slot
      <4>3. /\ k + t < W => memory'[Slot(k)'] = memory[Slot(k + t)]
            /\ ~(k + t < W) => en /\ memory'[Slot(k)'] = word
        BY <1>9
      <4>4. CASE C + i - 1 < W
        <5>1. i \in 1 .. W - C
          BY <1>1, <1>8, <4>4
        <5> QED BY <1>8, <4>1, <4>2, <4>3, <4>4, <5>1
      <4>5. CASE ~(C + i - 1 < W)
        <5>1. en /\ i = W - C + 1
          BY <1>1, <1>8, <4>1, <4>3, <4>5
        <5> QED BY <1>8, <4>1, <4>2, <4>3, <4>5, <5>1
      <4> QED BY <4>4, <4>5
    <3>4. \A i \in 1 .. Len(StashedWords') : StashedWords'[i] = grown[i]
      BY <3>2, <3>3
    <3> QED BY <1>8, <3>2, <3>4, SeqEqual, Zenon
  <2> QED BY <1>10, <1>11, <1>13, <2>2, <2>3, <2>4 DEF rest, grown
<1> QED BY <1>12, <1>13

\* A word in front of a sequence is the one that is taken from the front.
LEMMA InFront ==
    ASSUME NEW d \in Data, NEW s \in Seq(Data)
    PROVE  /\ <<d>> \o s \in Seq(Data)
           /\ Len(<<d>> \o s) = Len(s) + 1
           /\ <<d>> \o s # <<>>
           /\ Head(<<d>> \o s) = d
           /\ Tail(<<d>> \o s) = s
<1> DEFINE ds == <<d>> \o s
<1>1. <<d>> \in Seq(Data) /\ Len(<<d>>) = 1 /\ <<d>>[1] = d /\ Len(s) \in Nat
  OBVIOUS
<1>2. /\ ds \in Seq(Data)
      /\ Len(ds) = 1 + Len(s)
      /\ \A i \in 1 .. 1 + Len(s) : ds[i] = IF i <= 1 THEN <<d>>[i] ELSE s[i - 1]
  BY <1>1, ConcatProperties
<1> HIDE DEF ds
<1>3. ds # <<>> /\ Head(ds) = d
  BY <1>1, <1>2
<1>4. Tail(ds) = s
  <2>1. /\ Tail(ds) \in Seq(Data)
        /\ Len(Tail(ds)) = Len(s)
        /\ \A i \in 1 .. Len(Tail(ds)) : Tail(ds)[i] = ds[i + 1]
    BY <1>1, <1>2, <1>3, HeadTailProperties
  <2>2. ASSUME NEW i \in 1 .. Len(Tail(ds))
        PROVE  Tail(ds)[i] = s[i]
    <3>1. i + 1 \in 1 .. 1 + Len(s) /\ ~(i + 1 <= 1) /\ i + 1 - 1 = i
      BY <1>1, <2>1
    <3>2. ds[i + 1] = s[i]
      BY <1>2, <3>1
    <3> QED BY <2>1, <3>2
  <2> QED BY <2>1, <2>2, SeqEqual
<1> QED BY <1>1, <1>2, <1>3, <1>4 DEF ds

\* The converse of it: what is taken from the front can be put back there.
LEMMA HeadInFrontOfTail ==
    ASSUME NEW s \in Seq(Data), s # <<>>
    PROVE  Head(s) \in Data /\ Tail(s) \in Seq(Data) /\ <<Head(s)>> \o Tail(s) = s
<1>1. Head(s) \in Data /\ Tail(s) \in Seq(Data) /\ Head(s) = s[1]
  BY HeadTailProperties
<1>2. 1 \in 1 .. Len(s) /\ Len(s) \in 1 .. Len(s)
  BY EmptySeq
<1>3. SubSeq(s, 1, Len(s)) = <<s[1]>> \o SubSeq(s, 1 + 1, Len(s))
  BY <1>2, SubSeqRecursiveFirst
<1> QED BY <1>1, <1>3, SubSeqFull, TailIsSubSeq

\* One edge, seen from the ports: the word taken at dataOut is the oldest of the queue, the word
\* accepted at dataIn goes to the end of the stash, and there was room for it.
LEMMA CycleContents ==
    ASSUME ~DISCARD_AT_WRAP, IInv,
           NEW vld \in BOOLEAN, NEW commit \in BOOLEAN, NEW discard \in BOOLEAN,
           NEW rd \in BOOLEAN, NEW word \in Data,
           ProducerMayDrive(commit, discard, rd),
           Cycle(vld, word, commit, discard, rd)
    PROVE  /\ out_vld => Contents # <<>> /\ Head(Contents) = data
           /\ FifoInEn(vld) => Len(Contents) + Len(StashedWords) < CAPACITY
           /\ Contents' = LET served == IF out_vld /\ rd THEN Tail(Contents) ELSE Contents
                          IN  IF FifoInEn(vld) /\ commit
                              THEN served \o Grown(FifoInEn(vld), word) ELSE served
           /\ StashedWords' = IF discard \/ (FifoInEn(vld) /\ commit) THEN <<>>
                              ELSE Grown(FifoInEn(vld), word)
<1> DEFINE en == FifoInEn(vld)
           rd_en == OutEn(rd)
           added == IF en /\ commit THEN Grown(en, word) ELSE <<>>
           Put(s) == IF en /\ commit THEN s \o Grown(en, word) ELSE s
<1>1. DropTypeOK /\ RingInv /\ FilledInv /\ out_vld \in BOOLEAN
  BY DEF IInv, TypeOK
<1>2. /\ en \in BOOLEAN /\ rd_en \in BOOLEAN
      /\ en => ~InWait
      /\ rd_en => ~OutWait
      /\ ~(commit /\ discard) /\ (discard => ~ReaderWraps(rd_en))
      /\ DropCycle(en, word, commit, discard, rd_en)
  BY <1>1 DEF DropTypeOK, FifoInEn, OutEn, InRd, InWait, OutWait, Cycle, ProducerMayDrive
<1>3. /\ rd_en => CommittedWords # <<>> /\ data' = Head(CommittedWords)
      /\ ~rd_en => data' = data
      /\ CommittedWords' = Put(Rest(rd_en))
      /\ StashedWords' = IF discard \/ (en /\ commit) THEN <<>> ELSE Grown(en, word)
  <2> HIDE DEF en, rd_en
  <2> QED BY <1>1, <1>2, CycleQueues
<1>4. /\ CommittedWords \in Seq(Data) /\ Len(CommittedWords) = Committed
      /\ StashedWords \in Seq(Data) /\ Len(StashedWords) = Written - Committed
      /\ Grown(en, word) \in Seq(Data)
      /\ Rest(rd_en) \in Seq(Data)
  <2> HIDE DEF en, rd_en
  <2>1. Grown(en, word) \in Seq(Data) /\ Rest(rd_en) \in Seq(Data)
    BY <1>1, <1>2, PartsOfTheRing
  <2> QED BY <1>1, <2>1, WordsAreSequences
<1>5. /\ Committed \in 0 .. DEPTH /\ Written \in 0 .. DEPTH
      /\ InWait <=> Written = DEPTH
      /\ OutWait <=> CommittedWords = <<>>
  <2>1. CommittedWords = <<>> <=> Len(CommittedWords) = 0
    BY <1>4, EmptySeq
  <2> QED BY <1>1, <1>4, <2>1, RingBounds
<1>6. rd_en <=> (rd \/ ~out_vld) /\ CommittedWords # <<>>
  BY <1>5 DEF OutEn
<1>7. out_vld' <=> IF rd \/ ~out_vld THEN CommittedWords # <<>> ELSE out_vld
  BY <1>5 DEF Cycle, NextOutVld
<1>8. out_vld => data \in Data
  BY DEF IInv
<1>9. \A d \in Data, s \in Seq(Data) : <<d>> \o Put(s) = Put(<<d>> \o s) /\ Put(s) \in Seq(Data)
  <2>1. ASSUME NEW d \in Data, NEW s \in Seq(Data)
        PROVE  /\ <<d>> \o (s \o Grown(en, word)) = (<<d>> \o s) \o Grown(en, word)
               /\ s \o Grown(en, word) \in Seq(Data)
    <3> DEFINE g == Grown(en, word)
    <3>1. <<d>> \in Seq(Data) /\ g \in Seq(Data)
      BY <1>4
    <3> HIDE DEF g
    <3>2. (<<d>> \o s) \o g = <<d>> \o (s \o g)
      BY <3>1, ConcatAssociative
    <3>3. s \o g \in Seq(Data)
      BY <3>1, ConcatProperties
    <3> QED BY <3>2, <3>3 DEF g
  <2> QED BY <2>1
<1>10. \A s \in Seq(Data) : <<>> \o s = s /\ Put(s) \in Seq(Data)
  <2> HIDE DEF en
  <2> QED BY <1>4, ConcatEmptySeq, ConcatProperties
<1> HIDE DEF en, rd_en, Put
<1>11. Contents = IF out_vld THEN <<data>> \o CommittedWords ELSE CommittedWords
  BY <1>4, <1>10 DEF Contents
<1>12. Contents' = IF out_vld' THEN <<data'>> \o Put(Rest(rd_en)) ELSE Put(Rest(rd_en))
  <2>1. Put(Rest(rd_en)) \in Seq(Data)
    BY <1>4, <1>10
  <2> QED BY <1>3, <1>10, <2>1 DEF Contents
<1>13. /\ Contents \in Seq(Data)
       /\ out_vld => Contents # <<>> /\ Head(Contents) = data /\ Tail(Contents) = CommittedWords
       /\ Len(Contents) <= Committed + 1
  <2>1. CASE out_vld
    BY <1>4, <1>8, <1>11, <2>1, InFront
  <2>2. CASE ~out_vld
    BY <1>4, <1>5, <1>11, <2>2
  <2> QED BY <2>1, <2>2
<1>14. en => Len(Contents) + Len(StashedWords) < CAPACITY
  <2>1. Len(Contents) \in Nat
    BY <1>13, LenProperties
  <2> QED BY <1>2, <1>4, <1>5, <1>13, <2>1, DepthAssumption DEF CAPACITY
<1>15. Contents' = Put(IF out_vld /\ rd THEN Tail(Contents) ELSE Contents)
  <2>1. CASE CommittedWords = <<>> /\ out_vld /\ ~rd
    <3>1. ~rd_en /\ out_vld' /\ data' = data /\ Rest(rd_en) = CommittedWords
      BY <1>3, <1>6, <1>7, <2>1 DEF Rest
    <3> QED BY <1>4, <1>8, <1>9, <1>11, <1>12, <2>1, <3>1
  <2>2. CASE CommittedWords # <<>> /\ out_vld /\ ~rd
    <3>1. ~rd_en /\ out_vld' /\ data' = data /\ Rest(rd_en) = CommittedWords
      BY <1>3, <1>6, <1>7, <2>2 DEF Rest
    <3> QED BY <1>4, <1>8, <1>9, <1>11, <1>12, <2>2, <3>1
  <2>3. CASE CommittedWords = <<>> /\ (~out_vld \/ rd)
    <3>1. ~rd_en /\ ~out_vld' /\ Rest(rd_en) = CommittedWords
      BY <1>6, <1>7, <2>3 DEF Rest
    <3>2. Contents' = Put(CommittedWords)
      BY <1>12, <3>1
    <3> QED BY <1>1, <1>11, <1>13, <2>3, <3>2
  <2>4. CASE CommittedWords # <<>> /\ (~out_vld \/ rd)
    <3>1. rd_en /\ out_vld' /\ data' = Head(CommittedWords) /\ Rest(rd_en) = Tail(CommittedWords)
      BY <1>3, <1>6, <1>7, <2>4 DEF Rest
    <3>2. Head(CommittedWords) \in Data /\ Tail(CommittedWords) \in Seq(Data)
          /\ <<Head(CommittedWords)>> \o Tail(CommittedWords) = CommittedWords
      BY <1>4, <2>4, HeadInFrontOfTail
    <3>3. Contents' = Put(CommittedWords)
      BY <1>9, <1>12, <3>1, <3>2
    <3> QED BY <1>1, <1>11, <1>13, <2>4, <3>3
  <2> QED BY <1>1, <2>1, <2>2, <2>3, <2>4
<1>16. QED
  BY <1>3, <1>13, <1>14, <1>15 DEF en, Put

---------------------------------------------------------------------------
(* Theorems *)

\* No pointer leaves the memory and no counter its range, and what is handed over at dataOut
\* is a word that was written, for every depth and counter width.
THEOREM TypeCorrectness ==
    ASSUME ~DISCARD_AT_WRAP
    PROVE  Spec => []TypeOK
<1>1. IInv => TypeOK
  BY DEF IInv
<1> QED BY <1>1, InitIInv, NextIInv, PTL DEF Spec

\* The committed end never passes the tentative one, the tentative one never laps the
\* reader, the counters count what the pointers enclose, and the input waits for a full
\* memory only.
THEOREM PointersStayInStep ==
    ASSUME ~DISCARD_AT_WRAP
    PROVE  Spec => []PointersAgree
<1>1. IInv => PointersAgree
  <2> SUFFICES ASSUME IInv
               PROVE  PointersAgree
    OBVIOUS
  <2>1. RingInv /\ DropTypeOK
    BY DEF IInv, TypeOK
  <2>2. Committed \in 0 .. DEPTH /\ Written \in 0 .. DEPTH /\ (InWait <=> Written = DEPTH)
    BY <2>1, RingBounds
  <2>3. WaitMeansFull
    BY <2>1, <2>2, DepthAssumption, CounterAssumption DEF WaitMeansFull, OutSizePort, Wrap, RingInv
  <2> QED BY <2>1, <2>2, <2>3 DEF PointersAgree, RingInv
<1> QED BY <1>1, InitIInv, NextIInv, PTL DEF Spec

\* An empty ring is an empty queue without a stash.
LEMMA EmptyRing ==
    ASSUME IInv, Committed = 0, Written = 0, ~out_vld
    PROVE  Contents = <<>> /\ StashedWords = <<>>
<1>1. /\ CommittedWords \in Seq(Data) /\ Len(CommittedWords) = 0
      /\ StashedWords \in Seq(Data) /\ Len(StashedWords) = 0
  BY WordsAreSequences DEF IInv, TypeOK
<1>2. CommittedWords = <<>> /\ StashedWords = <<>>
  BY <1>1, EmptySeq
<1> QED BY <1>2 DEF Contents

\* The FIFO with commit and discard implements the speculative queue, for every depth and every
\* set of words: no word reaches the consumer before its commit or after its discard, none is
\* lost, doubled or overtaken, whatever the combination of inputs in a clock.
THEOREM ImplementsSpeculativeQueue ==
    ASSUME ~DISCARD_AT_WRAP
    PROVE  Spec => QueueSpec
<1>1. Init => queue!Init
  <2> SUFFICES ASSUME Init PROVE queue!Init
    OBVIOUS
  <2>1. IInv
    BY InitIInv
  <2>2. Committed = 0 /\ Written = 0 /\ ~out_vld
    BY DEF Init, DropInit, Committed, Written, Distance
  <2>3. Contents = <<>> /\ StashedWords = <<>>
    BY <2>1, <2>2, EmptyRing
  <2>4. in_xfer = <<>> /\ out_xfer = <<>> /\ discarded = FALSE
    BY DEF Init, NoTransfer
  <2> QED BY <2>3, <2>4 DEF queue!Init, queue!NoTransfer
<1>2. IInv /\ IInv' /\ [Next]_vars => [queue!Next]_(queue!vars)
  <2> SUFFICES ASSUME IInv, IInv', Next PROVE queue!Next
    <3>1. UNCHANGED vars => UNCHANGED queue!vars
      BY DEF vars, dropVars, queue!vars, Contents, CommittedWords, StashedWords, Committed, Written,
             Distance, Slot
    <3> QED BY <3>1
  <2>1. CASE \E vld \in BOOLEAN, rd \in BOOLEAN, word \in Data : Reset(vld, word, rd)
    <3>1. /\ Committed' = 0 /\ Written' = 0 /\ ~out_vld'
          /\ in_xfer' = <<>> /\ out_xfer' = <<>> /\ discarded' = FALSE
      BY <2>1 DEF Reset, DropReset, Committed, Written, Distance, NoTransfer
    <3>2. (IInv /\ Committed = 0 /\ Written = 0 /\ ~out_vld
           => Contents = <<>> /\ StashedWords = <<>>)'
      BY EmptyRing, PTL
    <3>3. Contents' = <<>> /\ StashedWords' = <<>>
      BY <3>1, <3>2
    <3>4. queue!Clear
      BY <3>1, <3>3 DEF queue!Clear, queue!NoTransfer
    <3> QED BY <3>4 DEF queue!Next
  <2>2. ASSUME NEW vld \in BOOLEAN, NEW commit \in BOOLEAN, NEW discard \in BOOLEAN,
               NEW rd \in BOOLEAN, NEW word \in Data,
               ProducerMayDrive(commit, discard, rd),
               Cycle(vld, word, commit, discard, rd)
        PROVE  queue!Next
    <3> DEFINE en == FifoInEn(vld)
               taken == out_vld /\ rd
               in == IF en THEN <<word, commit>> ELSE <<>>
               out == IF taken THEN <<data>> ELSE <<>>
               served == IF taken THEN Tail(Contents) ELSE Contents
    <3>1. /\ out_vld => Contents # <<>> /\ Head(Contents) = data
          /\ en => Len(Contents) + Len(StashedWords) < CAPACITY
          /\ Contents' = IF en /\ commit THEN served \o Grown(en, word) ELSE served
          /\ StashedWords' = IF discard \/ (en /\ commit) THEN <<>> ELSE Grown(en, word)
      BY <2>2, CycleContents
    <3>2. in_xfer' = in /\ out_xfer' = out /\ discarded' = discard
      BY <2>2 DEF Cycle, FifoInEn, NoTransfer
    <3>3. ~(discard /\ commit) /\ (out_vld => data \in Data)
      BY <2>2 DEF ProducerMayDrive, IInv
    <3> HIDE DEF en
    <3>4. /\ in \in queue!InTransfers
          /\ out \in {queue!NoTransfer} \cup {<<d>> : d \in Data}
      BY <3>3 DEF queue!InTransfers, queue!NoTransfer
    <3>5. /\ in # queue!NoTransfer <=> en
          /\ out # queue!NoTransfer <=> taken
      BY DEF queue!NoTransfer
    <3>6. /\ queue!Served(out) = served
          /\ queue!Stashed(in) = Grown(en, word)
          /\ queue!Commits(in) <=> en /\ commit
      BY <3>5 DEF queue!Served, queue!Stashed, queue!Commits, Grown
    <3>7. out # queue!NoTransfer => Contents # <<>> /\ out = <<Head(Contents)>>
      BY <3>1, <3>5
    <3> HIDE DEF in, out, served
    <3>8. queue!Step(in, out, discard)
      BY <3>1, <3>2, <3>3, <3>5, <3>6, <3>7 DEF queue!Step
    <3> QED BY <3>4, <3>8 DEF queue!Next
  <2> QED BY <2>1, <2>2 DEF Next
<1>3. Spec => []IInv
  BY InitIInv, NextIInv, PTL DEF Spec
<1> QED BY <1>1, <1>2, <1>3, PTL DEF Spec, QueueSpec, queue!Spec
===========================================================================
