----------------------- MODULE HandshakedFifoProofs -----------------------
(***************************************************************************)
(* The handshaked FIFO, for every depth and every set of words: its type   *)
(* correctness, the agreement of its counters, the ready/valid rule at its *)
(* output, and that it implements the bounded queue.                       *)
(*                                                                         *)
(* The first part is about the ring of mem/fifo.py alone: the pointers,    *)
(* the flag `looped' and the two counters stay in step, and a clock edge   *)
(* changes the sequence of stored words the way a queue does, provided the *)
(* enables respect the wait signals.  The second part shows that those     *)
(* _connect_fifo_in and _connect_fifo_out give do, and adds the word in    *)
(* the output register.                                                    *)
(***************************************************************************)
EXTENDS HandshakedFifo, SequenceTheorems, TLAPS

---------------------------------------------------------------------------
(* The ring *)

\* The pointers are on the right side of each other and the counters count.
RingInv ==
    /\ looped => write_ptr <= read_ptr
    /\ ~looped => read_ptr <= write_ptr
    /\ size = Count
    /\ space = DEPTH - size

\* No slot between the pointers is unwritten.
FilledInv == \A i \in 0 .. Count - 1 : memory[Slot(i)] \in Data

FifoInv == FifoTypeOK /\ RingInv /\ FilledInv

\* Power-up establishes the invariant, unless INIT_DATA fills the whole memory.
LEMMA FifoInitInv ==
    ASSUME Len(INIT_DATA) <= MAX_DEPTH, FifoInit
    PROVE  FifoInv
<1> USE DepthAssumption, CounterAssumption, InitDataAssumption
<1>1. Len(INIT_DATA) \in Nat /\ \A i \in 1 .. Len(INIT_DATA) : INIT_DATA[i] \in Data
  OBVIOUS
<1>2. write_ptr = Len(INIT_DATA) /\ read_ptr = 0 /\ looped = FALSE
  <2>1. write_ptr = Len(INIT_DATA) /\ read_ptr = 0
    BY <1>1 DEF FifoInit, PowerUpWritePtr, MAX_DEPTH
  <2>2. looped = FALSE
    BY DEF FifoInit
  <2> QED BY <2>1, <2>2
<1>3. Count = Len(INIT_DATA)
  BY <1>1, <1>2 DEF Count
<1>4. FifoTypeOK
  BY <1>1, <1>2 DEF FifoInit, FifoTypeOK, Slots, MAX_DEPTH
<1>5. RingInv
  BY <1>1, <1>2, <1>3 DEF FifoInit, RingInv
<1>6. FilledInv
  BY <1>1, <1>2, <1>3 DEF FifoInit, FilledInv, Slot, Slots, MAX_DEPTH
<1> QED BY <1>4, <1>5, <1>6 DEF FifoInv

\* The shape of the ring: how many words there are and where they can be.
LEMMA CountBounds ==
    ASSUME FifoTypeOK, RingInv
    PROVE  /\ Count \in 0 .. DEPTH
           /\ WriteWait <=> Count = DEPTH
           /\ ReadWait <=> Count = 0
           /\ \A i \in 0 .. DEPTH - 1 : Slot(i) \in Slots
           /\ Slot(0) = read_ptr
           /\ Count < DEPTH => Slot(Count) = write_ptr
  BY DepthAssumption
     DEF FifoTypeOK, RingInv, Count, Slot, Slots, WriteWait, ReadWait, MAX_DEPTH

\* Different positions are different slots.
LEMMA SlotInjective ==
    ASSUME FifoTypeOK, NEW i \in 0 .. DEPTH - 1, NEW j \in 0 .. DEPTH - 1, i # j
    PROVE  Slot(i) # Slot(j)
  BY DepthAssumption DEF FifoTypeOK, Slot, Slots, MAX_DEPTH

\* One edge, seen from the number of stored words.
LEMMA CycleCount ==
    ASSUME FifoTypeOK, RingInv,
           NEW wr_en \in BOOLEAN, NEW rd_en \in BOOLEAN, NEW word,
           wr_en => ~WriteWait, rd_en => ~ReadWait,
           FifoCycle(wr_en, word, rd_en)
    PROVE  /\ FifoWrite(wr_en) <=> wr_en
           /\ FifoRead(rd_en) <=> rd_en
           /\ write_ptr' \in Slots /\ read_ptr' \in Slots /\ looped' \in BOOLEAN
           /\ looped' => write_ptr' <= read_ptr'
           /\ ~looped' => read_ptr' <= write_ptr'
           /\ Count' = Count + (IF wr_en THEN 1 ELSE 0) - (IF rd_en THEN 1 ELSE 0)
<1> USE DepthAssumption
<1>1. FifoWrite(wr_en) <=> wr_en
  BY DEF FifoWrite, WriteWait
<1>2. FifoRead(rd_en) <=> rd_en
  BY DEF FifoRead, ReadWait
<1>3. /\ write_ptr' = IF wr_en THEN NextPtr(write_ptr) ELSE write_ptr
      /\ read_ptr' = IF rd_en THEN NextPtr(read_ptr) ELSE read_ptr
  BY <1>1, <1>2 DEF FifoCycle, PointersCycle
<1>4. looped' = NextLooped(wr_en, rd_en)
  BY DEF FifoCycle, PointersCycle
<1>5. write_ptr' \in Slots /\ read_ptr' \in Slots
  BY <1>3 DEF NextPtr, FifoTypeOK, Slots, MAX_DEPTH
<1>6. looped' \in BOOLEAN
  BY <1>4 DEF NextLooped
<1>7. CASE wr_en /\ write_ptr = MAX_DEPTH
  <2>1. looped' = TRUE
    BY <1>4, <1>7 DEF NextLooped
  <2>2. looped = FALSE
    BY <1>7 DEF FifoTypeOK, RingInv, WriteWait, Slots, MAX_DEPTH
  <2>3. rd_en => read_ptr < MAX_DEPTH
    BY <1>7, <2>2 DEF FifoTypeOK, RingInv, ReadWait, Slots, MAX_DEPTH
  <2>4. write_ptr' = 0 /\ read_ptr' = IF rd_en THEN read_ptr + 1 ELSE read_ptr
    BY <1>3, <1>7, <2>3 DEF NextPtr, FifoTypeOK, Slots, MAX_DEPTH
  <2>5. Count = MAX_DEPTH - read_ptr /\ Count' = DEPTH - read_ptr'
    BY <1>7, <2>1, <2>2, <2>4 DEF Count, FifoTypeOK, Slots, MAX_DEPTH
  <2>6. (looped' => write_ptr' <= read_ptr') /\ (~looped' => read_ptr' <= write_ptr')
    BY <1>5, <2>1, <2>4 DEF Slots, MAX_DEPTH
  <2>7. Count' = Count + (IF wr_en THEN 1 ELSE 0) - (IF rd_en THEN 1 ELSE 0)
    BY <1>7, <2>4, <2>5 DEF FifoTypeOK, Slots, MAX_DEPTH
  <2> QED BY <1>1, <1>2, <1>5, <1>6, <2>6, <2>7
<1>8. CASE ~(wr_en /\ write_ptr = MAX_DEPTH) /\ rd_en /\ read_ptr = MAX_DEPTH
  <2>1. looped' = FALSE
    BY <1>4, <1>8 DEF NextLooped
  <2>2. looped = TRUE
    BY <1>8 DEF FifoTypeOK, RingInv, ReadWait, Slots, MAX_DEPTH
  <2>3. wr_en => write_ptr < MAX_DEPTH
    BY <1>8, <2>2 DEF FifoTypeOK, Slots, MAX_DEPTH
  <2>4. read_ptr' = 0 /\ write_ptr' = IF wr_en THEN write_ptr + 1 ELSE write_ptr
    BY <1>3, <1>8, <2>3 DEF NextPtr, FifoTypeOK, Slots, MAX_DEPTH
  <2>5. Count = write_ptr + 1 /\ Count' = write_ptr'
    BY <1>8, <2>1, <2>2, <2>4 DEF Count, FifoTypeOK, Slots, MAX_DEPTH
  <2>6. (looped' => write_ptr' <= read_ptr') /\ (~looped' => read_ptr' <= write_ptr')
    BY <1>5, <2>1, <2>4 DEF Slots, MAX_DEPTH
  <2>7. Count' = Count + (IF wr_en THEN 1 ELSE 0) - (IF rd_en THEN 1 ELSE 0)
    BY <1>8, <2>4, <2>5 DEF FifoTypeOK, Slots, MAX_DEPTH
  <2> QED BY <1>1, <1>2, <1>5, <1>6, <2>6, <2>7
<1>9. CASE ~(wr_en /\ write_ptr = MAX_DEPTH) /\ ~(rd_en /\ read_ptr = MAX_DEPTH)
  <2>1. looped' = looped
    BY <1>4, <1>9 DEF NextLooped, FifoTypeOK
  <2> QED
    BY <1>1, <1>2, <1>3, <1>5, <1>6, <1>9, <2>1
       DEF NextPtr, FifoTypeOK, RingInv, WriteWait, ReadWait, Count, Slots, MAX_DEPTH
<1> QED BY <1>7, <1>8, <1>9

\* How many words an edge takes from the front.
Taken(rd_en) == IF rd_en THEN 1 ELSE 0

\* One edge, seen from the memory: the word at a position after the edge is the word
\* that was Taken positions further back, or the one just written.
LEMMA CycleWords ==
    ASSUME FifoInv,
           NEW wr_en \in BOOLEAN, NEW rd_en \in BOOLEAN, NEW word \in Data,
           wr_en => ~WriteWait, rd_en => ~ReadWait,
           FifoCycle(wr_en, word, rd_en),
           NEW i \in 0 .. Count' - 1
    PROVE  /\ i + Taken(rd_en) < Count => memory'[Slot(i)'] = memory[Slot(i + Taken(rd_en))]
           /\ ~(i + Taken(rd_en) < Count) => wr_en /\ memory'[Slot(i)'] = word
<1> USE DepthAssumption
<1> DEFINE j == i + Taken(rd_en)
<1>1. FifoTypeOK /\ RingInv
  BY DEF FifoInv
<1>2. /\ Count \in 0 .. DEPTH
      /\ WriteWait <=> Count = DEPTH
      /\ ReadWait <=> Count = 0
      /\ \A k \in 0 .. DEPTH - 1 : Slot(k) \in Slots
      /\ Count < DEPTH => Slot(Count) = write_ptr
  BY <1>1, CountBounds
<1>3. /\ FifoWrite(wr_en) <=> wr_en
      /\ FifoRead(rd_en) <=> rd_en
      /\ Count' = Count + (IF wr_en THEN 1 ELSE 0) - (IF rd_en THEN 1 ELSE 0)
  BY <1>1, CycleCount
<1>4. j \in 0 .. DEPTH - 1 /\ j <= Count /\ (j = Count => wr_en)
  BY <1>2, <1>3 DEF Taken
<1>5. Slot(i)' = Slot(j)
  <2>1. read_ptr' = IF rd_en THEN NextPtr(read_ptr) ELSE read_ptr
    BY <1>3 DEF FifoCycle, PointersCycle
  <2> QED
    BY <1>1, <1>4, <2>1 DEF Taken, Slot, NextPtr, FifoTypeOK, Slots, MAX_DEPTH
<1>6. memory' = IF wr_en THEN [memory EXCEPT ![write_ptr] = word] ELSE memory
  BY <1>3 DEF FifoCycle, NextMemory
<1>7. CASE j < Count
  <2>1. wr_en => Slot(j) # write_ptr
    <3>1. wr_en => Count \in 0 .. DEPTH - 1
      BY <1>2
    <3> QED BY <1>1, <1>2, <1>4, <1>7, <3>1, SlotInjective
  <2> QED
    BY <1>1, <1>2, <1>4, <1>5, <1>6, <1>7, <2>1 DEF FifoTypeOK
<1>8. CASE ~(j < Count)
  <2>1. wr_en /\ j = Count /\ Slot(j) = write_ptr
    BY <1>2, <1>4, <1>8
  <2> QED
    BY <1>1, <1>5, <1>6, <1>8, <2>1 DEF FifoTypeOK
<1> QED BY <1>7, <1>8

\* A clock edge keeps the invariant.
LEMMA CycleInv ==
    ASSUME FifoInv,
           NEW wr_en \in BOOLEAN, NEW rd_en \in BOOLEAN, NEW word \in Data,
           wr_en => ~WriteWait, rd_en => ~ReadWait,
           FifoCycle(wr_en, word, rd_en)
    PROVE  FifoInv'
<1> USE DepthAssumption, CounterAssumption
<1>1. FifoTypeOK /\ RingInv /\ FilledInv
  BY DEF FifoInv
<1>2. /\ Count \in 0 .. DEPTH
      /\ WriteWait <=> Count = DEPTH
      /\ ReadWait <=> Count = 0
      /\ \A k \in 0 .. DEPTH - 1 : Slot(k) \in Slots
  BY <1>1, CountBounds
<1>3. /\ FifoWrite(wr_en) <=> wr_en
      /\ FifoRead(rd_en) <=> rd_en
      /\ write_ptr' \in Slots /\ read_ptr' \in Slots /\ looped' \in BOOLEAN
      /\ looped' => write_ptr' <= read_ptr'
      /\ ~looped' => read_ptr' <= write_ptr'
      /\ Count' = Count + (IF wr_en THEN 1 ELSE 0) - (IF rd_en THEN 1 ELSE 0)
  BY <1>1, CycleCount
<1>4. Count' \in 0 .. DEPTH
  BY <1>2, <1>3
<1>5. size = Count /\ space = DEPTH - Count
  BY <1>1 DEF RingInv
<1>6. size' = Count'
  <2>1. size' = IF wr_en <=> rd_en THEN size ELSE IF wr_en THEN Wrap(size + 1) ELSE Wrap(size - 1)
    BY <1>3 DEF FifoCycle, NextSize, FifoWrite, FifoRead
  <2> QED BY <1>2, <1>3, <1>4, <1>5, <2>1 DEF Wrap
<1>7. space' = DEPTH - Count'
  <2>1. space' = IF wr_en <=> rd_en THEN space ELSE IF wr_en THEN Wrap(space - 1) ELSE Wrap(space + 1)
    BY <1>3 DEF FifoCycle, NextSpace, FifoWrite, FifoRead
  <2> QED BY <1>2, <1>3, <1>4, <1>5, <2>1 DEF Wrap
<1>8. RingInv'
  BY <1>3, <1>6, <1>7 DEF RingInv
<1>9. memory' \in [Slots -> Data \cup {Undef}] /\ data' \in Data \cup {Undef}
  <2>1. memory' = IF wr_en THEN [memory EXCEPT ![write_ptr] = word] ELSE memory
    BY <1>3 DEF FifoCycle, NextMemory
  <2>2. data' = IF rd_en THEN memory[read_ptr] ELSE data
    BY <1>3 DEF FifoCycle, NextData
  <2> QED BY <1>1, <2>1, <2>2 DEF FifoTypeOK
<1>10. FifoTypeOK'
  BY <1>3, <1>4, <1>6, <1>7, <1>9 DEF FifoTypeOK
<1>11. FilledInv'
  <2>1. SUFFICES ASSUME NEW i \in 0 .. Count' - 1
                 PROVE  memory'[Slot(i)'] \in Data
    BY DEF FilledInv
  <2>2. /\ i + Taken(rd_en) < Count => memory'[Slot(i)'] = memory[Slot(i + Taken(rd_en))]
        /\ ~(i + Taken(rd_en) < Count) => wr_en /\ memory'[Slot(i)'] = word
    BY CycleWords
  <2>3. i + Taken(rd_en) \in Nat
    BY <1>4 DEF Taken
  <2> QED BY <1>1, <1>2, <2>2, <2>3 DEF FilledInv
<1> QED BY <1>8, <1>10, <1>11 DEF FifoInv

\* The stored words are a sequence of Count data words.
LEMMA StoredIsSeq ==
    FifoInv => /\ Stored \in Seq(Data)
               /\ Len(Stored) = Count
               /\ \A i \in 1 .. Count : Stored[i] = memory[Slot(i - 1)]
<1> SUFFICES ASSUME FifoInv
             PROVE  /\ Stored \in Seq(Data)
                    /\ Len(Stored) = Count
                    /\ \A i \in 1 .. Count : Stored[i] = memory[Slot(i - 1)]
  OBVIOUS
<1>1. Count \in Nat
  BY CountBounds, DepthAssumption DEF FifoInv
<1>2. \A i \in 1 .. Count : memory[Slot(i - 1)] \in Data
  BY <1>1 DEF FifoInv, FilledInv
<1>3. Stored \in [1 .. Count -> Data]
  BY <1>2 DEF Stored
<1>4. Stored \in Seq(Data)
  BY <1>1, <1>3, SeqDef
<1>5. Len(Stored) = Count
  BY <1>1, <1>3, <1>4, LenProperties
<1> QED BY <1>4, <1>5 DEF Stored

\* A clock edge writes at the end of the stored words and reads from their front.
LEMMA CycleStored ==
    ASSUME FifoInv,
           NEW wr_en \in BOOLEAN, NEW rd_en \in BOOLEAN, NEW word \in Data,
           wr_en => ~WriteWait, rd_en => ~ReadWait,
           FifoCycle(wr_en, word, rd_en)
    PROVE  /\ rd_en => Stored # <<>> /\ data' = Head(Stored)
           /\ ~rd_en => data' = data
           /\ Stored' = LET rest == IF rd_en THEN Tail(Stored) ELSE Stored
                        IN  IF wr_en THEN Append(rest, word) ELSE rest
<1> DEFINE rest == IF rd_en THEN Tail(Stored) ELSE Stored
           after == IF wr_en THEN Append(rest, word) ELSE rest
<1> USE DepthAssumption
<1>1. FifoInv'
  BY CycleInv
<1>2. /\ Stored \in Seq(Data)
      /\ Len(Stored) = Count
      /\ \A i \in 1 .. Count : Stored[i] = memory[Slot(i - 1)]
  BY StoredIsSeq
<1>3. (/\ Stored \in Seq(Data)
       /\ Len(Stored) = Count
       /\ \A i \in 1 .. Count : Stored[i] = memory[Slot(i - 1)])'
  BY <1>1, StoredIsSeq, PTL
<1>4. /\ Count \in Nat
      /\ rd_en => Count > 0
      /\ Slot(0) = read_ptr
  BY CountBounds DEF FifoInv
<1>5. /\ FifoRead(rd_en) <=> rd_en
      /\ Count' = Count + (IF wr_en THEN 1 ELSE 0) - (IF rd_en THEN 1 ELSE 0)
  BY CycleCount DEF FifoInv
<1>6. rd_en => Stored # <<>> /\ Stored[1] = memory[read_ptr]
  BY <1>2, <1>4
<1>7. rd_en => Stored # <<>> /\ data' = Head(Stored)
  BY <1>2, <1>5, <1>6 DEF FifoCycle, NextData
<1>8. ~rd_en => data' = data
  BY <1>5 DEF FifoCycle, NextData
<1>9. /\ rest \in Seq(Data)
      /\ Len(rest) = Count - Taken(rd_en)
      /\ \A i \in 1 .. Len(rest) : rest[i] = memory[Slot(i - 1 + Taken(rd_en))]
  <2>1. CASE rd_en
    <3>1. /\ Tail(Stored) \in Seq(Data)
          /\ Len(Tail(Stored)) = Count - 1
          /\ \A i \in 1 .. Len(Tail(Stored)) : Tail(Stored)[i] = Stored[i + 1]
      BY <1>2, <1>6, <2>1, HeadTailProperties
    <3>2. \A i \in 1 .. Count - 1 : Stored[i + 1] = memory[Slot(i)]
      <4>1. \A i \in 1 .. Count - 1 : i + 1 \in 1 .. Count /\ i + 1 - 1 = i
        BY <1>4
      <4> QED BY <1>2, <4>1
    <3>3. \A i \in 1 .. Count - 1 : i - 1 + Taken(rd_en) = i
      BY <1>4, <2>1 DEF Taken
    <3> QED BY <2>1, <3>1, <3>2, <3>3 DEF Taken
  <2>2. CASE ~rd_en
    <3>1. \A i \in 1 .. Count : i - 1 + Taken(rd_en) = i - 1
      BY <1>4, <2>2 DEF Taken
    <3> QED BY <1>2, <1>4, <2>2, <3>1 DEF Taken
  <2> QED BY <2>1, <2>2
<1>10. /\ after \in Seq(Data)
       /\ Len(after) = Count'
       /\ \A i \in 1 .. Len(rest) : after[i] = rest[i]
       /\ wr_en => after[Len(rest) + 1] = word
  <2>1. CASE wr_en
    BY <1>4, <1>5, <1>9, <2>1, AppendProperties DEF Taken
  <2>2. CASE ~wr_en
    BY <1>4, <1>5, <1>9, <2>2 DEF Taken
  <2> QED BY <2>1, <2>2
<1>11. ASSUME NEW i \in 1 .. Count'
       PROVE  Stored'[i] = after[i]
  <2>1. /\ i - 1 + Taken(rd_en) < Count => memory'[Slot(i - 1)'] = memory[Slot(i - 1 + Taken(rd_en))]
        /\ ~(i - 1 + Taken(rd_en) < Count) => wr_en /\ memory'[Slot(i - 1)'] = word
    <3>1. i - 1 \in 0 .. Count' - 1
      BY <1>4, <1>5
    <3> QED BY <3>1, CycleWords
  <2>2. CASE i - 1 + Taken(rd_en) < Count
    <3>1. i \in 1 .. Len(rest)
      BY <1>4, <1>9, <2>2 DEF Taken
    <3> QED BY <1>3, <1>9, <1>10, <2>1, <2>2, <3>1
  <2>3. CASE ~(i - 1 + Taken(rd_en) < Count)
    <3>1. wr_en /\ i = Len(rest) + 1
      BY <1>4, <1>5, <1>9, <2>1, <2>3 DEF Taken
    <3> QED BY <1>3, <1>10, <2>1, <2>3, <3>1
  <2> QED BY <2>2, <2>3
<1>12. Stored' = after
  <2> HIDE DEF after
  <2>1. Stored' \in Seq(Data) /\ after \in Seq(Data) /\ Len(Stored') = Len(after)
    BY <1>3, <1>10
  <2>2. \A i \in 1 .. Len(Stored') : Stored'[i] = after[i]
    BY <1>3, <1>11
  <2> QED BY <2>1, <2>2, SeqEqual, Zenon
<1> QED BY <1>7, <1>8, <1>12

---------------------------------------------------------------------------
(* The component *)

\* The reset restores the pointers but not the memory, so the slots INIT_DATA was
\* loaded to have to hold a word at any time.
PowerUpFilled == \A i \in 0 .. Len(INIT_DATA) - 1 : memory[i] \in Data

\* The inductive invariant: the ring's, and the output register holds a word whenever
\* out_vld says so.
IInv ==
    /\ TypeOK
    /\ FifoInv
    /\ PowerUpFilled
    /\ out_vld => data \in Data

---------------------------------------------------------------------------
(* The enables of the ring *)

\* The ring is never written when full nor read when empty.
LEMMA EnablesRespectWait ==
    ASSUME TypeOK, NEW vld \in BOOLEAN, NEW rd \in BOOLEAN
    PROVE  /\ FifoInEn(vld) \in BOOLEAN
           /\ OutEn(rd) \in BOOLEAN
           /\ FifoInEn(vld) => ~WriteWait
           /\ OutEn(rd) => ~ReadWait
  BY DEF TypeOK, FifoInEn, OutEn, InRd, WriteWait, ReadWait

\* A clock edge only ever stores data words, reset or not.
LEMMA MemoryKeepsWords ==
    ASSUME FifoTypeOK, NEW wr_en \in BOOLEAN, NEW word \in Data,
           memory' = NextMemory(wr_en, word)
    PROVE  /\ memory' \in [Slots -> Data \cup {Undef}]
           /\ PowerUpFilled => PowerUpFilled'
<1>1. memory' = memory \/ memory' = [memory EXCEPT ![write_ptr] = word]
  BY DEF NextMemory
<1> QED
  BY <1>1, InitDataAssumption, DepthAssumption
     DEF FifoTypeOK, PowerUpFilled, Slots, MAX_DEPTH

---------------------------------------------------------------------------
(* The invariant is inductive *)

LEMMA InitIInv ==
    ASSUME Len(INIT_DATA) <= MAX_DEPTH, Init
    PROVE  IInv
<1> USE InitDataAssumption, DepthAssumption
<1>1. FifoInv
  BY FifoInitInv DEF Init
<1>2. TypeOK
  BY <1>1 DEF Init, FifoInv, TypeOK
<1>3. PowerUpFilled
  <2>1. \A i \in 1 .. Len(INIT_DATA) : INIT_DATA[i] \in Data
    OBVIOUS
  <2> QED BY <2>1 DEF Init, FifoInit, PowerUpFilled, Slots, MAX_DEPTH
<1>4. out_vld => data \in Data
  BY DEF Init, FifoInit
<1> QED BY <1>1, <1>2, <1>3, <1>4 DEF IInv

LEMMA CycleIInv ==
    ASSUME IInv,
           NEW vld \in BOOLEAN, NEW rd \in BOOLEAN, NEW word \in Data,
           Cycle(vld, word, rd)
    PROVE  IInv'
<1> DEFINE wr_en == FifoInEn(vld)
           rd_en == OutEn(rd)
<1>1. TypeOK /\ FifoInv /\ FifoTypeOK
  BY DEF IInv, TypeOK
<1>2. /\ wr_en \in BOOLEAN /\ rd_en \in BOOLEAN
      /\ wr_en => ~WriteWait
      /\ rd_en => ~ReadWait
      /\ FifoCycle(wr_en, word, rd_en)
  BY <1>1, EnablesRespectWait DEF Cycle
<1> HIDE DEF wr_en, rd_en
<1>3. FifoInv'
  BY <1>1, <1>2, CycleInv
<1>4. /\ rd_en => Stored # <<>> /\ data' = Head(Stored)
      /\ ~rd_en => data' = data
  BY <1>1, <1>2, CycleStored
<1>5. data \in Data /\ ~rd_en => data' \in Data
  BY <1>4
<1>6. rd_en => data' \in Data
  BY <1>1, <1>4, StoredIsSeq, HeadTailProperties
<1>7. out_vld' => data' \in Data
  <2>1. out_vld' => rd_en \/ (out_vld /\ ~rd_en)
    BY <1>1 DEF Cycle, NextOutVld, rd_en, OutEn, TypeOK
  <2> QED BY <2>1, <1>5, <1>6 DEF IInv
<1>8. TypeOK'
  <2>1. out_vld' \in BOOLEAN /\ clk' \in BOOLEAN /\ rst' \in BOOLEAN
    BY <1>1 DEF Cycle, NextOutVld, ReadWait, TypeOK
  <2>2. in_xfer' \in {<<>>} \cup {<<d>> : d \in Data}
    BY DEF Cycle
  <2>3. out_xfer' \in {<<>>} \cup {<<d>> : d \in Data}
    BY DEF Cycle, IInv
  <2> QED BY <1>3, <2>1, <2>2, <2>3 DEF FifoInv, TypeOK
<1>9. PowerUpFilled'
  BY <1>1, <1>2, MemoryKeepsWords DEF FifoCycle, IInv
<1> QED BY <1>3, <1>7, <1>8, <1>9 DEF IInv

LEMMA ResetIInv ==
    ASSUME Len(INIT_DATA) <= MAX_DEPTH, IInv,
           NEW vld \in BOOLEAN, NEW rd \in BOOLEAN, NEW word \in Data,
           Reset(vld, word, rd)
    PROVE  IInv' /\ Count' = Len(INIT_DATA)
<1> USE InitDataAssumption, DepthAssumption, CounterAssumption
<1>1. TypeOK /\ FifoTypeOK /\ PowerUpFilled
  BY DEF IInv, TypeOK
<1>2. FifoInEn(vld) \in BOOLEAN /\ OutEn(rd) \in BOOLEAN
  BY <1>1, EnablesRespectWait
<1>3. memory' \in [Slots -> Data \cup {Undef}] /\ PowerUpFilled'
  BY <1>1, <1>2, MemoryKeepsWords DEF Reset, FifoReset
<1>4. /\ write_ptr' = Len(INIT_DATA) /\ read_ptr' = 0 /\ looped' = FALSE
      /\ size' = Len(INIT_DATA) /\ space' = DEPTH - Len(INIT_DATA)
  <2>1. Len(INIT_DATA) \in Nat
    OBVIOUS
  <2>2. write_ptr' = Len(INIT_DATA)
    BY <2>1 DEF Reset, FifoReset, PowerUpWritePtr, MAX_DEPTH
  <2>3. looped' = FALSE
    BY DEF Reset, FifoReset
  <2> QED BY <2>2, <2>3 DEF Reset, FifoReset
<1>5. Count' = Len(INIT_DATA)
  BY <1>4 DEF Count
<1>6. data' \in Data \cup {Undef}
  <2>1. NextData(OutEn(rd)) \in Data \cup {Undef}
    BY <1>1 DEF NextData, FifoTypeOK
  <2> QED BY <2>1 DEF Reset, FifoReset
<1>7. FifoTypeOK'
  BY <1>3, <1>4, <1>6 DEF FifoTypeOK, Slots, MAX_DEPTH
<1>8. RingInv'
  BY <1>4, <1>5 DEF RingInv
<1>9. FilledInv'
  BY <1>3, <1>4, <1>5 DEF FilledInv, PowerUpFilled, Slot, MAX_DEPTH
<1>10. TypeOK'
  BY <1>7 DEF TypeOK, Reset
<1>11. out_vld' => data' \in Data
  BY DEF Reset, FifoReset
<1> QED BY <1>3, <1>5, <1>7, <1>8, <1>9, <1>10, <1>11 DEF IInv, FifoInv

LEMMA NextIInv ==
    ASSUME Len(INIT_DATA) <= MAX_DEPTH, IInv, [Next]_vars
    PROVE  IInv'
<1>1. CASE Next
  <2>1. PICK vld \in BOOLEAN, rd \in BOOLEAN, word \in Data :
             Cycle(vld, word, rd) \/ Reset(vld, word, rd)
    BY <1>1 DEF Next
  <2>2. CASE Cycle(vld, word, rd)
    BY <2>2, CycleIInv
  <2>3. CASE Reset(vld, word, rd)
    BY <2>3, ResetIInv
  <2> QED BY <2>1, <2>2, <2>3
<1>2. CASE UNCHANGED vars
  BY <1>2 DEF vars, fifoVars, pointerVars, IInv, TypeOK, FifoInv, FifoTypeOK, RingInv, FilledInv,
              PowerUpFilled, Count, Slot
<1> QED BY <1>1, <1>2

---------------------------------------------------------------------------
(* The queue the registers stand for *)

\* Putting a word in front of a sequence.
LEMMA Cons ==
    ASSUME NEW d \in Data, NEW s \in Seq(Data)
    PROVE  /\ <<d>> \o s \in Seq(Data)
           /\ Len(<<d>> \o s) = Len(s) + 1
           /\ <<d>> \o s # <<>>
           /\ Head(<<d>> \o s) = d
           /\ Tail(<<d>> \o s) = s
           /\ \A e \in Data : <<d>> \o Append(s, e) = Append(<<d>> \o s, e)
<1> DEFINE ds == <<d>> \o s
<1>1. <<d>> \in Seq(Data) /\ Len(<<d>>) = 1 /\ <<d>>[1] = d
  OBVIOUS
<1>2. /\ ds \in Seq(Data)
      /\ Len(ds) = Len(s) + 1
      /\ \A i \in 1 .. Len(s) + 1 : ds[i] = IF i <= 1 THEN d ELSE s[i - 1]
  <2>1. /\ ds \in Seq(Data)
        /\ Len(ds) = Len(<<d>>) + Len(s)
        /\ \A i \in 1 .. Len(<<d>>) + Len(s) :
              ds[i] = IF i <= Len(<<d>>) THEN <<d>>[i] ELSE s[i - Len(<<d>>)]
    BY <1>1, ConcatProperties
  <2>2. Len(s) \in Nat /\ Len(<<d>>) + Len(s) = Len(s) + 1
    BY <1>1
  <2>3. ASSUME NEW i \in 1 .. Len(s) + 1
        PROVE  ds[i] = IF i <= 1 THEN d ELSE s[i - 1]
    <3>1. i \in 1 .. Len(<<d>>) + Len(s)
      BY <2>2
    <3>2. ds[i] = IF i <= Len(<<d>>) THEN <<d>>[i] ELSE s[i - Len(<<d>>)]
      BY <2>1, <3>1
    <3>3. i <= 1 => i = 1
      BY <2>2
    <3> QED BY <1>1, <3>2, <3>3
  <2> QED BY <2>1, <2>2, <2>3
<1>3. Len(s) \in Nat
  OBVIOUS
<1> HIDE DEF ds
<1>4. ds # <<>> /\ Head(ds) = d
  BY <1>2, <1>3
<1>5. Tail(ds) = s
  <2>1. /\ Tail(ds) \in Seq(Data)
        /\ Len(Tail(ds)) = Len(s)
        /\ \A i \in 1 .. Len(Tail(ds)) : Tail(ds)[i] = ds[i + 1]
    BY <1>2, <1>3, <1>4, HeadTailProperties
  <2>2. \A i \in 1 .. Len(s) : ds[i + 1] = s[i]
    <3>1. \A i \in 1 .. Len(s) : i + 1 \in 1 .. Len(s) + 1 /\ ~(i + 1 <= 1) /\ i + 1 - 1 = i
      BY <1>3
    <3> QED BY <1>2, <3>1
  <2> QED BY <2>1, <2>2, SeqEqual
<1>6. ASSUME NEW e \in Data
      PROVE  <<d>> \o Append(s, e) = Append(ds, e)
  <2>1. Append(s, e) = s \o <<e>> /\ Append(ds, e) = ds \o <<e>>
    BY <1>2, AppendIsConcat
  <2>2. <<e>> \in Seq(Data)
    OBVIOUS
  <2>3. (<<d>> \o s) \o <<e>> = <<d>> \o (s \o <<e>>)
    BY <1>1, <2>2, ConcatAssociative
  <2> QED BY <2>1, <2>3 DEF ds
<1> QED BY <1>2, <1>4, <1>5, <1>6 DEF ds

\* A sequence is its head in front of its tail.
LEMMA Uncons ==
    ASSUME NEW s \in Seq(Data), s # <<>>
    PROVE  Head(s) \in Data /\ Tail(s) \in Seq(Data) /\ <<Head(s)>> \o Tail(s) = s
<1>1. Head(s) \in Data /\ Tail(s) \in Seq(Data)
  BY HeadTailProperties
<1>2. s = <<s[1]>> \o SubSeq(s, 2, Len(s))
  <2>1. 1 \in 1 .. Len(s) /\ Len(s) \in 1 .. Len(s)
    BY EmptySeq
  <2>2. SubSeq(s, 1, Len(s)) = <<s[1]>> \o SubSeq(s, 1 + 1, Len(s))
    BY <2>1, SubSeqRecursiveFirst
  <2> QED BY <2>2, SubSeqFull
<1>3. Tail(s) = SubSeq(s, 2, Len(s))
  BY TailIsSubSeq
<1>4. Head(s) = s[1]
  OBVIOUS
<1> QED BY <1>1, <1>2, <1>3, <1>4

\* A clock edge appends the word accepted at dataIn and removes the word taken at
\* dataOut, which is the oldest one; words move from the ring to the output register
\* without changing the queue.
LEMMA CycleContents ==
    ASSUME IInv,
           NEW vld \in BOOLEAN, NEW rd \in BOOLEAN, NEW word \in Data,
           Cycle(vld, word, rd)
    PROVE  /\ Contents \in Seq(Data)
           /\ out_vld => Contents # <<>> /\ Head(Contents) = data
           /\ FifoInEn(vld) => Len(Contents) < CAPACITY
           /\ Contents' = LET rest == IF out_vld /\ rd THEN Tail(Contents) ELSE Contents
                          IN  IF FifoInEn(vld) THEN Append(rest, word) ELSE rest
<1> DEFINE wr_en == FifoInEn(vld)
           rd_en == OutEn(rd)
           Put(s) == IF wr_en THEN Append(s, word) ELSE s
           took == IF rd_en THEN Tail(Stored) ELSE Stored
<1>1. TypeOK /\ FifoInv /\ FifoTypeOK /\ RingInv /\ out_vld \in BOOLEAN
  BY DEF IInv, TypeOK, FifoInv
<1>2. /\ wr_en \in BOOLEAN /\ rd_en \in BOOLEAN
      /\ wr_en => ~WriteWait
      /\ rd_en => ~ReadWait
      /\ FifoCycle(wr_en, word, rd_en)
  BY <1>1, EnablesRespectWait DEF Cycle
<1>3. /\ rd_en => Stored # <<>> /\ data' = Head(Stored)
      /\ ~rd_en => data' = data
      /\ Stored' = Put(took)
  <2> HIDE DEF wr_en, rd_en
  <2> QED BY <1>1, <1>2, CycleStored
<1>4. /\ Stored \in Seq(Data)
      /\ Len(Stored) \in 0 .. DEPTH
      /\ Stored = <<>> <=> ReadWait
      /\ wr_en => Len(Stored) < DEPTH
  <2>1. Stored \in Seq(Data) /\ Len(Stored) = Count
    BY <1>1, StoredIsSeq
  <2>2. Count \in 0 .. DEPTH /\ (WriteWait <=> Count = DEPTH) /\ (ReadWait <=> Count = 0)
    BY <1>1, CountBounds
  <2>3. Stored = <<>> <=> Len(Stored) = 0
    BY <2>1, EmptySeq
  <2> QED BY <1>2, <2>1, <2>2, <2>3, DepthAssumption
<1>5. rd_en <=> (rd \/ ~out_vld) /\ Stored # <<>>
  BY <1>4 DEF OutEn
<1>6. out_vld' <=> IF rd \/ ~out_vld THEN Stored # <<>> ELSE out_vld
  BY <1>4 DEF Cycle, NextOutVld
<1>7. \A s \in Seq(Data) : Put(s) \in Seq(Data)
  BY AppendProperties
<1>8. \A d \in Data, s \in Seq(Data) : <<d>> \o Put(s) = Put(<<d>> \o s)
  BY Cons
<1>9. \A s \in Seq(Data) : <<>> \o s = s
  BY ConcatEmptySeq
<1>10. out_vld => data \in Data
  BY DEF IInv
<1> HIDE DEF wr_en, rd_en, Put
<1>11. Contents = IF out_vld THEN <<data>> \o Stored ELSE Stored
  BY <1>4, <1>9 DEF Contents
<1>12. Contents' = IF out_vld' THEN <<data'>> \o Put(took) ELSE Put(took)
  <2>1. took \in Seq(Data)
    BY <1>3, <1>4, HeadTailProperties
  <2>2. Stored' \in Seq(Data)
    BY <1>3, <1>7, <2>1
  <2> QED BY <1>3, <1>9, <2>2 DEF Contents
<1>13. /\ Contents \in Seq(Data)
       /\ out_vld => Contents # <<>> /\ Head(Contents) = data /\ Tail(Contents) = Stored
       /\ Len(Contents) <= Len(Stored) + 1
  <2>1. CASE out_vld
    BY <1>4, <1>10, <1>11, <2>1, Cons
  <2>2. CASE ~out_vld
    BY <1>4, <1>11, <2>2
  <2> QED BY <2>1, <2>2
<1>14. wr_en => Len(Contents) < CAPACITY
  <2>1. Len(Contents) \in Nat
    BY <1>13, LenProperties
  <2> QED BY <1>4, <1>13, <2>1, DepthAssumption DEF CAPACITY
<1>15. Contents' = Put(IF out_vld /\ rd THEN Tail(Contents) ELSE Contents)
  <2>1. CASE Stored = <<>> /\ out_vld /\ ~rd
    BY <1>3, <1>4, <1>5, <1>6, <1>8, <1>10, <1>11, <1>12, <2>1
  <2>2. CASE Stored = <<>> /\ (~out_vld \/ rd)
    <3>1. ~rd_en /\ ~out_vld'
      BY <1>5, <1>6, <2>2
    <3>2. Contents' = Put(Stored)
      BY <1>12, <3>1
    <3> QED BY <1>1, <1>11, <1>13, <2>2, <3>2
  <2>3. CASE Stored # <<>> /\ (~out_vld \/ rd)
    <3>1. rd_en /\ out_vld' /\ data' = Head(Stored)
      BY <1>3, <1>5, <1>6, <2>3
    <3>2. Head(Stored) \in Data /\ Tail(Stored) \in Seq(Data)
          /\ <<Head(Stored)>> \o Tail(Stored) = Stored
      BY <1>4, <2>3, Uncons
    <3>3. Contents' = Put(Stored)
      BY <1>8, <1>12, <3>1, <3>2
    <3> QED BY <1>1, <1>11, <1>13, <2>3, <3>3
  <2>4. CASE Stored # <<>> /\ out_vld /\ ~rd
    <3>1. ~rd_en /\ out_vld' /\ data' = data
      BY <1>3, <1>5, <1>6, <2>4
    <3>2. Contents' = Put(<<data>> \o Stored)
      BY <1>4, <1>8, <1>10, <1>12, <2>4, <3>1
    <3> QED BY <1>11, <2>4, <3>2
  <2> QED BY <1>1, <2>1, <2>2, <2>3, <2>4
<1> QED BY <1>13, <1>14, <1>15 DEF wr_en, Put

---------------------------------------------------------------------------
(* The theorems *)

\* The inductive invariant holds forever.
LEMMA IInvAlways ==
    ASSUME Len(INIT_DATA) <= MAX_DEPTH
    PROVE  Spec => []IInv
<1>1. Init => IInv
  BY InitIInv
<1>2. IInv /\ [Next]_vars => IInv'
  BY NextIInv
<1> QED BY <1>1, <1>2, PTL DEF Spec

\* Type correctness of the handshaked FIFO (handshaked/fifo.py over mem/fifo.py): no
\* pointer leaves the memory, no counter its width, and only data words cross the ports.
\* The hypothesis leaves out an INIT_DATA that fills the whole memory.
THEOREM TypeCorrectness ==
    ASSUME Len(INIT_DATA) <= MAX_DEPTH
    PROVE  Spec => []TypeOK
<1>1. IInv => TypeOK
  BY DEF IInv
<1> QED BY <1>1, IInvAlways, PTL

\* size_reg, space_reg and the pointers with `looped' never disagree, and the exported
\* size and space add up to the capacity in every reachable state.
THEOREM CountersAgree ==
    ASSUME Len(INIT_DATA) <= MAX_DEPTH
    PROVE  Spec => []CountsAgree
<1>1. IInv => CountsAgree
  <2> SUFFICES ASSUME IInv PROVE CountsAgree
    OBVIOUS
  <2>1. TypeOK /\ FifoTypeOK /\ RingInv /\ out_vld \in BOOLEAN
    BY DEF IInv, TypeOK, FifoInv
  <2>2. size = Count /\ Count \in 0 .. DEPTH /\ space = DEPTH - size
    BY <2>1, CountBounds DEF RingInv
  <2>3. OutSize + OutSpace = CAPACITY
    BY <2>1, <2>2, DepthAssumption DEF OutSize, OutSpace, CAPACITY
  <2> QED BY <2>1, <2>3 DEF RingInv, CountsAgree
<1> QED BY <1>1, IInvAlways, PTL

\* The ready/valid rule at dataOut: a word that is offered and not taken stays.
THEOREM OfferStability ==
    ASSUME Len(INIT_DATA) <= MAX_DEPTH
    PROVE  Spec => OfferIsStable
<1>1. ASSUME IInv, [Next]_vars
      PROVE  [out_vld /\ out_xfer' = <<>> /\ ~rst' => out_vld' /\ data' = data]_vars
  <2> SUFFICES ASSUME Next, out_vld, out_xfer' = <<>>, ~rst'
               PROVE  out_vld' /\ data' = data
    BY <1>1
  <2>1. PICK vld \in BOOLEAN, rd \in BOOLEAN, word \in Data : Cycle(vld, word, rd)
    BY DEF Next, Reset
  <2>2. ~rd
    BY <2>1 DEF Cycle
  <2>3. ~OutEn(rd)
    BY <2>2 DEF OutEn
  <2>4. data' = data
    BY <2>1, <2>3 DEF Cycle, FifoCycle, NextData, FifoRead
  <2> QED BY <2>1, <2>2, <2>4 DEF Cycle, NextOutVld
<1> QED BY <1>1, IInvAlways, PTL DEF Spec, OfferIsStable

\* The handshaked FIFO implements the bounded queue of its capacity: at every depth no
\* word is lost, repeated, reordered or overwritten between dataIn and dataOut.  With no
\* INIT_DATA, because a reset restores the pointers to words the memory no longer holds.
THEOREM ImplementsQueue ==
    ASSUME INIT_DATA = <<>>, FIRST_WORD = Undef
    PROVE  Spec => QueueSpec
<1> USE DepthAssumption
<1>1. Len(INIT_DATA) = 0 /\ Len(INIT_DATA) <= MAX_DEPTH
  BY DEF MAX_DEPTH
<1>2. Init => queue!Init
  <2> SUFFICES ASSUME Init PROVE queue!Init
    OBVIOUS
  <2>1. IInv /\ Count = 0
    <3>1. IInv
      BY <1>1, InitIInv
    <3>2. write_ptr = 0 /\ read_ptr = 0 /\ looped = FALSE
      <4>1. looped = FALSE
        BY <1>1 DEF Init, FifoInit
      <4> QED BY <1>1, <4>1 DEF Init, FifoInit, PowerUpWritePtr, MAX_DEPTH
    <3> QED BY <3>1, <3>2 DEF Count
  <2>2. Stored = <<>>
    BY <2>1, StoredIsSeq, EmptySeq DEF IInv
  <2>3. ~out_vld
    BY DEF Init
  <2>4. Contents = <<>>
    BY <2>2, <2>3 DEF Contents
  <2> QED BY <2>4 DEF Init, queue!Init, InitialWords
<1>3. IInv /\ [Next]_vars => [queue!Next]_(queue!vars)
  <2> SUFFICES ASSUME IInv, Next PROVE queue!Next
    <3>1. UNCHANGED vars => UNCHANGED queue!vars
      BY DEF vars, fifoVars, pointerVars, queue!vars, Contents, Stored, Count, Slot
    <3> QED BY <3>1
  <2>1. PICK vld \in BOOLEAN, rd \in BOOLEAN, word \in Data :
             Cycle(vld, word, rd) \/ Reset(vld, word, rd)
    BY DEF Next
  <2>2. CASE Reset(vld, word, rd)
    <3>1. IInv' /\ Count' = 0
      BY <1>1, <2>2, ResetIInv
    <3>2. Stored' = <<>>
      <4>1. (FifoInv => /\ Stored \in Seq(Data)
                        /\ Len(Stored) = Count
                        /\ \A i \in 1 .. Count : Stored[i] = memory[Slot(i - 1)])'
        BY StoredIsSeq, PTL
      <4> QED BY <3>1, <4>1, EmptySeq DEF IInv
    <3>3. ~out_vld'
      BY <2>2 DEF Reset
    <3>4. Contents' = <<>>
      BY <3>2, <3>3 DEF Contents
    <3>5. queue!Clear
      BY <2>2, <3>4 DEF Reset, queue!Clear
    <3> QED BY <3>5 DEF queue!Next
  <2>3. CASE Cycle(vld, word, rd)
    <3> DEFINE in == FifoInEn(vld)
               out == out_vld /\ rd
    <3>1. /\ out_vld => Contents # <<>> /\ Head(Contents) = data
          /\ in => Len(Contents) < CAPACITY
          /\ Contents' = LET rest == IF out THEN Tail(Contents) ELSE Contents
                         IN  IF in THEN Append(rest, word) ELSE rest
      BY <2>3, CycleContents
    <3>2. /\ in_xfer' = IF in THEN <<word>> ELSE <<>>
          /\ out_xfer' = IF out THEN <<data>> ELSE <<>>
      BY <2>3 DEF Cycle, FifoInEn
    <3> HIDE DEF in
    <3>3. CASE in /\ out
      <4>1. queue!Pass(word)
        BY <3>1, <3>2, <3>3 DEF queue!Pass
      <4> QED BY <4>1 DEF queue!Next
    <3>4. CASE in /\ ~out
      <4>1. queue!Enqueue(word)
        BY <3>1, <3>2, <3>4 DEF queue!Enqueue
      <4> QED BY <4>1 DEF queue!Next
    <3>5. CASE ~in /\ out
      <4>1. queue!Dequeue
        BY <3>1, <3>2, <3>5 DEF queue!Dequeue
      <4> QED BY <4>1 DEF queue!Next
    <3>6. CASE ~in /\ ~out
      <4>1. queue!Idle
        BY <3>1, <3>2, <3>6 DEF queue!Idle
      <4> QED BY <4>1 DEF queue!Next
    <3> QED BY <3>3, <3>4, <3>5, <3>6
  <2> QED BY <2>1, <2>2, <2>3
<1>4. Spec => []IInv
  BY <1>1, IInvAlways
<1> QED BY <1>2, <1>3, <1>4, PTL DEF Spec, QueueSpec, queue!Spec
===========================================================================
