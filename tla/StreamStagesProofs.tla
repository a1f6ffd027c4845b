----------------------- MODULE StreamStagesProofs -----------------------
(***************************************************************************)
(* Proofs about the components of MCStreamStages, each of any size.        *)
(***************************************************************************)
EXTENDS MCStreamStages, StreamNode, FiniteSetTheorems, SequenceTheorems, NaturalsInduction,
        WellFoundedInduction, TLAPS

---------------------------------------------------------------------------
(* StreamNode, for any set of interfaces *)

\* ack tells the truth when it is high: every interface that is not skipped transfers.
\* (When it is low an interface may still transfer.)
THEOREM AckTransfersAll ==
    ASSUME NEW node, Ack(node)
    PROVE  Transfers(node, TRUE) = {i \in DOMAIN node : ~node[i].skip}
<1>1. ASSUME NEW i \in DOMAIN node, ~node[i].skip
      PROVE  i \in Transfers(node, TRUE)
  <2>1. node[i].up /\ node[i].extra
    BY <1>1 DEF Ack
  <2>2. \A j \in DOMAIN node \ {i} : ~InTheWay(node, j)
    BY DEF Ack, InTheWay
  <2> QED
    BY <1>1, <2>1, <2>2 DEF Transfers, Answer
<1>2. ASSUME NEW i \in Transfers(node, TRUE)
      PROVE  i \in DOMAIN node /\ ~node[i].skip
  BY <1>2 DEF Transfers, Answer
<1> QED
  BY <1>1, <1>2

\* Without extraConds and skipWhen the interfaces of a node transfer together or not at
\* all, which is what its users rely on.
THEOREM AllOrNothing ==
    ASSUME NEW node, NEW en \in BOOLEAN,
           \A i \in DOMAIN node : node[i].extra /\ ~node[i].skip
    PROVE  Transfers(node, en) = {} \/ Transfers(node, en) = DOMAIN node
<1> SUFFICES ASSUME NEW i \in Transfers(node, en)
             PROVE  Transfers(node, en) = DOMAIN node
  OBVIOUS
<1>1. en /\ i \in DOMAIN node /\ node[i].up
  BY DEF Transfers
<1>2. \A j \in DOMAIN node \ {i} : node[j].up
  BY DEF Transfers, Answer, InTheWay
<1>3. \A j \in DOMAIN node : Answer(node, j)
  BY <1>1, <1>2 DEF Answer, InTheWay
<1> QED
  BY <1>1, <1>2, <1>3 DEF Transfers

---------------------------------------------------------------------------
(* AxiReadAggregator *)

IdsOf(words) == {r.id : r \in words}
Waits(w_vld, w_id) == {w_id[p] : p \in w_vld}

\* A read is on its way from the memory, or shown, or waits for one other of its line; and
\* no line is read twice.
InOnePlace(vld, loads, shown, w_vld, w_id, line) ==
    /\ vld = IdsOf(loads) \cup IdsOf(shown) \cup Waits(w_vld, w_id)
    /\ IdsOf(loads) \cap IdsOf(shown) = {}
    /\ (IdsOf(loads) \cup IdsOf(shown)) \cap Waits(w_vld, w_id) = {}
    /\ \A q, r \in loads : q.id = r.id \/ q.line = r.line => q = r
    /\ \A f, g \in shown : f = g
    /\ \A r \in loads \cup shown : r.line = line[r.id]
    /\ w_vld \subseteq vld
    /\ \A p, q \in w_vld : w_id[p] = w_id[q] => p = q
    /\ \A p \in w_vld : line[p] = line[w_id[p]]

ShownNow == {frame_buff[i] : i \in 1 .. Len(frame_buff)}

ReadRequests == [id : ReadIds, line : LsuLines, cam : SUBSET ReadIds]
ReadWords == [id : ReadIds, line : LsuLines]

ReadTypeOK ==
    /\ s_ar_tmp \in {<<>>} \cup {<<s>> : s \in ReadRequests}
    /\ frame_buff \in {<<>>} \cup {<<f>> : f \in ReadWords}
    /\ loading \subseteq ReadWords
    /\ last_cam_insert_match \subseteq ReadIds
    /\ item_vld \subseteq ReadIds
    /\ waiting_transaction_id \in [ReadIds -> ReadIds]
    /\ addr_cam \in [ReadIds -> LsuLines]
    /\ asked_line \in [ReadIds -> LsuLines]

\* The matches of a request are the reads of its line, all that nothing waits for among them.
MatchesAreExact(s, last) ==
    /\ s.id \notin item_vld
    /\ asked_line[s.id] = s.line
    /\ \A i \in item_vld \cap (s.cam \cup last) : asked_line[i] = s.line
    /\ \A i \in item_vld \ waiting_transaction_vld :
           asked_line[i] = s.line => i \in s.cam \cup last

ReadInv ==
    /\ ReadTypeOK
    /\ InOnePlace(item_vld, loading, ShownNow, waiting_transaction_vld, waiting_transaction_id,
                  asked_line)
    /\ \A i \in item_vld : addr_cam[i] = asked_line[i]
    /\ \A s \in ReadRequests : s_ar_tmp = <<s>> => MatchesAreExact(s, last_cam_insert_match)

\* A read of a line that none reads is sent to the memory.
LEMMA LoadIsAdded ==
    ASSUME NEW vld, NEW loads, NEW shown, NEW w_vld, NEW w_id, NEW line,
           InOnePlace(vld, loads, shown, w_vld, w_id, line),
           NEW i, i \notin vld, \A r \in loads : r.line # line[i]
    PROVE  InOnePlace(vld \cup {i}, loads \cup {[id |-> i, line |-> line[i]]}, shown, w_vld, w_id,
                      line)
<1> DEFINE new == [id |-> i, line |-> line[i]]
<1>1. new.id = i /\ new.line = line[i]
  OBVIOUS
<1> HIDE DEF new
<1>2. IdsOf(loads \cup {new}) = IdsOf(loads) \cup {i}
  BY <1>1 DEF IdsOf
<1>3. \A r \in loads : r.id \in vld
  BY DEF InOnePlace, IdsOf
<1>4. InOnePlace(vld \cup {i}, loads \cup {new}, shown, w_vld, w_id, line)
  <2>1. i \notin IdsOf(shown) \cup Waits(w_vld, w_id) \cup IdsOf(loads)
    BY DEF InOnePlace
  <2>2. /\ vld \cup {i} = IdsOf(loads \cup {new}) \cup IdsOf(shown) \cup Waits(w_vld, w_id)
        /\ IdsOf(loads \cup {new}) \cap IdsOf(shown) = {}
        /\ (IdsOf(loads \cup {new}) \cup IdsOf(shown)) \cap Waits(w_vld, w_id) = {}
    BY <1>2, <2>1 DEF InOnePlace
  <2>3. \A q, r \in loads \cup {new} : q.id = r.id \/ q.line = r.line => q = r
    BY <1>1, <1>3 DEF InOnePlace
  <2>4. \A r \in (loads \cup {new}) \cup shown : r.line = line[r.id]
    BY <1>1 DEF InOnePlace
  <2> QED
    BY <2>2, <2>3, <2>4 DEF InOnePlace
<1> QED
  BY <1>4 DEF new

\* A read waits for another of its line that nothing waits for.
LEMMA WaiterIsAdded ==
    ASSUME NEW vld, NEW loads, NEW shown, NEW w_vld, NEW w_id, NEW line, NEW S,
           w_id \in [S -> S], vld \subseteq S,
           InOnePlace(vld, loads, shown, w_vld, w_id, line),
           NEW i \in S \ vld, NEW p \in vld \ w_vld, line[p] = line[i]
    PROVE  InOnePlace(vld \cup {i}, loads, shown, w_vld \cup {p}, [w_id EXCEPT ![p] = i], line)
<1> DEFINE w_id2 == [w_id EXCEPT ![p] = i]
<1>1. w_id2[p] = i /\ \A q \in w_vld : w_id2[q] = w_id[q]
  BY DEF InOnePlace
<1> HIDE DEF w_id2
<1>2. Waits(w_vld \cup {p}, w_id2) = Waits(w_vld, w_id) \cup {i}
  BY <1>1 DEF Waits
<1>3. \A q \in w_vld : w_id[q] \in vld
  BY DEF InOnePlace, Waits
<1>4. InOnePlace(vld \cup {i}, loads, shown, w_vld \cup {p}, w_id2, line)
  <2>1. \A q, r \in w_vld \cup {p} : w_id2[q] = w_id2[r] => q = r
    BY <1>1, <1>3 DEF InOnePlace
  <2>2. \A q \in w_vld \cup {p} : line[q] = line[w_id2[q]]
    BY <1>1 DEF InOnePlace
  <2>3. i \notin IdsOf(shown) \cup Waits(w_vld, w_id) \cup IdsOf(loads)
    BY DEF InOnePlace
  <2>4. /\ vld \cup {i} = IdsOf(loads) \cup IdsOf(shown) \cup Waits(w_vld \cup {p}, w_id2)
        /\ (IdsOf(loads) \cup IdsOf(shown)) \cap Waits(w_vld \cup {p}, w_id2) = {}
    <3>1. /\ vld = IdsOf(loads) \cup IdsOf(shown) \cup Waits(w_vld, w_id)
          /\ (IdsOf(loads) \cup IdsOf(shown)) \cap Waits(w_vld, w_id) = {}
      BY DEF InOnePlace
    <3> QED
      BY <1>2, <2>3, <3>1
  <2>5. w_vld \cup {p} \subseteq vld \cup {i}
    BY DEF InOnePlace
  <2>6. /\ IdsOf(loads) \cap IdsOf(shown) = {}
        /\ \A q, r \in loads : q.id = r.id \/ q.line = r.line => q = r
        /\ \A f, g \in shown : f = g
        /\ \A r \in loads \cup shown : r.line = line[r.id]
    BY DEF InOnePlace
  <2> HIDE <1>1, <1>2
  <2> QED
    BY <2>1, <2>2, <2>4, <2>5, <2>6, Zenon DEF InOnePlace
<1> QED
  BY <1>4 DEF w_id2

\* The word that is shown is shown again for the read that waits for it.
LEMMA WaiterIsServed ==
    ASSUME NEW vld, NEW loads, NEW w_vld, NEW w_id, NEW line, NEW f,
           InOnePlace(vld, loads, {f}, w_vld, w_id, line), f.id \in w_vld,
           NEW g, g.id = w_id[f.id], g.line = f.line
    PROVE  InOnePlace(vld \ {f.id}, loads, {g}, w_vld \ {f.id}, w_id, line)
<1>1. IdsOf({f}) = {f.id} /\ IdsOf({g}) = {g.id}
  BY DEF IdsOf
<1>2. g.id \in Waits(w_vld, w_id)
  BY DEF Waits
<1>3. Waits(w_vld \ {f.id}, w_id) = Waits(w_vld, w_id) \ {g.id}
  BY DEF Waits, InOnePlace
<1>4. g.line = line[g.id]
  BY DEF InOnePlace
<1>5. /\ vld \ {f.id} = IdsOf(loads) \cup IdsOf({g}) \cup Waits(w_vld \ {f.id}, w_id)
      /\ IdsOf(loads) \cap IdsOf({g}) = {}
      /\ (IdsOf(loads) \cup IdsOf({g})) \cap Waits(w_vld \ {f.id}, w_id) = {}
  <2>1. vld = IdsOf(loads) \cup {f.id} \cup Waits(w_vld, w_id)
    BY <1>1 DEF InOnePlace
  <2>2. f.id \notin IdsOf(loads) \cup Waits(w_vld, w_id) /\ IdsOf(loads) \cap Waits(w_vld, w_id) = {}
    BY <1>1 DEF InOnePlace
  <2> QED
    BY <1>1, <1>2, <1>3, <2>1, <2>2
<1>6. \A r \in loads \cup {g} : r.line = line[r.id]
  BY <1>4 DEF InOnePlace
<1> QED
  BY <1>5, <1>6 DEF InOnePlace

\* The word that was shown, if any, has left, and the memory answers, or does not.
LEMMA WordIsShown ==
    ASSUME NEW vld, NEW loads, NEW shown, NEW w_vld, NEW w_id, NEW line,
           InOnePlace(vld, loads, shown, w_vld, w_id, line), IdsOf(shown) \cap w_vld = {},
           NEW answer \in SUBSET loads, \A f, g \in answer : f = g
    PROVE  InOnePlace(vld \ IdsOf(shown), loads \ answer, answer, w_vld, w_id, line)
<1>1. IdsOf(loads \ answer) = IdsOf(loads) \ IdsOf(answer)
  BY DEF IdsOf, InOnePlace
<1>2. IdsOf(answer) \subseteq IdsOf(loads)
  BY DEF IdsOf
<1>3. vld \ IdsOf(shown) = IdsOf(loads \ answer) \cup IdsOf(answer) \cup Waits(w_vld, w_id)
  BY <1>1, <1>2 DEF InOnePlace
<1> QED
  BY <1>1, <1>2, <1>3 DEF InOnePlace

\* IdsOf that are free are used for reads of other lines.
LEMMA LinesOfOthers ==
    ASSUME NEW vld, NEW loads, NEW shown, NEW w_vld, NEW w_id, NEW line,
           InOnePlace(vld, loads, shown, w_vld, w_id, line),
           NEW line2, \A i \in vld : line2[i] = line[i]
    PROVE  InOnePlace(vld, loads, shown, w_vld, w_id, line2)
<1>1. \A r \in loads \cup shown : r.id \in vld
  BY DEF InOnePlace, IdsOf
<1>2. \A p \in w_vld : p \in vld /\ w_id[p] \in vld
  BY DEF InOnePlace, Waits
<1> QED
  BY <1>1, <1>2 DEF InOnePlace

\* While a line is read there is a read of it that nothing waits for: as many reads wait as are
\* waited for, and the one that is under way does not wait.
LEMMA SomeoneIsLast ==
    ASSUME NEW vld, NEW loads, NEW shown, NEW w_vld, NEW w_id, NEW line,
           InOnePlace(vld, loads, shown, w_vld, w_id, line), IsFiniteSet(vld),
           NEW r \in loads
    PROVE  \E i \in vld \ w_vld : line[i] = r.line
<1> DEFINE group == {i \in vld : line[i] = r.line}
           next == [i \in group |-> w_id[i]]
<1>1. r.id \in group
  BY DEF InOnePlace, IdsOf
<1>2. ASSUME group \subseteq w_vld
      PROVE  FALSE
  <2>1. next \in Injection(group, group)
    <3>1. \A i \in group : w_id[i] \in group
      BY <1>2 DEF InOnePlace, Waits
    <3>2. \A i, j \in group : w_id[i] = w_id[j] => i = j
      BY <1>2 DEF InOnePlace
    <3> QED
      BY <3>1, <3>2 DEF Injection, IsInjective
  <2>2. IsFiniteSet(group)
    BY FS_Subset
  <2> HIDE DEF group
  <2>3. next \in Surjection(group, group)
    BY <2>1, <2>2, FS_Injection
  <2>4. PICK i \in group : w_id[i] = r.id
    BY <1>1, <2>3 DEF Surjection
  <2>5. r.id \in Waits(w_vld, w_id) /\ r.id \in IdsOf(loads)
    BY <2>4, <1>2 DEF Waits, IdsOf
  <2> QED
    BY <2>5 DEF InOnePlace
<1> QED
  BY <1>2

\* What the request in s_ar_tmp does when it leaves.
Shares(m_ar_rd) == ArAck(m_ar_rd) /\ MatchRes # {}
Started(m_ar_rd) == IfSet(ArAck(m_ar_rd), s_ar_tmp[1].id)
Parent(m_ar_rd) == IfSet(Shares(m_ar_rd), ParentTransactionId)
Sent(m_ar_rd) ==
    IfSet(ArAck(m_ar_rd) /\ ~Shares(m_ar_rd), [id |-> s_ar_tmp[1].id, line |-> s_ar_tmp[1].line])
WaitingIds(m_ar_rd) ==
    IF Shares(m_ar_rd)
    THEN [waiting_transaction_id EXCEPT ![ParentTransactionId] = s_ar_tmp[1].id]
    ELSE waiting_transaction_id

LEMMA MatchesAreReads ==
    ASSUME NEW s, s_ar_tmp = <<s>>
    PROVE  MatchRes = (item_vld \cap (s.cam \cup last_cam_insert_match)) \ waiting_transaction_vld
  BY DEF MatchRes

LEMMA RequestMoves ==
    ASSUME ReadInv, NEW m_ar_rd \in BOOLEAN
    PROVE  InOnePlace(item_vld \cup Started(m_ar_rd), loading \cup Sent(m_ar_rd), ShownNow,
                      waiting_transaction_vld \cup Parent(m_ar_rd), WaitingIds(m_ar_rd), asked_line)
<1>0. InOnePlace(item_vld, loading, ShownNow, waiting_transaction_vld, waiting_transaction_id,
                 asked_line)
  BY DEF ReadInv
<1>1. CASE ~ArAck(m_ar_rd)
  <2>1. /\ Started(m_ar_rd) = {} /\ Sent(m_ar_rd) = {} /\ Parent(m_ar_rd) = {}
        /\ WaitingIds(m_ar_rd) = waiting_transaction_id
    BY <1>1 DEF Started, Sent, Parent, WaitingIds, Shares, IfSet
  <2> QED
    BY <1>0, <2>1
<1>2. CASE ArAck(m_ar_rd)
  <2>1. PICK s \in ReadRequests : s_ar_tmp = <<s>>
    BY <1>2 DEF ArAck, ReadInv, ReadTypeOK
  <2>2. MatchesAreExact(s, last_cam_insert_match)
    BY <2>1 DEF ReadInv
  <2>3. /\ s_ar_tmp[1] = s /\ s.id \in ReadIds \ item_vld /\ asked_line[s.id] = s.line
    BY <2>1, <2>2 DEF MatchesAreExact, ReadRequests
  <2>4. Started(m_ar_rd) = {s.id}
    BY <1>2, <2>3 DEF Started, IfSet
  <2>5. MatchRes = (item_vld \cap (s.cam \cup last_cam_insert_match)) \ waiting_transaction_vld
    BY <2>1, MatchesAreReads
  <2>6. CASE MatchRes = {}
    <3>1. /\ Sent(m_ar_rd) = {[id |-> s.id, line |-> asked_line[s.id]]} /\ Parent(m_ar_rd) = {}
          /\ WaitingIds(m_ar_rd) = waiting_transaction_id
      BY <1>2, <2>3, <2>6 DEF Sent, Parent, WaitingIds, Shares, IfSet
    <3>2. \A r \in loading : r.line # asked_line[s.id]
      <4>1. IsFiniteSet(item_vld)
        BY LsuAssumption, FS_Subset DEF ReadInv, ReadTypeOK
      <4>2. \A r \in loading :
                \E i \in item_vld \ waiting_transaction_vld : asked_line[i] = r.line
        BY <1>0, <4>1, SomeoneIsLast
      <4> QED
        BY <2>2, <2>3, <2>5, <2>6, <4>2 DEF MatchesAreExact
    <3> QED
      BY <1>0, <2>3, <2>4, <3>1, <3>2, LoadIsAdded
  <2>7. CASE MatchRes # {}
    <3>1. PICK p : p = ParentTransactionId
      OBVIOUS
    <3>2. p \in item_vld \ waiting_transaction_vld /\ asked_line[p] = asked_line[s.id]
      <4>1. p \in MatchRes
        BY <2>7, <3>1 DEF ParentTransactionId
      <4> QED
        BY <2>2, <2>3, <2>5, <4>1 DEF MatchesAreExact
    <3>3. /\ Sent(m_ar_rd) = {} /\ Parent(m_ar_rd) = {p}
          /\ WaitingIds(m_ar_rd) = [waiting_transaction_id EXCEPT ![p] = s.id]
      BY <1>2, <2>3, <2>7, <3>1 DEF Sent, Parent, WaitingIds, Shares, IfSet
    <3>4. waiting_transaction_id \in [ReadIds -> ReadIds] /\ item_vld \subseteq ReadIds
      BY DEF ReadInv, ReadTypeOK
    <3>5. InOnePlace(item_vld \cup {s.id}, loading, ShownNow, waiting_transaction_vld \cup {p},
                     [waiting_transaction_id EXCEPT ![p] = s.id], asked_line)
      BY <1>0, <2>3, <3>2, <3>4, WaiterIsAdded
    <3> QED
      BY <2>4, <3>3, <3>5
  <2> QED
    BY <2>6, <2>7
<1> QED
  BY <1>1, <1>2

Ended(r_rd) == IfSet(frame_buff # <<>> /\ r_rd, frame_buff[1].id)

\* The answer that enters frame_buff.
Taken(answer, r_rd) ==
    IF CopyFrame(r_rd) \/ (frame_buff # <<>> /\ ~r_rd) THEN {}
    ELSE {answer[i] : i \in 1 .. Len(answer)}

LEMMA ShownIs ==
    /\ frame_buff = <<>> => ShownNow = {}
    /\ \A f : frame_buff = <<f>> => ShownNow = {f} /\ frame_buff[1] = f
  BY DEF ShownNow

LEMMA FrameMoves ==
    ASSUME ReadInv, NEW m_ar_rd \in BOOLEAN, NEW r_rd \in BOOLEAN,
           NEW ar, NEW answer \in Offered1(loading), ReadCycle(ar, m_ar_rd, answer, r_rd)
    PROVE  InOnePlace(item_vld', loading', ShownNow', waiting_transaction_vld',
                      waiting_transaction_id', asked_line)
<1> DEFINE vld == item_vld \cup Started(m_ar_rd)
           loads == loading \cup Sent(m_ar_rd)
           w_vld == waiting_transaction_vld \cup Parent(m_ar_rd)
           w_id == WaitingIds(m_ar_rd)
<1>1. InOnePlace(vld, loads, ShownNow, w_vld, w_id, asked_line)
  BY RequestMoves
<1>2. /\ item_vld' = vld \ Ended(r_rd)
      /\ waiting_transaction_vld' = w_vld \ Ended(r_rd)
      /\ waiting_transaction_id' = w_id
      /\ loading' = (loading \ Taken(answer, r_rd)) \cup Sent(m_ar_rd)
      /\ frame_buff' = NextFrameBuff(answer, r_rd)
  BY Zenon DEF ReadCycle, Started, Parent, Sent, WaitingIds, Shares, Ended, Taken
<1>3. frame_buff = <<>> \/ \E f \in ReadWords : frame_buff = <<f>>
  BY DEF ReadInv, ReadTypeOK
<1> HIDE DEF vld, loads, w_vld, w_id
<1>4. CASE frame_buff # <<>> /\ ~r_rd
  <2>1. Ended(r_rd) = {} /\ Taken(answer, r_rd) = {} /\ frame_buff' = frame_buff
    BY <1>2, <1>4 DEF Ended, Taken, NextFrameBuff, IfSet
  <2>2. ShownNow' = ShownNow
    BY <2>1 DEF ShownNow
  <2>3. item_vld' = vld /\ waiting_transaction_vld' = w_vld /\ loading' = loads
    BY <1>2, <2>1 DEF loads
  <2> QED
    BY <1>1, <1>2, <2>2, <2>3, Zenon
<1>5. CASE frame_buff # <<>> /\ r_rd /\ CopyFrame(r_rd)
  <2>1. PICK f \in ReadWords : frame_buff = <<f>>
    BY <1>3, <1>5
  <2>2. ShownNow = {f} /\ frame_buff[1] = f
    BY <2>1, ShownIs
  <2>3. Ended(r_rd) = {f.id} /\ Taken(answer, r_rd) = {}
    BY <1>5, <2>2 DEF Ended, Taken, IfSet
  <2>4. loading' = loads
    BY <1>2, <2>3 DEF loads
  <2>5. f.id \in w_vld
        /\ w_id[f.id] = IF DataCopyOverride(r_rd) THEN s_ar_tmp[1].id
                        ELSE waiting_transaction_id[f.id]
    <3>1. CASE DataCopyOverride(r_rd)
      <4>1. MatchRes # {} /\ f.id = ParentTransactionId /\ ArAck(m_ar_rd)
        BY <2>2, <3>1 DEF DataCopyOverride, ArAck, MatchRes
      <4>2. waiting_transaction_id \in [ReadIds -> ReadIds] /\ f.id \in ReadIds
        BY DEF ReadInv, ReadTypeOK, ReadWords
      <4> QED
        BY <3>1, <4>1, <4>2 DEF w_vld, w_id, Parent, WaitingIds, Shares, IfSet
    <3>2. CASE ~DataCopyOverride(r_rd)
      <4>1. f.id \in waiting_transaction_vld
        BY <1>5, <2>2, <3>2 DEF CopyFrame
      <4>2. Shares(m_ar_rd) => ParentTransactionId # f.id
        <5>1. MatchRes \cap waiting_transaction_vld = {}
          BY DEF MatchRes
        <5>2. MatchRes # {} => ParentTransactionId \in MatchRes
          BY DEF ParentTransactionId
        <5> QED
          BY <4>1, <5>1, <5>2 DEF Shares
      <4>3. waiting_transaction_id \in [ReadIds -> ReadIds]
        BY DEF ReadInv, ReadTypeOK
      <4> QED
        BY <3>2, <4>1, <4>2, <4>3 DEF w_vld, w_id, WaitingIds
    <3> QED
      BY <3>1, <3>2
  <2>6. PICK g \in ReadWords : frame_buff' = <<g>> /\ g.id = w_id[f.id] /\ g.line = f.line
    <3> DEFINE g == [f EXCEPT !.id = w_id[f.id]]
    <3>1. frame_buff' = <<[f EXCEPT !.id = IF DataCopyOverride(r_rd) THEN s_ar_tmp[1].id
                                            ELSE waiting_transaction_id[@]]>>
      BY <1>2, <1>5, <2>2 DEF NextFrameBuff
    <3>2. frame_buff' = <<g>>
      BY <2>5, <3>1
    <3>3. g.id = w_id[f.id] /\ g.line = f.line
      BY DEF ReadWords
    <3>4. w_id[f.id] \in ReadIds
      <4>1. w_id[f.id] \in Waits(w_vld, w_id)
        BY <2>5 DEF Waits
      <4>2. vld \subseteq ReadIds
        BY DEF vld, Started, IfSet, ArAck, ReadInv, ReadTypeOK, ReadRequests
      <4> QED
        BY <1>1, <4>1, <4>2 DEF InOnePlace
    <3>5. g \in ReadWords
      BY <3>4 DEF ReadWords
    <3> QED
      BY <3>2, <3>3, <3>5, Zenon
  <2>7. ShownNow' = {g}
    BY <2>6 DEF ShownNow
  <2>8. InOnePlace(vld \ {f.id}, loads, {g}, w_vld \ {f.id}, w_id, asked_line)
    BY <1>1, <2>2, <2>5, <2>6, WaiterIsServed, Zenon
  <2> QED
    BY <1>2, <2>3, <2>4, <2>7, <2>8
<1>6. CASE frame_buff = <<>> \/ (r_rd /\ ~CopyFrame(r_rd))
  <2> DEFINE words == {answer[i] : i \in 1 .. Len(answer)}
  <2>1. words \subseteq loading /\ \A f, g \in words : f = g
    BY DEF Offered1
  <2>2. Taken(answer, r_rd) = words /\ frame_buff' = answer
    BY <1>2, <1>6 DEF Taken, CopyFrame, DataCopyOverride, NextFrameBuff
  <2>3. ShownNow' = words
    BY <2>2 DEF ShownNow
  <2> HIDE DEF words
  <2>4. Ended(r_rd) = IdsOf(ShownNow)
    BY <1>3, <1>6, ShownIs DEF Ended, IdsOf, IfSet
  <2>5. IdsOf(ShownNow) \cap w_vld = {}
    <3>1. SUFFICES ASSUME NEW f \in ReadWords, frame_buff = <<f>>, f.id \in w_vld  PROVE FALSE
      BY <1>3, ShownIs DEF IdsOf
    <3>2. frame_buff[1] = f /\ frame_buff # <<>> /\ r_rd
      BY <1>6, <3>1
    <3>3. f.id \notin waiting_transaction_vld
      BY <1>6, <3>2 DEF CopyFrame
    <3>4. Shares(m_ar_rd) /\ f.id = ParentTransactionId
      BY <3>1, <3>3 DEF w_vld, Parent, IfSet
    <3>5. DataCopyOverride(r_rd)
      BY <3>2, <3>4 DEF DataCopyOverride, Shares
    <3> QED
      BY <1>6, <3>2, <3>5 DEF CopyFrame
  <2>6. loading' = loads \ words
    <3>1. \A r \in Sent(m_ar_rd) : r.id \notin item_vld
      BY DEF Sent, IfSet, ArAck, ReadInv, ReadTypeOK, MatchesAreExact
    <3>2. \A r \in loading : r.id \in item_vld
      BY DEF ReadInv, InOnePlace, IdsOf
    <3> QED
      BY <1>2, <2>1, <2>2, <3>1, <3>2 DEF loads
  <2>7. InOnePlace(vld \ IdsOf(ShownNow), loads \ words, words, w_vld, w_id, asked_line)
    <3>1. words \in SUBSET loads
      BY <2>1 DEF loads
    <3> QED
      BY <1>1, <2>1, <2>5, <3>1, WordIsShown, Zenon
  <2>8. w_vld \ Ended(r_rd) = w_vld
    BY <2>4, <2>5
  <2> QED
    BY <1>2, <2>3, <2>4, <2>6, <2>7, <2>8, Zenon
<1> QED
  BY <1>4, <1>5, <1>6

\* A request is not accepted for an id that is in use.
LEMMA AcceptedIdIsFree ==
    ASSUME ReadInv, NEW m_ar_rd \in BOOLEAN, NEW r_rd \in BOOLEAN,
           NEW ar \in Offered1(ReadWords), NEW answer, ReadCycle(ar, m_ar_rd, answer, r_rd)
    PROVE  /\ item_vld' \subseteq item_vld \cup Started(m_ar_rd)
           /\ asked_line' \in [ReadIds -> LsuLines]
           /\ \A i \in item_vld \cup Started(m_ar_rd) : asked_line'[i] = asked_line[i]
           /\ ~BlockingAccess(ar) /\ ar # <<>> =>
                  ar[1] \in ReadWords /\ ar[1].id \notin item_vld \cup Started(m_ar_rd)
<1>1. item_vld' \subseteq item_vld \cup Started(m_ar_rd)
  BY DEF ReadCycle, Started
<1>2. ~BlockingAccess(ar) /\ ar # <<>> =>
          ar[1] \in ReadWords /\ ar[1].id \notin item_vld \cup Started(m_ar_rd)
  BY DEF BlockingAccess, Started, ArAck, IfSet, Offered1
<1>3. asked_line' = asked_line
      \/ /\ ~BlockingAccess(ar) /\ ar # <<>>
         /\ asked_line' = [asked_line EXCEPT ![ar[1].id] = ar[1].line]
  BY DEF ReadCycle
<1>4. asked_line \in [ReadIds -> LsuLines] /\ \A r \in ReadWords : r.id \in ReadIds /\ r.line \in LsuLines
  BY DEF ReadInv, ReadTypeOK, ReadWords
<1>5. asked_line' \in [ReadIds -> LsuLines]
      /\ \A i \in item_vld \cup Started(m_ar_rd) : asked_line'[i] = asked_line[i]
  <2>1. CASE asked_line' = asked_line
    BY <1>4, <2>1
  <2>2. CASE /\ ~BlockingAccess(ar) /\ ar # <<>>
             /\ asked_line' = [asked_line EXCEPT ![ar[1].id] = ar[1].line]
    <3>1. ar[1].id \in ReadIds /\ ar[1].line \in LsuLines
          /\ ar[1].id \notin item_vld \cup Started(m_ar_rd)
      BY <1>2, <1>4, <2>2
    <3>2. PICK i, l : i = ar[1].id /\ l = ar[1].line
      OBVIOUS
    <3>3. asked_line' = [asked_line EXCEPT ![i] = l]
      BY <2>2, <3>2
    <3>4. item_vld \cup Started(m_ar_rd) \subseteq ReadIds
      BY DEF ReadInv, ReadTypeOK, Started, IfSet, ArAck, ReadRequests
    <3> QED
      BY <1>4, <3>1, <3>2, <3>3, <3>4
  <2> QED
    BY <1>3, <2>1, <2>2
<1> QED
  BY <1>1, <1>2, <1>5

LEMMA LinesStayKnown ==
    ASSUME ReadInv, NEW m_ar_rd \in BOOLEAN, NEW r_rd \in BOOLEAN,
           NEW ar \in Offered1(ReadWords), NEW answer, ReadCycle(ar, m_ar_rd, answer, r_rd)
    PROVE  /\ addr_cam' \in [ReadIds -> LsuLines]
           /\ \A i \in item_vld' : addr_cam'[i] = asked_line'[i]
<1>1. addr_cam' = IF s_ar_tmp = <<>> THEN addr_cam
                  ELSE [addr_cam EXCEPT ![s_ar_tmp[1].id] = s_ar_tmp[1].line]
  BY DEF ReadCycle
<1>2. addr_cam \in [ReadIds -> LsuLines] /\ \A i \in item_vld : addr_cam[i] = asked_line[i]
      /\ item_vld \subseteq ReadIds
  BY DEF ReadInv, ReadTypeOK
<1>3. s_ar_tmp = <<>> => Started(m_ar_rd) = {}
  BY DEF Started, ArAck, IfSet
<1>4. ASSUME NEW s \in ReadRequests, s_ar_tmp = <<s>>
      PROVE  /\ s_ar_tmp[1] = s /\ s.id \in ReadIds /\ s.line \in LsuLines
             /\ s.id \notin item_vld /\ asked_line[s.id] = s.line
             /\ Started(m_ar_rd) \subseteq {s.id}
  BY <1>4 DEF ReadInv, MatchesAreExact, ReadRequests, Started, IfSet
<1>5. s_ar_tmp = <<>> \/ \E s \in ReadRequests : s_ar_tmp = <<s>>
  BY DEF ReadInv, ReadTypeOK
<1>6. CASE s_ar_tmp = <<>>
  BY <1>1, <1>2, <1>3, <1>6, AcceptedIdIsFree
<1>7. CASE s_ar_tmp # <<>>
  <2>1. PICK s \in ReadRequests : s_ar_tmp = <<s>>
    BY <1>5, <1>7
  <2>2. addr_cam' = [addr_cam EXCEPT ![s.id] = s.line]
    BY <1>1, <1>4, <1>7, <2>1
  <2> QED
    BY <1>2, <1>4, <2>1, <2>2, AcceptedIdIsFree
<1> QED
  BY <1>6, <1>7

LEMMA MatchesStayExact ==
    ASSUME ReadInv, NEW m_ar_rd \in BOOLEAN, NEW r_rd \in BOOLEAN,
           NEW ar \in Offered1(ReadWords), NEW answer, ReadCycle(ar, m_ar_rd, answer, r_rd)
    PROVE  /\ s_ar_tmp' \in {<<>>} \cup {<<s>> : s \in ReadRequests}
           /\ last_cam_insert_match' \subseteq ReadIds
           /\ \A s \in ReadRequests : s_ar_tmp' = <<s>> => MatchesAreExact(s, last_cam_insert_match)'
<1> DEFINE accepts == ar # <<>> /\ ~BlockingAccess(ar) /\ (s_ar_tmp = <<>> \/ ArAck(m_ar_rd))
           cam == {i \in item_vld : addr_cam[i] = ar[1].line}
           new == [id |-> ar[1].id, line |-> ar[1].line, cam |-> cam]
           match == IfSet(/\ ar # <<>> /\ ~BlockingAccess(ar)
                          /\ s_ar_tmp # <<>> /\ s_ar_tmp[1].line = ar[1].line, s_ar_tmp[1].id)
<1>1. /\ s_ar_tmp' = IF accepts THEN <<new>> ELSE IF ArAck(m_ar_rd) THEN <<>> ELSE s_ar_tmp
      /\ last_cam_insert_match' = match
      /\ item_vld' = (item_vld \cup Started(m_ar_rd)) \ Ended(r_rd)
      /\ waiting_transaction_vld' = (waiting_transaction_vld \cup Parent(m_ar_rd)) \ Ended(r_rd)
      /\ accepts => asked_line' = [asked_line EXCEPT ![ar[1].id] = ar[1].line]
      /\ ~accepts => asked_line' = asked_line
  BY Zenon DEF ReadCycle, Started, Parent, Shares, Ended
<1>2. /\ s_ar_tmp = <<>> \/ \E s \in ReadRequests : s_ar_tmp = <<s>>
      /\ item_vld \subseteq ReadIds /\ asked_line \in [ReadIds -> LsuLines]
      /\ \A i \in item_vld : addr_cam[i] = asked_line[i]
  BY DEF ReadInv, ReadTypeOK
<1>3. s_ar_tmp = <<>> => match = {} /\ Started(m_ar_rd) = {}
  BY DEF IfSet, Started, ArAck
<1>4. ASSUME NEW s, s_ar_tmp = <<s>>
      PROVE  /\ match = IF ar # <<>> /\ ~BlockingAccess(ar) /\ s.line = ar[1].line THEN {s.id} ELSE {}
             /\ Started(m_ar_rd) = IF ArAck(m_ar_rd) THEN {s.id} ELSE {}
  BY <1>4 DEF IfSet, Started
<1>5. \A s \in ReadRequests : s_ar_tmp = <<s>> =>
          s.id \in ReadIds /\ s.line \in LsuLines /\ MatchesAreExact(s, last_cam_insert_match)
  BY DEF ReadInv, ReadRequests
<1> HIDE DEF accepts, match
<1>6. match \subseteq ReadIds
  BY <1>2, <1>3, <1>4, <1>5
<1>7. CASE accepts
  <2>1. /\ ar[1] \in ReadWords /\ ar[1].id \notin item_vld \cup Started(m_ar_rd)
        /\ ar # <<>> /\ ~BlockingAccess(ar) /\ (s_ar_tmp = <<>> \/ ArAck(m_ar_rd))
    BY <1>7, AcceptedIdIsFree DEF accepts
  <2>2. /\ ar[1].id \in ReadIds /\ ar[1].line \in LsuLines /\ new \in ReadRequests
        /\ new.id = ar[1].id /\ new.line = ar[1].line /\ new.cam = cam
    BY <1>2, <2>1 DEF ReadWords, ReadRequests
  <2>3. s_ar_tmp' = <<new>>
    BY <1>1, <1>7
  <2>4. /\ new.id \notin item_vld'
        /\ asked_line'[new.id] = new.line
        /\ \A i \in item_vld \cup Started(m_ar_rd) : asked_line'[i] = asked_line[i]
    BY <1>1, <1>2, <1>7, <2>1, <2>2, AcceptedIdIsFree
  <2>5. \A i \in Started(m_ar_rd) : i \in match <=> asked_line[i] = ar[1].line
    BY <1>2, <1>3, <1>4, <1>5, <2>1 DEF MatchesAreExact
  <2>6. match \subseteq Started(m_ar_rd)
    BY <1>2, <1>3, <1>4, <2>1
  <2>7. item_vld' \subseteq item_vld \cup Started(m_ar_rd)
    BY <1>1
  <2>8. \A i \in item_vld' \cap (new.cam \cup match) : asked_line'[i] = new.line
    BY <1>2, <2>2, <2>4, <2>5, <2>6, <2>7
  <2>9. \A i \in item_vld' : asked_line'[i] = new.line => i \in new.cam \cup match
    BY <1>2, <2>2, <2>4, <2>5, <2>7
  <2>10. PICK s \in ReadRequests : s = new
    BY <2>2
  <2> HIDE DEF new
  <2>11. MatchesAreExact(s, last_cam_insert_match)'
    BY <1>1, <2>4, <2>8, <2>9, <2>10 DEF MatchesAreExact
  <2>12. \A n : s_ar_tmp' = <<n>> => n = s
    BY <2>3, <2>10
  <2> QED
    BY <1>1, <1>6, <2>3, <2>10, <2>11, <2>12
<1>8. CASE ~accepts /\ ArAck(m_ar_rd)
  BY <1>1, <1>6, <1>8
<1>9. CASE ~accepts /\ ~ArAck(m_ar_rd)
  <2>1. s_ar_tmp' = s_ar_tmp
    BY <1>1, <1>9
  <2>2. ASSUME NEW s \in ReadRequests, s_ar_tmp' = <<s>>
        PROVE  MatchesAreExact(s, last_cam_insert_match)'
    <3>1. /\ s_ar_tmp = <<s>> /\ MatchesAreExact(s, last_cam_insert_match)
          /\ match \subseteq {s.id} /\ Started(m_ar_rd) = {}
      BY <1>4, <1>5, <1>9, <2>1, <2>2
    <3>2. MatchRes = {}
      BY <1>9, <3>1 DEF ArAck
    <3>3. (item_vld \cap (s.cam \cup last_cam_insert_match)) \ waiting_transaction_vld = {}
      BY <3>1, <3>2, MatchesAreReads
    <3>4. Parent(m_ar_rd) = {}
      BY <1>9 DEF Parent, Shares, IfSet
    <3>5. item_vld' \subseteq item_vld
          /\ item_vld' \ waiting_transaction_vld' \subseteq item_vld \ waiting_transaction_vld
          /\ last_cam_insert_match' = match /\ asked_line' = asked_line
      BY <1>1, <1>9, <3>1, <3>4
    <3> QED
      BY <3>1, <3>3, <3>5 DEF MatchesAreExact
  <2> QED
    BY <1>1, <1>2, <1>6, <2>1, <2>2
<1> QED
  BY <1>7, <1>8, <1>9

LEMMA CycleKeepsReads ==
    ASSUME ReadInv, NEW m_ar_rd \in BOOLEAN, NEW r_rd \in BOOLEAN, NEW ar \in Offered1(ReadWords),
           NEW answer \in Offered1(loading), ReadCycle(ar, m_ar_rd, answer, r_rd)
    PROVE  ReadInv'
<1>1. InOnePlace(item_vld', loading', ShownNow', waiting_transaction_vld',
                 waiting_transaction_id', asked_line')
  BY FrameMoves, AcceptedIdIsFree, LinesOfOthers
<1>2. s_ar_tmp # <<>> => s_ar_tmp[1].id \in ReadIds /\ s_ar_tmp[1].line \in LsuLines
  BY DEF ReadInv, ReadTypeOK, ReadRequests
<1>3. /\ waiting_transaction_id \in [ReadIds -> ReadIds]
      /\ item_vld \subseteq ReadIds /\ loading \subseteq ReadWords
      /\ frame_buff \in {<<>>} \cup {<<f>> : f \in ReadWords}
  BY DEF ReadInv, ReadTypeOK
<1>4. item_vld' \subseteq ReadIds
  BY <1>2, <1>3, AcceptedIdIsFree DEF Started, IfSet, ArAck
<1>5. waiting_transaction_id' \in [ReadIds -> ReadIds]
  BY <1>2, <1>3 DEF ReadCycle, ArAck
<1>6. loading' \subseteq ReadWords
  <2>1. Sent(m_ar_rd) \subseteq ReadWords
    BY <1>2 DEF Sent, IfSet, ArAck, ReadWords
  <2>2. loading' \subseteq loading \cup Sent(m_ar_rd)
    BY DEF ReadCycle, Sent, Shares
  <2> QED
    BY <1>3, <2>1, <2>2
<1>7. frame_buff' \in {<<>>} \cup {<<f>> : f \in ReadWords}
  <2>1. frame_buff' = NextFrameBuff(answer, r_rd)
    BY DEF ReadCycle
  <2>2. CASE frame_buff # <<>> /\ CopyFrame(r_rd)
    <3>1. PICK f \in ReadWords : frame_buff = <<f>>
      BY <1>3, <2>2
    <3>2. \A i \in ReadIds : [f EXCEPT !.id = i] \in ReadWords
      BY DEF ReadWords
    <3>3. DataCopyOverride(r_rd) => s_ar_tmp # <<>>
      BY DEF DataCopyOverride, MatchRes
    <3>4. f.id \in ReadIds
      BY DEF ReadWords
    <3> QED
      BY <1>2, <1>3, <2>1, <2>2, <3>1, <3>2, <3>3, <3>4 DEF NextFrameBuff
  <2>3. CASE ~(frame_buff # <<>> /\ CopyFrame(r_rd))
    <3>1. frame_buff' = frame_buff \/ frame_buff' = answer
      BY <2>1, <2>3 DEF NextFrameBuff, CopyFrame, DataCopyOverride
    <3> QED
      BY <1>3, <3>1 DEF Offered1
  <2> QED
    BY <2>2, <2>3
<1>8. ReadTypeOK'
  BY <1>4, <1>5, <1>6, <1>7, AcceptedIdIsFree, LinesStayKnown, MatchesStayExact
     DEF ReadTypeOK
<1> QED
  BY <1>1, <1>8, LinesStayKnown, MatchesStayExact DEF ReadInv

LEMMA InitReadInv == ReadInit => ReadInv
<1> SUFFICES ASSUME ReadInit  PROVE ReadInv
  OBVIOUS
<1>1. ReadTypeOK
  BY LsuAssumption DEF ReadInit, ReadTypeOK
<1>2. ShownNow = {}
  BY DEF ReadInit, ShownNow
<1>3. InOnePlace(item_vld, loading, ShownNow, waiting_transaction_vld, waiting_transaction_id,
                 asked_line)
  BY <1>2 DEF ReadInit, InOnePlace, IdsOf, Waits
<1> QED
  BY <1>1, <1>3 DEF ReadInit, ReadInv

LEMMA ReadInvShares == ReadInv => ReadsAreShared
<1> SUFFICES ASSUME ReadInv  PROVE ReadsAreShared
  OBVIOUS
<1> DEFINE w_vld == waiting_transaction_vld
           w_id == waiting_transaction_id
<1>1. InOnePlace(item_vld, loading, ShownNow, w_vld, w_id, asked_line)
  BY DEF ReadInv
<1>2. /\ item_vld = IdsOf(loading) \cup IdsOf(ShownNow) \cup Waits(w_vld, w_id)
      /\ IdsOf(loading) \cap IdsOf(ShownNow) = {}
      /\ (IdsOf(loading) \cup IdsOf(ShownNow)) \cap Waits(w_vld, w_id) = {}
      /\ \A q, r \in loading : q.id = r.id \/ q.line = r.line => q = r
      /\ \A f \in ShownNow : f.line = asked_line[f.id]
      /\ \A p \in w_vld : p \in item_vld /\ asked_line[p] = asked_line[w_id[p]]
      /\ \A p, q \in w_vld : w_id[p] = w_id[q] => p = q
  BY <1>1 DEF InOnePlace
<1>3. IdsOf(ShownNow) = {frame_buff[i].id : i \in 1 .. Len(frame_buff)}
  BY DEF IdsOf, ShownNow
<1>4. \A i \in 1 .. Len(frame_buff) : frame_buff[i] \in ShownNow
  BY DEF ShownNow
<1>5. IsFiniteSet(item_vld)
  BY LsuAssumption, FS_Subset DEF ReadInv, ReadTypeOK
<1>6. /\ IsFiniteSet(IdsOf(loading)) /\ IsFiniteSet(IdsOf(ShownNow)) /\ IsFiniteSet(Waits(w_vld, w_id))
  <2>1. IdsOf(loading) \subseteq item_vld /\ IdsOf(ShownNow) \subseteq item_vld
        /\ Waits(w_vld, w_id) \subseteq item_vld
    BY <1>2
  <2> QED
    BY <1>5, <2>1, FS_Subset
<1>7. Cardinality(IdsOf(loading)) = Cardinality(loading)
  <2> DEFINE f == [i \in IdsOf(loading) |-> CHOOSE r \in loading : r.id = i]
  <2>1. \A i \in IdsOf(loading) : f[i] \in loading /\ f[i].id = i
    BY DEF IdsOf
  <2>2. \A r \in loading : r.id \in IdsOf(loading) /\ f[r.id] = r
    BY <1>2, <2>1 DEF IdsOf
  <2>3. f \in Bijection(IdsOf(loading), loading)
    <3>1. f \in [IdsOf(loading) -> loading]
      BY <2>1
    <3> HIDE DEF f
    <3> QED
      BY <2>1, <2>2, <3>1 DEF Bijection, Injection, Surjection, IsInjective
  <2>4. ExistsBijection(IdsOf(loading), loading)
    BY <2>3, Zenon DEF ExistsBijection
  <2> QED
    BY <1>6, <2>4, FS_Bijection
<1>8. Cardinality(Waits(w_vld, w_id)) = Cardinality(w_vld)
  <2> DEFINE f == [p \in w_vld |-> w_id[p]]
  <2>1. f \in Bijection(w_vld, Waits(w_vld, w_id))
    BY <1>2 DEF Waits, Bijection, Injection, Surjection, IsInjective
  <2>2. ExistsBijection(w_vld, Waits(w_vld, w_id))
    BY <2>1, Zenon DEF ExistsBijection
  <2>3. IsFiniteSet(w_vld)
    <3>1. w_vld \subseteq item_vld
      BY <1>2
    <3> QED
      BY <1>5, <3>1, FS_Subset
  <2> QED
    BY <2>2, <2>3, FS_Bijection
<1>9. Cardinality(IdsOf(ShownNow)) = Len(frame_buff)
  <2>1. CASE frame_buff = <<>>
    BY <1>3, <2>1, FS_EmptySet, ShownIs DEF IdsOf
  <2>2. CASE frame_buff # <<>>
    <3>1. PICK f : frame_buff = <<f>>
      BY <2>2 DEF ReadInv, ReadTypeOK
    <3>2. IdsOf(ShownNow) = {f.id} /\ Len(frame_buff) = 1
      BY <3>1, ShownIs DEF IdsOf
    <3> QED
      BY <3>2, FS_Singleton
  <2> QED
    BY <2>1, <2>2
<1>10. Cardinality(item_vld) = Cardinality(loading) + Len(frame_buff) + Cardinality(w_vld)
  <2> DEFINE A == IdsOf(loading)
             B == IdsOf(ShownNow)
             C == Waits(w_vld, w_id)
  <2>1. /\ A \cap B = {} /\ (A \cup B) \cap C = {} /\ item_vld = (A \cup B) \cup C
        /\ IsFiniteSet(A) /\ IsFiniteSet(B) /\ IsFiniteSet(C)
    BY <1>2, <1>6
  <2>2. /\ Cardinality(A) = Cardinality(loading) /\ Cardinality(B) = Len(frame_buff)
        /\ Cardinality(C) = Cardinality(w_vld)
    BY <1>7, <1>8, <1>9
  <2> HIDE DEF A, B, C
  <2>3. /\ Cardinality(A) \in Nat /\ Cardinality(B) \in Nat /\ Cardinality(C) \in Nat
        /\ Cardinality({}) = 0
    BY <2>1, FS_CardinalityType, FS_EmptySet
  <2>4. IsFiniteSet(A \cup B) /\ Cardinality(A \cup B) = Cardinality(A) + Cardinality(B) - 0
    BY <2>1, <2>3, FS_Union
  <2>5. Cardinality(item_vld) = Cardinality(A \cup B) + Cardinality(C) - 0
    <3>1. PICK D : D = A \cup B
      OBVIOUS
    <3>2. Cardinality(D \cup C) = Cardinality(D) + Cardinality(C) - Cardinality(D \cap C)
      BY <2>1, <2>4, <3>1, FS_Union
    <3> QED
      BY <2>1, <2>3, <3>1, <3>2
  <2> QED
    BY <2>2, <2>3, <2>4, <2>5
<1>11. IdsOf(loading) = {r.id : r \in loading} /\ Waits(w_vld, w_id) = {w_id[p] : p \in w_vld}
  BY DEF IdsOf, Waits
<1>12. item_vld = {r.id : r \in loading} \cup {frame_buff[i].id : i \in 1 .. Len(frame_buff)}
                  \cup {w_id[p] : p \in w_vld}
  BY <1>2, <1>3, <1>11
<1>13. \A i \in 1 .. Len(frame_buff) : frame_buff[i].line = asked_line[frame_buff[i].id]
  BY <1>2, <1>4
<1> QED
  BY <1>2, <1>10, <1>12, <1>13, Zenon DEF ReadsAreShared

\* Every accepted read of AxiReadAggregator is in one place, with the reads that wait for it, and
\* no line is read twice at the same time: for any number of ids and lines, whatever master and
\* memory do.
THEOREM ReadsStayShared == ReadSpec => []ReadsAreShared
<1>1. ReadInv /\ [\E m_ar_rd, r_rd \in BOOLEAN : ReadNext(m_ar_rd, r_rd)]_readVars => ReadInv'
  <2>1. ReadInv /\ UNCHANGED readVars => ReadInv'
    <3> SUFFICES ASSUME ReadInv, UNCHANGED readVars  PROVE ReadInv'
      OBVIOUS
    <3>1. ShownNow' = ShownNow
      BY DEF ShownNow, readVars
    <3>2. ReadTypeOK'
      BY DEF ReadInv, ReadTypeOK, readVars
    <3>3. \A s, last : MatchesAreExact(s, last)' <=> MatchesAreExact(s, last)
      BY DEF MatchesAreExact, readVars
    <3> QED
      BY <3>1, <3>2, <3>3 DEF ReadInv, readVars
  <2>2. ASSUME ReadInv, NEW m_ar_rd \in BOOLEAN, NEW r_rd \in BOOLEAN, ReadNext(m_ar_rd, r_rd)
        PROVE  ReadInv'
    BY <2>2, CycleKeepsReads DEF ReadNext, ReadWords
  <2> QED
    BY <2>1, <2>2
<1> QED
  BY <1>1, InitReadInv, ReadInvShares, PTL DEF ReadSpec

---------------------------------------------------------------------------
(* Axi4SFifoCopy *)

\* The i-th slot after s.
Nth(s, i) == IF s + i < COPY_DEPTH THEN s + i ELSE s + i - COPY_DEPTH

\* From the slot s there are n words in the ring, f of which were fetched; len words of the
\* frame that enters.  Nothing that was sent, and nothing that entered with that frame, is the
\* end of a frame; what entered before it is.
Frames(s, f, n, len, mem, vld, word) ==
    /\ s \in Slots /\ n \in 0 .. COPY_DEPTH - 1 /\ f \in 0 .. n /\ len \in 0 .. n
    /\ DOMAIN mem = Slots
    /\ vld => f > 0 /\ word = mem[Nth(s, f - 1)]
    /\ \A i \in 0 .. f - 1 : (vld /\ i = f - 1) \/ ~mem[Nth(s, i)].last
    /\ \A i \in n - len .. n - 1 : ~mem[Nth(s, i)].last
    /\ len < n => mem[Nth(s, n - len - 1)].last

FrameInv ==
    /\ copy_vld \in BOOLEAN /\ frame_len \in 0 .. MAX_FRAME_LEN - 1
    /\ \E f, n \in 0 .. COPY_DEPTH - 1 :
          /\ Frames(rd_ptr, f, n, frame_len, memory, copy_vld, copy_data)
          /\ rd_ptr_tmp = Nth(rd_ptr, f) /\ wr_ptr = Nth(rd_ptr, n)

LEMMA NthAre ==
    ASSUME NEW s \in Slots, NEW i \in 0 .. COPY_DEPTH - 1
    PROVE  /\ Nth(s, i) \in Slots
           /\ \A j \in 0 .. COPY_DEPTH - 1 : Nth(s, i) = Nth(s, j) => i = j
           /\ i + 1 < COPY_DEPTH => NextSlot(Nth(s, i)) = Nth(s, i + 1)
           /\ i = COPY_DEPTH - 1 => NextSlot(Nth(s, i)) = s
           /\ \A j \in 0 .. COPY_DEPTH - 1 :
                  i + j < COPY_DEPTH => Nth(Nth(s, i), j) = Nth(s, i + j)
           /\ Nth(s, 0) = s
  BY CopyAssumption DEF Nth, Slots, NextSlot

\* The word at the output leaves, it does not end its frame.
LEMMA WordLeaves ==
    ASSUME NEW s, NEW f, NEW n, NEW len, NEW mem, NEW word,
           Frames(s, f, n, len, mem, TRUE, word), ~word.last
    PROVE  Frames(s, f, n, len, mem, FALSE, word)
  BY DEF Frames

\* The end of a frame leaves, and the frame is sent again.
LEMMA FrameRestarts ==
    ASSUME NEW s, NEW f, NEW n, NEW len, NEW mem, NEW vld, NEW word,
           Frames(s, f, n, len, mem, vld, word)
    PROVE  Frames(s, 0, n, len, mem, FALSE, word)
  BY DEF Frames

\* The end of a frame leaves, and its slots are released.
LEMMA FrameEnds ==
    ASSUME NEW s, NEW f, NEW n, NEW len, NEW mem, NEW word,
           Frames(s, f, n, len, mem, TRUE, word), word.last
    PROVE  Frames(Nth(s, f), 0, n - f, len, mem, FALSE, word)
<1>1. /\ s \in Slots /\ n \in 0 .. COPY_DEPTH - 1 /\ f \in 1 .. n /\ len \in 0 .. n
      /\ mem[Nth(s, f - 1)].last
      /\ \A i \in n - len .. n - 1 : ~mem[Nth(s, i)].last
      /\ len < n => mem[Nth(s, n - len - 1)].last
      /\ DOMAIN mem = Slots
  BY DEF Frames
<1>2. f <= n - len
  BY <1>1, CopyAssumption
<1>3. Nth(s, f) \in Slots /\ \A i \in 0 .. n - f : Nth(Nth(s, f), i) = Nth(s, f + i)
  BY <1>1, NthAre, CopyAssumption
<1>4. \A i \in (n - f) - len .. (n - f) - 1 : ~mem[Nth(Nth(s, f), i)].last
  <2> SUFFICES ASSUME NEW i \in (n - f) - len .. (n - f) - 1
               PROVE  ~mem[Nth(Nth(s, f), i)].last
    OBVIOUS
  <2>1. i \in 0 .. n - f /\ f + i \in n - len .. n - 1
    BY <1>1, <1>2, CopyAssumption
  <2> QED
    BY <1>1, <1>3, <2>1
<1>5. len < n - f => mem[Nth(Nth(s, f), (n - f) - len - 1)].last
  <2> SUFFICES ASSUME len < n - f  PROVE mem[Nth(Nth(s, f), (n - f) - len - 1)].last
    OBVIOUS
  <2>1. (n - f) - len - 1 \in 0 .. n - f /\ f + ((n - f) - len - 1) = n - len - 1
    BY <1>1, CopyAssumption
  <2>2. Nth(Nth(s, f), (n - f) - len - 1) = Nth(s, n - len - 1)
    BY <1>3, <2>1
  <2> QED
    BY <1>1, <2>2, CopyAssumption
<1>6. n - f \in 0 .. COPY_DEPTH - 1 /\ len \in 0 .. n - f /\ 0 \in 0 .. n - f
  BY <1>1, <1>2, CopyAssumption
<1> QED
  BY <1>1, <1>3, <1>4, <1>5, <1>6 DEF Frames

\* A word is fetched to the free output.
LEMMA WordIsFetched ==
    ASSUME NEW s, NEW f, NEW n, NEW len, NEW mem, NEW word,
           Frames(s, f, n, len, mem, FALSE, word), f < n
    PROVE  Frames(s, f + 1, n, len, mem, TRUE, mem[Nth(s, f)])
<1>1. n \in 0 .. COPY_DEPTH - 1 /\ f \in 0 .. n /\ (f + 1) - 1 = f /\ f + 1 \in 0 .. n
      /\ f + 1 > 0
  BY CopyAssumption DEF Frames
<1>2. \A i \in 0 .. (f + 1) - 1 : (TRUE /\ i = (f + 1) - 1) \/ ~mem[Nth(s, i)].last
  <2> SUFFICES ASSUME NEW i \in 0 .. f, i # f  PROVE ~mem[Nth(s, i)].last
    BY <1>1
  <2>1. i \in 0 .. f - 1
    BY <1>1, CopyAssumption
  <2> QED
    BY <2>1 DEF Frames
<1> QED
  BY <1>1, <1>2 DEF Frames

\* A word enters.
LEMMA WordEnters ==
    ASSUME NEW s, NEW f, NEW n, NEW len, NEW mem, NEW vld, NEW word,
           Frames(s, f, n, len, mem, vld, word), n + 1 < COPY_DEPTH, NEW new
    PROVE  Frames(s, f, n + 1, IF new.last THEN 0 ELSE len + 1,
                  [mem EXCEPT ![Nth(s, n)] = new], vld, word)
<1>1. /\ s \in Slots /\ n \in 0 .. COPY_DEPTH - 1 /\ f \in 0 .. n /\ len \in 0 .. n
      /\ DOMAIN mem = Slots
      /\ vld => f > 0 /\ word = mem[Nth(s, f - 1)]
      /\ \A i \in 0 .. f - 1 : (vld /\ i = f - 1) \/ ~mem[Nth(s, i)].last
      /\ \A i \in n - len .. n - 1 : ~mem[Nth(s, i)].last
      /\ len < n => mem[Nth(s, n - len - 1)].last
  BY DEF Frames
<1> DEFINE mem2 == [mem EXCEPT ![Nth(s, n)] = new]
           len2 == IF new.last THEN 0 ELSE len + 1
<1>2. DOMAIN mem2 = Slots /\ mem2[Nth(s, n)] = new
  BY <1>1, NthAre, CopyAssumption
<1>3. \A i \in 0 .. n - 1 : mem2[Nth(s, i)] = mem[Nth(s, i)]
  BY <1>1, NthAre, CopyAssumption
<1>4. (new.last /\ len2 = 0) \/ (~new.last /\ len2 = len + 1)
  OBVIOUS
<1> HIDE DEF mem2, len2
<1>5. n + 1 \in 0 .. COPY_DEPTH - 1 /\ f \in 0 .. n + 1 /\ len2 \in 0 .. n + 1
  BY <1>1, <1>4, CopyAssumption
<1>6. vld => f > 0 /\ word = mem2[Nth(s, f - 1)]
  <2>1. vld => f - 1 \in 0 .. n - 1
    BY <1>1, CopyAssumption
  <2> QED
    BY <1>1, <1>3, <2>1
<1>7. \A i \in 0 .. f - 1 : (vld /\ i = f - 1) \/ ~mem2[Nth(s, i)].last
  <2>1. \A i \in 0 .. f - 1 : i \in 0 .. n - 1
    BY <1>1, CopyAssumption
  <2> QED
    BY <1>1, <1>3, <2>1
<1>8. \A i \in (n + 1) - len2 .. (n + 1) - 1 : ~mem2[Nth(s, i)].last
  <2> SUFFICES ASSUME NEW i \in (n + 1) - len2 .. (n + 1) - 1  PROVE ~mem2[Nth(s, i)].last
    OBVIOUS
  <2>1. ~new.last /\ (i = n \/ (i \in 0 .. n - 1 /\ i \in n - len .. n - 1))
    BY <1>1, <1>4, CopyAssumption
  <2> QED
    BY <1>1, <1>2, <1>3, <2>1
<1>9. len2 < n + 1 => mem2[Nth(s, (n + 1) - len2 - 1)].last
  <2>1. CASE new.last
    <3>1. (n + 1) - len2 - 1 = n
      BY <1>1, <1>4, <2>1, CopyAssumption
    <3> QED
      BY <1>2, <2>1, <3>1
  <2>2. CASE ~new.last /\ len2 < n + 1
    <3>1. (n + 1) - len2 - 1 = n - len - 1 /\ len < n /\ n - len - 1 \in 0 .. n - 1
      BY <1>1, <1>4, <2>2, CopyAssumption
    <3> QED
      BY <1>1, <1>3, <3>1
  <2> QED
    BY <2>1, <2>2
<1>10. Frames(s, f, n + 1, len2, mem2, vld, word)
  BY <1>1, <1>2, <1>5, <1>6, <1>7, <1>8, <1>9 DEF Frames
<1> QED
  BY <1>10 DEF mem2, len2

\* The words that were sent, of f that were fetched.
NSent(f, vld) == IF vld THEN f - 1 ELSE f

\* What the output does to the words: with f of n words fetched before, lo of n1 sent afterwards.
Goes(rd, again, f, n, lo, n1) ==
    LET ends == copy_vld /\ rd /\ copy_data.last IN
    /\ ends /\ ~again => rd_ptr' = Nth(rd_ptr, f) /\ lo = 0 /\ n1 = n - f
    /\ ends /\ again => rd_ptr' = rd_ptr /\ lo = 0 /\ n1 = n
    /\ copy_vld /\ rd /\ ~ends => rd_ptr' = rd_ptr /\ lo = f /\ n1 = n
    /\ ~(copy_vld /\ rd) => rd_ptr' = rd_ptr /\ lo = NSent(f, copy_vld) /\ n1 = n

LEMMA OutputGoes ==
    ASSUME FrameInv, NEW in, NEW rd \in BOOLEAN, NEW again \in BOOLEAN, FifoCycle(in, rd, again)
    PROVE  \E f, n, f1, n1 \in 0 .. COPY_DEPTH - 1 :
              /\ Frames(rd_ptr, f, n, frame_len, memory, copy_vld, copy_data)
              /\ rd_ptr_tmp = Nth(rd_ptr, f) /\ wr_ptr = Nth(rd_ptr, n)
              /\ Frames(rd_ptr', f1, n1, frame_len, memory, copy_vld', copy_data')
              /\ rd_ptr_tmp' = Nth(rd_ptr', f1) /\ wr_ptr = Nth(rd_ptr', n1)
              /\ n1 + 1 = COPY_DEPTH => CopyInWait
              /\ Goes(rd, again, f, n, NSent(f1, copy_vld'), n1)
<1> DEFINE ends == copy_vld /\ rd /\ copy_data.last
           copy == ends /\ again
           read == (rd \/ ~copy_vld) /\ ~CopyOutWait(copy)
           from == IF copy THEN rd_ptr ELSE rd_ptr_tmp
<1>1. PICK s, f, n :
          /\ s = rd_ptr /\ f \in 0 .. COPY_DEPTH - 1 /\ n \in 0 .. COPY_DEPTH - 1
          /\ Frames(s, f, n, frame_len, memory, copy_vld, copy_data)
          /\ rd_ptr_tmp = Nth(s, f) /\ wr_ptr = Nth(s, n)
  BY DEF FrameInv
<1>2. s \in Slots /\ f \in 0 .. n /\ (copy_vld => f > 0)
  BY <1>1 DEF Frames
<1>3. n + 1 = COPY_DEPTH => CopyInWait
  BY <1>1, <1>2, NthAre, CopyAssumption DEF CopyInWait
<1>4. /\ rd_ptr' = IF ends /\ ~again THEN rd_ptr_tmp ELSE rd_ptr
      /\ rd_ptr_tmp' = IF read THEN NextSlot(from) ELSE rd_ptr_tmp
      /\ copy_vld' = IF rd \/ ~copy_vld THEN ~CopyOutWait(copy) ELSE copy_vld
      /\ copy_data' = IF read THEN memory[from] ELSE copy_data
  BY DEF FifoCycle, FifoCopyCycle, NextRdPtr, NextRdPtrTmp
<1>5. CopyOutWait(copy) <=> ~copy /\ wr_ptr = rd_ptr_tmp
  BY DEF CopyOutWait
<1>6. copy_vld \in BOOLEAN
  BY DEF FrameInv
<1>7. PICK g, m :
          /\ g \in 0 .. COPY_DEPTH - 1 /\ m \in 0 .. n
          /\ Frames(rd_ptr', g, m, frame_len, memory, copy_vld /\ ~rd, copy_data)
          /\ from = Nth(rd_ptr', g) /\ wr_ptr = Nth(rd_ptr', m)
          /\ Goes(rd, again, f, n, NSent(g, copy_vld /\ ~rd), m)
  <2>1. CASE ends /\ ~again
    <3>1. copy_vld = TRUE /\ (copy_vld /\ ~rd) = FALSE /\ copy_data.last
      BY <1>6, <2>1
    <3>2. Frames(Nth(s, f), 0, n - f, frame_len, memory, FALSE, copy_data)
      BY <1>1, <3>1, FrameEnds
    <3>3. rd_ptr' = Nth(s, f) /\ from = rd_ptr_tmp
      BY <1>1, <1>4, <2>1
    <3>4. Nth(Nth(s, f), 0) = Nth(s, f) /\ Nth(Nth(s, f), n - f) = Nth(s, n) /\ n - f \in 0 .. n
          /\ 0 \in 0 .. COPY_DEPTH - 1
      <4>1. n - f \in 0 .. COPY_DEPTH - 1 /\ f + (n - f) = n /\ n < COPY_DEPTH /\ n - f \in 0 .. n
            /\ 0 \in 0 .. COPY_DEPTH - 1
        BY <1>1, <1>2, CopyAssumption
      <4>2. \A j \in 0 .. COPY_DEPTH - 1 :
                f + j < COPY_DEPTH => Nth(Nth(s, f), j) = Nth(s, f + j)
        BY <1>1, <1>2, NthAre
      <4>3. Nth(s, f) \in Slots
        BY <1>1, <1>2, NthAre
      <4> QED
        BY <4>1, <4>2, <4>3, NthAre
    <3>5. Goes(rd, again, f, n, NSent(0, copy_vld /\ ~rd), n - f)
      BY <1>1, <2>1, <3>1, <3>3 DEF Goes, NSent
    <3> QED
      BY <1>1, <3>1, <3>2, <3>3, <3>4, <3>5
  <2>2. CASE copy
    <3>1. (copy_vld /\ ~rd) = FALSE
      BY <2>2
    <3>2. Frames(s, 0, n, frame_len, memory, FALSE, copy_data)
      BY <1>1, FrameRestarts
    <3>3. rd_ptr' = s /\ from = s /\ Nth(s, 0) = s /\ 0 \in 0 .. COPY_DEPTH - 1 /\ n \in 0 .. n
      BY <1>1, <1>2, <1>4, <2>2, NthAre, CopyAssumption
    <3>4. Goes(rd, again, f, n, NSent(0, copy_vld /\ ~rd), n)
      BY <1>1, <2>2, <3>1, <3>3 DEF Goes, NSent
    <3> QED
      BY <1>1, <3>1, <3>2, <3>3, <3>4
  <2>3. CASE ~ends
    <3>1. rd_ptr' = s /\ from = rd_ptr_tmp /\ n \in 0 .. n
      BY <1>1, <1>4, <2>3, CopyAssumption
    <3>2. CASE copy_vld /\ rd
      <4>1. copy_vld = TRUE /\ (copy_vld /\ ~rd) = FALSE /\ ~copy_data.last
        BY <1>6, <2>3, <3>2
      <4>2. Frames(s, f, n, frame_len, memory, FALSE, copy_data)
        BY <1>1, <4>1, WordLeaves
      <4>3. Goes(rd, again, f, n, NSent(f, copy_vld /\ ~rd), n)
        BY <1>1, <2>3, <3>1, <3>2, <4>1 DEF Goes, NSent
      <4> QED
        BY <1>1, <3>1, <4>1, <4>2, <4>3
    <3>3. CASE ~(copy_vld /\ rd)
      <4>1. (copy_vld /\ ~rd) = copy_vld
        BY <1>6, <3>3
      <4>2. Goes(rd, again, f, n, NSent(f, copy_vld /\ ~rd), n)
        BY <1>1, <3>1, <3>3, <4>1 DEF Goes
      <4> QED
        BY <1>1, <3>1, <4>1, <4>2
    <3> QED
      BY <3>2, <3>3
  <2> QED
    BY <2>1, <2>2, <2>3
<1>8. rd_ptr' \in Slots /\ g <= m /\ m <= n /\ m \in 0 .. COPY_DEPTH - 1
  BY <1>1, <1>7, CopyAssumption DEF Frames
<1>9. m + 1 = COPY_DEPTH => CopyInWait
  <2>1. m + 1 = COPY_DEPTH => n + 1 = COPY_DEPTH
    BY <1>1, <1>7, <1>8, CopyAssumption
  <2> QED
    BY <1>3, <2>1
<1>10. CASE read
  <2>1. copy_vld' = TRUE /\ (copy_vld /\ ~rd) = FALSE
    BY <1>4, <1>10
  <2>2. g < m
    <3>1. CASE copy
      <4>1. rd_ptr' = s /\ from = s
        BY <1>1, <1>4, <3>1
      <4>2. Nth(s, 0) = s /\ 0 \in 0 .. COPY_DEPTH - 1
        BY <1>2, NthAre, CopyAssumption
      <4>3. g = 0 /\ m = n
        <5>1. Nth(s, g) = Nth(s, 0) /\ Nth(s, m) = Nth(s, n)
          BY <1>1, <1>7, <4>1, <4>2
        <5>2. s \in Slots /\ g \in 0 .. COPY_DEPTH - 1 /\ m \in 0 .. COPY_DEPTH - 1
              /\ n \in 0 .. COPY_DEPTH - 1
          BY <1>1, <1>2, <1>7, <1>8
        <5> QED
          BY <4>2, <5>1, <5>2, NthAre
      <4>4. copy_vld
        BY <3>1
      <4> QED
        BY <1>1, <1>2, <4>3, <4>4, CopyAssumption
    <3>2. CASE ~copy
      BY <1>5, <1>7, <1>8, <1>10, <3>2, CopyAssumption
    <3> QED
      BY <3>1, <3>2
  <2>3. Frames(rd_ptr', g, m, frame_len, memory, FALSE, copy_data)
    BY <1>7, <2>1
  <2>4. copy_data' = memory[Nth(rd_ptr', g)] /\ rd_ptr_tmp' = NextSlot(Nth(rd_ptr', g))
    BY <1>4, <1>7, <1>10
  <2>5. Frames(rd_ptr', g + 1, m, frame_len, memory, TRUE, copy_data')
    BY <2>2, <2>3, <2>4, WordIsFetched
  <2>6. rd_ptr_tmp' = Nth(rd_ptr', g + 1) /\ g + 1 \in 0 .. COPY_DEPTH - 1
    BY <1>7, <1>8, <2>2, <2>4, NthAre, CopyAssumption
  <2>7. NSent(g + 1, copy_vld') = NSent(g, copy_vld /\ ~rd)
    BY <1>7, <2>1 DEF NSent
  <2> QED
    BY <1>1, <1>7, <1>8, <1>9, <2>1, <2>5, <2>6, <2>7
<1>11. CASE ~read
  <2>1. copy_vld' = (copy_vld /\ ~rd) /\ ~copy
    BY <1>4, <1>5, <1>6, <1>11
  <2>2. copy_data' = copy_data /\ rd_ptr_tmp' = Nth(rd_ptr', g)
    BY <1>4, <1>7, <1>11, <2>1
  <2>3. NSent(g, copy_vld') = NSent(g, copy_vld /\ ~rd)
    BY <2>1
  <2> QED
    BY <1>1, <1>7, <1>8, <1>9, <2>1, <2>2, <2>3
<1> QED
  BY <1>10, <1>11

LEMMA CycleKeepsFrames ==
    ASSUME FrameInv, copy_mode = "fifo",
           NEW in \in {<<>>} \cup {<<word>> : word \in CopyInputs},
           NEW rd \in BOOLEAN, NEW again \in BOOLEAN, CopyCycle(in, rd, again)
    PROVE  FrameInv'
<1>1. FifoCycle(in, rd, again) /\ frame_len' = NextFrameLen(in_xfer')
  BY DEF CopyCycle
<1>2. PICK f, n :
          /\ f \in 0 .. COPY_DEPTH - 1 /\ n \in 0 .. COPY_DEPTH - 1
          /\ Frames(rd_ptr', f, n, frame_len, memory, copy_vld', copy_data')
          /\ rd_ptr_tmp' = Nth(rd_ptr', f) /\ wr_ptr = Nth(rd_ptr', n)
          /\ n + 1 = COPY_DEPTH => CopyInWait
  BY <1>1, OutputGoes
<1>3. copy_vld' \in BOOLEAN
  BY <1>1 DEF FrameInv, FifoCycle
<1> DEFINE write == in # <<>> /\ ~CopyInWait
<1>4. /\ wr_ptr' = IF write THEN NextSlot(wr_ptr) ELSE wr_ptr
      /\ memory' = IF write THEN [memory EXCEPT ![wr_ptr] = in[1]] ELSE memory
      /\ in_xfer' = IF write THEN in ELSE <<>>
  BY <1>1 DEF FifoCycle, FifoCopyCycle
<1>5. CASE ~write
  <2>1. frame_len' = frame_len /\ memory' = memory /\ wr_ptr' = wr_ptr
    BY <1>1, <1>4, <1>5 DEF NextFrameLen
  <2> QED
    BY <1>2, <1>3, <2>1 DEF FrameInv
<1>6. CASE write
  <2>1. PICK new \in CopyInputs : in = <<new>>
    BY <1>6
  <2>2. frame_len' = IF new.last THEN 0 ELSE frame_len + 1
    BY <1>1, <1>4, <1>6, <2>1 DEF NextFrameLen
  <2>3. frame_len' \in 0 .. MAX_FRAME_LEN - 1
    <3>1. frame_len = MAX_FRAME_LEN - 1 => new.last
      BY DEF CopyInputs
    <3>2. frame_len \in 0 .. MAX_FRAME_LEN - 1
      BY DEF FrameInv
    <3> QED
      BY <2>2, <3>1, <3>2, CopyAssumption
  <2>4. n + 1 < COPY_DEPTH /\ n + 1 \in 0 .. COPY_DEPTH - 1
    BY <1>2, <1>6, CopyAssumption
  <2>5. memory' = [memory EXCEPT ![Nth(rd_ptr', n)] = new]
    BY <1>2, <1>4, <1>6, <2>1
  <2>6. Frames(rd_ptr', f, n + 1, frame_len', memory', copy_vld', copy_data')
    BY <1>2, <2>2, <2>4, <2>5, WordEnters
  <2>7. wr_ptr' = Nth(rd_ptr', n + 1)
    <3>1. rd_ptr' \in Slots
      BY <1>2 DEF Frames
    <3> QED
      BY <1>2, <1>4, <1>6, <2>4, <3>1, NthAre
  <2> QED
    BY <1>2, <1>3, <2>3, <2>4, <2>6, <2>7 DEF FrameInv
<1> QED
  BY <1>5, <1>6

LEMMA InitFrames == CopyInit => FrameInv
<1> SUFFICES ASSUME CopyInit  PROVE FrameInv
  OBVIOUS
<1>1. /\ rd_ptr = 0 /\ rd_ptr_tmp = 0 /\ wr_ptr = 0 /\ 0 \in Slots /\ 0 \in 0 .. COPY_DEPTH - 1
      /\ copy_vld = FALSE /\ frame_len = 0 /\ 0 \in 0 .. MAX_FRAME_LEN - 1
      /\ DOMAIN memory = Slots
  BY CopyAssumption DEF CopyInit, Slots
<1>2. Nth(0, 0) = 0
  BY <1>1, NthAre
<1>3. Frames(0, 0, 0, 0, memory, FALSE, copy_data)
  BY <1>1, CopyAssumption DEF Frames
<1> QED
  BY <1>1, <1>2, <1>3 DEF FrameInv

\* Nothing is left to send when everything that is stored was sent.
LEMMA NothingToSend ==
    ASSUME copy_mode = "fifo", wr_ptr \in Slots, rd_ptr_tmp \in Slots, CopyContents = <<>>
    PROVE  ~copy_vld /\ rd_ptr_tmp = wr_ptr
<1> DEFINE shown == IF copy_vld THEN <<copy_data>> ELSE <<>>
           n == (wr_ptr - rd_ptr_tmp + COPY_DEPTH) % COPY_DEPTH
           ring == [i \in 1 .. n |-> memory[(rd_ptr_tmp + i - 1) % COPY_DEPTH]]
           words == shown \o ring
<1>1. n \in Nat /\ (n = 0 => rd_ptr_tmp = wr_ptr)
  BY CopyAssumption DEF Slots
<1>2. shown \in Seq({copy_data}) /\ (copy_vld => Len(shown) = 1) /\ Len(shown) \in Nat
  <2>1. CASE copy_vld
    BY <2>1
  <2>2. CASE ~copy_vld
    BY <2>2
  <2> QED
    BY <2>1, <2>2
<1>3. ShownRest(words) = <<>>
  BY DEF CopyContents, Ring
<1> HIDE DEF n
<1> DEFINE stored == {ring[i] : i \in 1 .. n}
<1>4. ring \in Seq(stored) /\ Len(ring) = n
  <2>1. ring \in [1 .. n -> stored]
    OBVIOUS
  <2> HIDE DEF ring, stored
  <2> QED
    BY <1>1, <2>1
<1> HIDE DEF shown, ring, stored
<1>5. Len(words) = Len(shown) + n /\ DOMAIN words = 1 .. Len(words)
  <2>1. PICK T : T = {copy_data} \cup stored
    OBVIOUS
  <2>2. shown \in Seq(T) /\ ring \in Seq(T)
    BY <1>2, <1>4, <2>1
  <2>3. words \in Seq(T) /\ Len(words) = Len(shown) + Len(ring)
    BY <2>2, ConcatProperties
  <2> QED
    BY <1>4, <2>3
<1> HIDE DEF words
<1>6. Len(words) = 0
  <2>1. DOMAIN ShownRest(words) = 1 .. Len(words)
    BY DEF ShownRest
  <2>2. 1 .. Len(words) = {}
    BY <1>3, <2>1
  <2> QED
    BY <1>1, <1>2, <1>5, <2>2
<1> QED
  BY <1>1, <1>2, <1>5, <1>6

LEMMA FramesFit ==
    ASSUME COPY_DEPTH > MAX_FRAME_LEN, copy_mode = "fifo", FrameInv
    PROVE  FrameFits
<1> SUFFICES ASSUME CopyInWait, CopyContents = <<>>  PROVE FALSE
  BY DEF FrameFits
<1>1. PICK s, f, n :
          /\ s = rd_ptr /\ f \in 0 .. COPY_DEPTH - 1 /\ n \in 0 .. COPY_DEPTH - 1
          /\ Frames(s, f, n, frame_len, memory, copy_vld, copy_data)
          /\ rd_ptr_tmp = Nth(s, f) /\ wr_ptr = Nth(s, n)
  BY DEF FrameInv
<1>2. s \in Slots /\ frame_len \in 0 .. MAX_FRAME_LEN - 1
  BY <1>1 DEF Frames, FrameInv
<1>3. wr_ptr \in Slots /\ rd_ptr_tmp \in Slots
  BY <1>1, <1>2, NthAre
<1>4. ~copy_vld /\ rd_ptr_tmp = wr_ptr
  BY <1>3, NothingToSend
<1>5. f = n
  <2>1. Nth(s, f) = Nth(s, n)
    BY <1>1, <1>4
  <2> QED
    BY <1>1, <1>2, <2>1, NthAre
<1>6. n = COPY_DEPTH - 1
  <2>1. n + 1 < COPY_DEPTH => NextSlot(wr_ptr) = Nth(s, n + 1) /\ n + 1 \in 0 .. COPY_DEPTH - 1
    BY <1>1, <1>2, NthAre, CopyAssumption
  <2>2. Nth(s, 0) = s /\ 0 \in 0 .. COPY_DEPTH - 1
    BY <1>2, NthAre, CopyAssumption
  <2>3. ~(n + 1 < COPY_DEPTH)
    BY <1>1, <1>2, <2>1, <2>2, NthAre, CopyAssumption DEF CopyInWait
  <2> QED
    BY <1>1, <2>3, CopyAssumption
<1>7. frame_len < n /\ n - frame_len - 1 \in 0 .. f - 1
  BY <1>2, <1>5, <1>6, CopyAssumption
<1> QED
  BY <1>1, <1>4, <1>7 DEF Frames

\* Axi4SFifoCopy never waits for itself: when its ring is full there is a word to send, for any
\* ring with more slots than a frame has words, however the frames come, leave and are repeated.
THEOREM FramesAlwaysFit ==
    ASSUME COPY_DEPTH > MAX_FRAME_LEN
    PROVE  CopySpec => []FrameFits
<1> DEFINE Step == \E in \in {<<>>} \cup {<<word>> : word \in CopyInputs}, rd, again \in BOOLEAN :
                       CopyCycle(in, rd, again)
           Inv == copy_mode = "fifo" => FrameInv
<1>1. Inv /\ [Step]_copyVars => Inv'
  <2>1. Inv /\ UNCHANGED copyVars => Inv'
    BY DEF copyVars, FrameInv
  <2>2. ASSUME Inv, NEW in \in {<<>>} \cup {<<word>> : word \in CopyInputs},
               NEW rd \in BOOLEAN, NEW again \in BOOLEAN, CopyCycle(in, rd, again)
        PROVE  Inv'
    <3>1. copy_mode' = copy_mode
      BY <2>2 DEF CopyCycle
    <3> QED
      BY <2>2, <3>1, CycleKeepsFrames
  <2> QED
    BY <2>1, <2>2
<1>2. CopyInit => Inv
  BY InitFrames
<1>3. Inv => FrameFits
  BY FramesFit DEF FrameFits
<1> QED
  BY <1>1, <1>2, <1>3, PTL DEF CopySpec

---------------------------------------------------------------------------
(* Numbers *)

\* Any numbers have a least one.
LEMMA LeastExists ==
    ASSUME NEW S, S \subseteq Nat, S # {}
    PROVE  \E w \in S : \A v \in S : w <= v
<1> DEFINE R == {ss \in Nat \X Nat : ss[1] < ss[2]}
<1>1. IsWellFoundedOn(R, Nat)
  BY NatLessThanWellFounded, SMT DEF OpToRel
<1>2. PICK x \in S : \A y \in S : ~(<<y, x>> \in R)
  <2> HIDE DEF R
  <2> QED  BY <1>1, WFMin
<1>3. \A y \in S : x <= y
  <2> SUFFICES ASSUME NEW y \in S  PROVE x <= y
    OBVIOUS
  <2>1. x \in Nat /\ y \in Nat
    OBVIOUS
  <2>2. y < x => <<y, x>> \in R
    BY <2>1, SMT
  <2> QED  BY <1>2, <2>1, <2>2, SMT
<1> QED  BY <1>3

\* The rest of a number that is less than twice the divisor.
LEMMA ModuloOnce ==
  ASSUME NEW m \in Nat \ {0}, NEW x \in 0 .. 2 * m - 1
  PROVE  x % m = IF x >= m THEN x - m ELSE x
<1>1. CASE x < m
  BY <1>1
<1>2. CASE x >= m
  <2>1. (x - m) \in 0 .. m - 1 /\ x = m * 1 + (x - m)
    BY <1>2
  <2>2. PICK r \in 0 .. m - 1 : r = x - m
    BY <2>1
  <2>3. (m * 1 + r) % m = r
    OBVIOUS
  <2> QED
    BY <1>2, <2>1, <2>2, <2>3
<1> QED
  BY <1>1, <1>2

---------------------------------------------------------------------------
(* The write aggregator: the items *)

RingOK ==
    /\ write_ptr \in OooFifo!Slots /\ read_ptr \in OooFifo!Slots /\ looped \in BOOLEAN
    /\ looped => write_ptr <= read_ptr
    /\ ~looped => read_ptr <= write_ptr

\* An edge adds the item at the write pointer to those that wait, and takes away the one
\* at the read pointer.
LEMMA ItemsMove ==
  ASSUME RingOK, NEW w \in BOOLEAN, NEW r \in BOOLEAN,
         w => ~OooFifo!WriteWait, r => ~OooFifo!ReadWait, OooFifo!PointersCycle(w, r)
  PROVE  /\ RingOK'
         /\ OooFifo!Waiting' = (OooFifo!Waiting \cup IfSet(w, write_ptr)) \ IfSet(r, read_ptr)
         /\ ~w => write_ptr' = write_ptr
         /\ ~r => read_ptr' = read_ptr
<1> DEFINE top == LSU_ITEMS - 1
<1>0. top \in Nat /\ OooFifo!Slots = 0 .. top
  BY ItemsAssumption DEF OooFifo!Slots, OooFifo!MAX_DEPTH
<1>1. /\ write_ptr \in 0 .. top /\ read_ptr \in 0 .. top /\ looped \in BOOLEAN
      /\ looped => write_ptr <= read_ptr
      /\ ~looped => read_ptr <= write_ptr
  BY <1>0 DEF RingOK
<1>2. /\ w => ~looped \/ write_ptr # read_ptr
      /\ r => looped \/ write_ptr # read_ptr
  BY DEF OooFifo!WriteWait, OooFifo!ReadWait
<1>3. /\ write_ptr' = IF w THEN (IF write_ptr = top THEN 0 ELSE write_ptr + 1) ELSE write_ptr
      /\ read_ptr' = IF r THEN (IF read_ptr = top THEN 0 ELSE read_ptr + 1) ELSE read_ptr
      /\ looped' <=> (w /\ write_ptr = top) \/ (looped /\ ~(r /\ read_ptr = top))
      /\ looped' \in BOOLEAN
  BY <1>2 DEF OooFifo!PointersCycle, OooFifo!FifoWrite, OooFifo!FifoRead, OooFifo!NextPtr,
              OooFifo!NextLooped, OooFifo!MAX_DEPTH
<1>4. OooFifo!Waiting = {i \in 0 .. top : IF looped THEN i >= read_ptr \/ i < write_ptr
                                          ELSE i >= read_ptr /\ i < write_ptr}
  BY <1>0 DEF OooFifo!Waiting
<1>5. OooFifo!Waiting' = {i \in 0 .. top : IF looped' THEN i >= read_ptr' \/ i < write_ptr'
                                           ELSE i >= read_ptr' /\ i < write_ptr'}
  BY <1>0 DEF OooFifo!Waiting, OooFifo!Slots, OooFifo!MAX_DEPTH
<1>6. OooFifo!Slots' = 0 .. top
  BY <1>0 DEF OooFifo!Slots, OooFifo!MAX_DEPTH
<1> HIDE DEF top
<1>7. /\ write_ptr' \in 0 .. top /\ read_ptr' \in 0 .. top
      /\ looped' => write_ptr' <= read_ptr'
      /\ ~looped' => read_ptr' <= write_ptr'
  BY <1>0, <1>1, <1>2, <1>3
<1>8. RingOK'
  BY <1>3, <1>6, <1>7 DEF RingOK
<1>9. ASSUME NEW i \in 0 .. top
      PROVE  (i \in OooFifo!Waiting') <=>
             (i \in OooFifo!Waiting \/ (w /\ i = write_ptr)) /\ ~(r /\ i = read_ptr)
  <2>1. (i \in OooFifo!Waiting) <=> (IF looped THEN i >= read_ptr \/ i < write_ptr
                                     ELSE i >= read_ptr /\ i < write_ptr)
    BY <1>4
  <2>2. (i \in OooFifo!Waiting') <=> (IF looped' THEN i >= read_ptr' \/ i < write_ptr'
                                      ELSE i >= read_ptr' /\ i < write_ptr')
    BY <1>5
  <2> HIDE DEF OooFifo!Waiting
  <2>3. CASE w /\ r
    BY <1>0, <1>1, <1>2, <1>3, <2>1, <2>2, <2>3
  <2>4. CASE w /\ ~r
    BY <1>0, <1>1, <1>2, <1>3, <2>1, <2>2, <2>4
  <2>5. CASE ~w /\ r
    BY <1>0, <1>1, <1>2, <1>3, <2>1, <2>2, <2>5
  <2>6. CASE ~w /\ ~r
    BY <1>0, <1>1, <1>2, <1>3, <2>1, <2>2, <2>6
  <2> QED
    BY <2>3, <2>4, <2>5, <2>6
<1>10. OooFifo!Waiting \subseteq 0 .. top /\ OooFifo!Waiting' \subseteq 0 .. top
  BY <1>4, <1>5
<1>11. OooFifo!Waiting' = (OooFifo!Waiting \cup IfSet(w, write_ptr)) \ IfSet(r, read_ptr)
  BY <1>1, <1>9, <1>10 DEF IfSet
<1> QED
  BY <1>3, <1>8, <1>11

LEMMA ReaderWaits ==
  ASSUME RingOK, ~OooFifo!ReadWait
  PROVE  read_ptr \in OooFifo!Waiting
BY ItemsAssumption DEF RingOK, OooFifo!ReadWait, OooFifo!Waiting, OooFifo!Slots, OooFifo!MAX_DEPTH

---------------------------------------------------------------------------
(* The addresses that are on their way and the words behind them *)

\* Whether the word of q, when there is one, is the last of its burst.
Mark(q) == IF q # <<>> /\ q[1].last THEN 1 ELSE 0

\* aws are the addresses without all of their words, r and x the two places for words on
\* their way, in this order; open tells whether a burst is being read, of the line `line'.
InOrder(aws, r, x, open, line) ==
    /\ Len(aws) = Mark(r) + Mark(x) + (IF open THEN 1 ELSE 0)
    /\ r # <<>> => Len(aws) >= 1 /\ r[1].line = aws[1].line
    /\ x # <<>> => Len(aws) >= 1 + Mark(r) /\ x[1].line = aws[1 + Mark(r)].line
    /\ open => aws[Len(aws)].line = line

LEMMA MarkIs ==
  ASSUME NEW q
  PROVE  Mark(q) \in 0 .. 1 /\ Mark(<<>>) = 0
BY DEF Mark

\* A burst starts.
LEMMA BurstStarts ==
  ASSUME NEW S, NEW aws \in Seq(S), NEW r, NEW a \in S, NEW w, NEW line,
         InOrder(aws, r, <<>>, FALSE, line), w[1].line = a.line, w # <<>>
  PROVE  InOrder(Append(aws, a), r, w, ~w[1].last, a.line)
<1>1. PICK n \in {0, 1} : n = Mark(r)
  BY MarkIs
<1>2. Len(aws) = n
  BY <1>1, MarkIs DEF InOrder
<1>3. PICK b \in Seq(S) : b = Append(aws, a)
  BY AppendProperties
<1>4. Len(b) = n + 1 /\ b[n + 1] = a /\ (n = 1 => b[1] = aws[1])
  BY <1>2, <1>3
<1>5. n + 1 = n + Mark(w) + (IF ~w[1].last THEN 1 ELSE 0)
  BY <1>1 DEF Mark
<1>6. r # <<>> => n + 1 >= 1 /\ r[1].line = b[1].line
  <2>1. r # <<>> => Len(aws) >= 1 /\ r[1].line = aws[1].line
    BY DEF InOrder
  <2>2. r # <<>> => n = 1
    BY <1>2, <2>1
  <2> QED
    BY <1>1, <1>4, <2>1, <2>2
<1>7. InOrder(b, r, w, ~w[1].last, a.line)
  BY <1>1, <1>4, <1>5, <1>6 DEF InOrder
<1> QED
  BY <1>3, <1>7

\* A burst goes on.
LEMMA BurstGoesOn ==
  ASSUME NEW aws, NEW r, NEW w, NEW line,
         InOrder(aws, r, <<>>, TRUE, line), w[1].line = line, w # <<>>
  PROVE  InOrder(aws, r, w, ~w[1].last, line)
<1>1. PICK n \in {0, 1} : n = Mark(r)
  BY MarkIs
<1>2. Len(aws) = n + 1 /\ aws[n + 1].line = line
  BY <1>1, MarkIs DEF InOrder
<1>3. n + 1 = n + Mark(w) + (IF ~w[1].last THEN 1 ELSE 0)
  BY <1>1 DEF Mark
<1>4. 1 + n = n + 1 /\ n + 1 >= 1
  BY <1>1
<1>5. r # <<>> => n + 1 >= 1 /\ r[1].line = aws[1].line
  BY <1>4 DEF InOrder
<1> QED
  BY <1>1, <1>2, <1>3, <1>4, <1>5 DEF InOrder

\* The oldest word leaves, and the other one takes its place; the last word of a burst
\* takes the address with it.
LEMMA WordsShift ==
  ASSUME NEW S, NEW aws \in Seq(S), NEW r, NEW x, NEW open \in BOOLEAN, NEW line,
         InOrder(aws, r, x, open, line)
  PROVE  InOrder(IF Mark(r) = 1 THEN Tail(aws) ELSE aws, x, <<>>, open, line)
<1>1. PICK k \in 0 .. 1, n \in 0 .. 1, p \in {0, 1} :
         k = Mark(r) /\ n = Mark(x) /\ p = (IF open THEN 1 ELSE 0)
  BY MarkIs
<1>2. Len(aws) = k + n + p /\ Mark(<<>>) = 0
  BY <1>1, MarkIs DEF InOrder
<1>3. CASE k = 0
  <2>1. x # <<>> => Len(aws) >= 1 /\ x[1].line = aws[1].line
    BY <1>1, <1>3 DEF InOrder
  <2>2. Len(aws) = Mark(x) + Mark(<<>>) + (IF open THEN 1 ELSE 0)
    BY <1>1, <1>2, <1>3
  <2>3. InOrder(aws, x, <<>>, open, line)
    BY <2>1, <2>2 DEF InOrder
  <2> QED
    BY <1>1, <1>3, <2>3
<1>4. CASE k = 1
  <2>1. PICK t \in Seq(S) : t = Tail(aws)
    <3>1. Len(aws) # 0
      BY <1>2, <1>4
    <3>2. aws # <<>>
      BY <3>1
    <3> QED
      BY <3>2, HeadTailProperties
  <2>2. Len(t) = n + p /\ \A i \in 1 .. n + p : t[i] = aws[i + 1]
    BY <1>2, <1>4, <2>1
  <2>3. x # <<>> => Len(t) >= 1 /\ x[1].line = t[1].line
    <3>1. x # <<>> => Len(aws) >= 2 /\ x[1].line = aws[2].line
      BY <1>1, <1>4 DEF InOrder
    <3>2. x # <<>> => n + p >= 1 /\ t[1] = aws[2]
      BY <1>2, <1>4, <2>2, <3>1
    <3> QED
      BY <2>2, <3>1, <3>2
  <2>4. open => t[Len(t)].line = line
    <3>1. open => n + p >= 1 /\ Len(aws) = (n + p) + 1 /\ aws[Len(aws)].line = line
      BY <1>1, <1>2, <1>4 DEF InOrder
    <3> QED
      BY <2>2, <3>1
  <2>5. Len(t) = Mark(x) + Mark(<<>>) + (IF open THEN 1 ELSE 0)
    BY <1>1, <1>2, <2>2
  <2>6. InOrder(t, x, <<>>, open, line)
    BY <2>3, <2>4, <2>5 DEF InOrder
  <2> QED
    BY <1>1, <1>4, <2>1, <2>6
<1> QED
  BY <1>3, <1>4

---------------------------------------------------------------------------
(* The items of the addresses that are on their way *)

\* The items of the addresses q differ; each is allocated, is not among those that are to be
\* confirmed, un, and does not wait, but for the one of the burst that is being read.
IdsKept(q, un, wait, valid, open, rp) ==
    /\ \A i, j \in 1 .. Len(q) : q[i].id = q[j].id => i = j
    /\ \A i \in 1 .. Len(q) : /\ q[i].id \in valid /\ q[i].id \notin un
                              /\ q[i].id \in wait => open /\ i = Len(q)
    /\ open => Len(q) >= 1 /\ q[Len(q)].id = rp /\ rp \in wait
    /\ un \subseteq valid \ wait
    /\ wait \subseteq valid

\* An item is allocated.
LEMMA IdsAlloc ==
  ASSUME NEW q, NEW un, NEW wait, NEW valid, NEW open, NEW rp, NEW add,
         IdsKept(q, un, wait, valid, open, rp), add \cap valid = {}
  PROVE  IdsKept(q, un, wait \cup add, valid \cup add, open, rp)
BY DEF IdsKept

\* A burst starts to be read.
LEMMA IdsStart ==
  ASSUME NEW S, NEW q \in Seq(S), NEW un, NEW wait, NEW valid, NEW rp, NEW a \in S,
         IdsKept(q, un, wait, valid, FALSE, rp), rp \in wait, a.id = rp
  PROVE  IdsKept(Append(q, a), un, wait, valid, TRUE, rp)
<1>1. PICK b \in Seq(S) : b = Append(q, a)
  BY AppendProperties
<1>2. PICK n \in Nat : n = Len(q)
  BY LenProperties
<1>3. Len(b) = n + 1 /\ b[n + 1] = a /\ \A i \in 1 .. n : b[i] = q[i]
  BY <1>1, <1>2
<1>4. \A i \in 1 .. n : q[i].id # rp
  BY <1>2 DEF IdsKept
<1>5. \A i \in 1 .. n + 1 : i \in 1 .. n \/ i = n + 1
  BY <1>2
<1>6. \A i, j \in 1 .. n + 1 : b[i].id = b[j].id => i = j
  <2>1. SUFFICES ASSUME NEW i \in 1 .. n + 1, NEW j \in 1 .. n + 1, b[i].id = b[j].id
                 PROVE  i = j
    OBVIOUS
  <2>2. CASE i \in 1 .. n /\ j \in 1 .. n
    BY <1>2, <1>3, <2>1, <2>2 DEF IdsKept
  <2>3. CASE i = n + 1 /\ j = n + 1
    BY <2>3
  <2>4. CASE i \in 1 .. n /\ j = n + 1
    BY <1>3, <1>4, <2>1, <2>4
  <2>5. CASE i = n + 1 /\ j \in 1 .. n
    BY <1>3, <1>4, <2>1, <2>5
  <2> QED
    BY <1>5, <2>2, <2>3, <2>4, <2>5
<1>7. \A i \in 1 .. n + 1 : /\ b[i].id \in valid /\ b[i].id \notin un
                            /\ b[i].id \in wait => i = n + 1
  <2>1. \A i \in 1 .. n : b[i].id \in valid /\ b[i].id \notin un /\ b[i].id \notin wait
    BY <1>2, <1>3 DEF IdsKept
  <2>2. rp \in valid /\ rp \notin un
    BY DEF IdsKept
  <2> QED
    BY <1>3, <1>5, <2>1, <2>2
<1>8. n + 1 >= 1 /\ un \subseteq valid \ wait /\ wait \subseteq valid
  BY <1>2 DEF IdsKept
<1>9. IdsKept(b, un, wait, valid, TRUE, rp)
  BY <1>3, <1>6, <1>7, <1>8 DEF IdsKept
<1> QED
  BY <1>1, <1>9

\* The last word of the burst was read: its item does not wait any more.
LEMMA IdsEnd ==
  ASSUME NEW q, NEW un, NEW wait, NEW valid, NEW rp, NEW next, Len(q) \in Nat,
         IdsKept(q, un, wait, valid, TRUE, rp)
  PROVE  IdsKept(q, un, wait \ {rp}, valid, FALSE, next)
<1>1. PICK n \in Nat : n = Len(q)
  OBVIOUS
<1>2. n >= 1 /\ n \in 1 .. n /\ q[n].id = rp
  BY <1>1 DEF IdsKept
<1>3. ASSUME NEW i \in 1 .. n
      PROVE  q[i].id \notin wait \ {rp}
  BY <1>1, <1>2 DEF IdsKept
<1> QED
  BY <1>1, <1>3 DEF IdsKept

\* Without an open burst the read pointer does not matter.
LEMMA IdsIdle ==
  ASSUME NEW q, NEW un, NEW wait, NEW valid, NEW rp, NEW next,
         IdsKept(q, un, wait, valid, FALSE, rp)
  PROVE  IdsKept(q, un, wait, valid, FALSE, next)
BY DEF IdsKept

\* WWords are confirmed.
LEMMA IdsConfirm ==
  ASSUME NEW q, NEW un, NEW wait, NEW valid, NEW open, NEW rp, NEW c,
         IdsKept(q, un, wait, valid, open, rp), c \subseteq un
  PROVE  IdsKept(q, un \ c, wait, valid \ c, open, rp)
BY DEF IdsKept

\* The oldest address met all of its words.
LEMMA IdsPair ==
  ASSUME NEW S, NEW q \in Seq(S), NEW un, NEW wait, NEW valid, NEW open \in BOOLEAN, NEW rp,
         IdsKept(q, un, wait, valid, open, rp), q # <<>>, open => Len(q) > 1
  PROVE  IdsKept(Tail(q), un \cup {q[1].id}, wait, valid, open, rp)
<1>1. PICK t \in Seq(S) : t = Tail(q)
  BY HeadTailProperties
<1>2. PICK n \in Nat : n = Len(t)
  BY LenProperties
<1>3. Len(q) = n + 1 /\ \A i \in 1 .. n : t[i] = q[i + 1]
  BY <1>1, <1>2
<1>4. \A i \in 1 .. n : i + 1 \in 1 .. n + 1 /\ i + 1 # 1 /\ (i + 1 = n + 1 => i = n)
  BY <1>2
<1>5. 1 \in 1 .. n + 1 /\ (1 = n + 1 => n = 0) /\ (open => n >= 1)
  BY <1>2, <1>3
<1>6. \A i, j \in 1 .. n : t[i].id = t[j].id => i = j
  <2>1. SUFFICES ASSUME NEW i \in 1 .. n, NEW j \in 1 .. n, t[i].id = t[j].id
                 PROVE  i = j
    OBVIOUS
  <2>2. i + 1 = j + 1
    BY <1>3, <1>4, <2>1 DEF IdsKept
  <2> QED
    BY <1>2, <2>2
<1>7. q[1].id \in valid \ wait
  BY <1>3, <1>5 DEF IdsKept
<1>8. \A i \in 1 .. n : /\ t[i].id \in valid /\ t[i].id \notin un \cup {q[1].id}
                        /\ t[i].id \in wait => open /\ i = n
  BY <1>3, <1>4, <1>5 DEF IdsKept
<1>9. open => n >= 1 /\ t[n].id = rp /\ rp \in wait
  <2>1. open => n \in 1 .. n
    BY <1>2, <1>5
  <2> QED
    BY <1>3, <1>5, <2>1 DEF IdsKept
<1>10. un \cup {q[1].id} \subseteq valid \ wait /\ wait \subseteq valid
  BY <1>7 DEF IdsKept
<1>11. IdsKept(t, un \cup {q[1].id}, wait, valid, open, rp)
  BY <1>2, <1>6, <1>8, <1>9, <1>10 DEF IdsKept
<1> QED
  BY <1>1, <1>11

---------------------------------------------------------------------------
(* The words in the items *)

WWords == [line : LsuLines, last : BOOLEAN]
Addresses == [id : OooFifo!Slots, line : LsuLines]

WriteTypes ==
    /\ RingOK
    /\ item_valid \in [OooFifo!Slots -> BOOLEAN] /\ unconfirmed \subseteq OooFifo!Slots
    /\ pop_offset \in Offsets /\ push_offset \in Offsets
    /\ w_in_reg \in [vld : BOOLEAN, addr : LsuLines,
                     word : [line : LsuLines \cup {Undef}, last : BOOLEAN]]
    /\ w_in_first \in BOOLEAN /\ w_line \in LsuLines
    /\ data_ram \in [OooFifo!Slots -> [Offsets -> LsuLines]]
    /\ tag_cam \in [OooFifo!Slots -> LsuLines]

\* The allocated items.
Valid == {i \in OooFifo!Slots : item_valid[i]}

\* The words of an item are of the line of its tag, those that are written into the next
\* item, and the one in the register, of the line in the register.
WordsOfTheirLine ==
    /\ \A s \in OooFifo!Waiting : \A o \in Offsets : data_ram[s][o] = tag_cam[s]
    /\ \A o \in 0 .. push_offset - 1 : data_ram[write_ptr][o] = w_in_reg.addr
    /\ w_in_reg.vld => w_in_reg.word.line = w_in_reg.addr
    /\ w_in_first <=> Next1(push_offset, w_in_reg.vld) = 0
    /\ ~w_in_first => w_line = w_in_reg.addr

LEMMA OffsetMoves ==
  ASSUME NEW offset \in Offsets, NEW moves \in BOOLEAN
  PROVE  /\ Next1(offset, moves) = IF moves THEN IF offset = LINE_WORDS - 1 THEN 0 ELSE offset + 1
                                   ELSE offset
         /\ Next1(offset, moves) \in Offsets
<1>1. offset \in 0 .. LINE_WORDS - 1 /\ offset + 1 \in 0 .. 2 * LINE_WORDS - 1
  BY ItemsAssumption DEF Offsets
<1>2. (offset + 1) % LINE_WORDS = IF offset + 1 >= LINE_WORDS THEN offset + 1 - LINE_WORDS
                                  ELSE offset + 1
  <2>1. PICK m \in Nat \ {0} : m = LINE_WORDS
    BY ItemsAssumption
  <2>2. PICK x \in 0 .. 2 * m - 1 : x = offset + 1
    BY <1>1, <2>1
  <2>3. x % m = IF x >= m THEN x - m ELSE x
    BY ModuloOnce
  <2>4. (offset + 1) % m = IF offset + 1 >= m THEN offset + 1 - m ELSE offset + 1
    BY <1>1, <2>2, <2>3
  <2> QED
    BY <2>1, <2>4, Zenon
<1> QED
  BY <1>1, <1>2, ItemsAssumption DEF Next1, Offsets

\* What one cycle does to the items.
ItemsChange(w, r, confirmed) ==
    /\ RingOK'
    /\ OooFifo!Waiting' = (OooFifo!Waiting \cup IfSet(w, write_ptr)) \ IfSet(r, read_ptr)
    /\ ~w => write_ptr' = write_ptr
    /\ ~r => read_ptr' = read_ptr
    /\ Valid' = (Valid \cup IfSet(w, write_ptr)) \ confirmed
    /\ item_valid' \in [OooFifo!Slots -> BOOLEAN]

LEMMA ItemsCycle ==
  ASSUME WriteTypes, NEW word, NEW b_rd \in BOOLEAN, NEW aw_rd \in BOOLEAN, NEW w_rd \in BOOLEAN,
         NEW confirmed \in SUBSET OooFifo!Slots, WriteCycle(word, b_rd, aw_rd, w_rd, confirmed)
  PROVE  /\ ItemsChange(InsertsLast, Pops(aw_rd, w_rd) /\ pop_offset = LINE_WORDS - 1, confirmed)
         /\ InsertsLast => write_ptr \notin Valid
         /\ Pops(aw_rd, w_rd) => read_ptr \in OooFifo!Waiting
<1>1. PICK w \in BOOLEAN : w <=> InsertsLast
  BY DEF InsertsLast, InRegPasses
<1>2. PICK r \in BOOLEAN : r <=> (Pops(aw_rd, w_rd) /\ pop_offset = LINE_WORDS - 1)
  OBVIOUS
<1>3. /\ w => ~OooFifo!WriteWait /\ ~item_valid[write_ptr]
      /\ Pops(aw_rd, w_rd) => ~OooFifo!ReadWait
      /\ r => ~OooFifo!ReadWait
  BY <1>1, <1>2 DEF InsertsLast, InRegPasses, OooFifo!WriteConfirmRd, Pops, OooFifo!ReadExecuteVld
<1>4. OooFifo!OooFifoCycle(w, r, confirmed)
  <2>1. OooFifo!OooFifoCycle(InsertsLast, Pops(aw_rd, w_rd) /\ pop_offset = LINE_WORDS - 1, confirmed)
    BY DEF WriteCycle
  <2> QED
    BY <1>1, <1>2, <2>1
<1>6. RingOK
  BY DEF WriteTypes
<1>5. /\ OooFifo!PointersCycle(w, r)
      /\ item_valid' = [i \in OooFifo!Slots |-> i \notin confirmed
                                               /\ (item_valid[i] \/ (w /\ write_ptr = i))]
  <2>1. PICK u \in BOOLEAN, v \in BOOLEAN, n \in BOOLEAN :
           /\ u <=> (w /\ OooFifo!WriteConfirmRd)
           /\ v <=> (r /\ ~OooFifo!ReadWait)
           /\ n <=> OooFifo!FifoWrite(u)
    <3>1. PICK u \in BOOLEAN, v \in BOOLEAN :
             (u <=> (w /\ OooFifo!WriteConfirmRd)) /\ (v <=> (r /\ ~OooFifo!ReadWait))
      OBVIOUS
    <3>2. OooFifo!FifoWrite(u) \in BOOLEAN
      BY DEF OooFifo!FifoWrite
    <3> QED
      BY <3>1, <3>2
  <2>2. (u <=> w) /\ (v <=> r)
    BY <1>3, <2>1 DEF OooFifo!WriteConfirmRd
  <2>3. u = w /\ v = r /\ (n <=> w)
    <3>1. (w => ~OooFifo!WriteWait) => (OooFifo!FifoWrite(w) <=> w)
      BY <1>6 DEF OooFifo!FifoWrite, OooFifo!WriteWait, RingOK
    <3> QED
      BY <1>3, <2>1, <2>2, <3>1
  <2>4. n = w
    BY <2>3
  <2>5. /\ OooFifo!PointersCycle(u, v)
        /\ item_valid' = OooFifo!NextItemValid(n, confirmed)
    <3>1. /\ u = (w /\ OooFifo!WriteConfirmRd)
          /\ v = (r /\ ~OooFifo!ReadWait)
          /\ n = OooFifo!FifoWrite(u)
      BY <2>1, Zenon DEF OooFifo!FifoWrite
    <3>2. /\ OooFifo!PointersCycle(w /\ OooFifo!WriteConfirmRd, r /\ ~OooFifo!ReadWait)
          /\ item_valid' = OooFifo!NextItemValid(OooFifo!FifoWrite(w /\ OooFifo!WriteConfirmRd),
                                                 confirmed)
      BY <1>4, Zenon DEF OooFifo!OooFifoCycle
    <3> QED
      BY <3>1, <3>2, Zenon
  <2> QED
    BY <2>3, <2>4, <2>5 DEF OooFifo!NextItemValid
<1>7. /\ RingOK'
      /\ OooFifo!Waiting' = (OooFifo!Waiting \cup IfSet(w, write_ptr)) \ IfSet(r, read_ptr)
      /\ ~w => write_ptr' = write_ptr
      /\ ~r => read_ptr' = read_ptr
  BY <1>3, <1>5, <1>6, ItemsMove
<1>8. Valid' = (Valid \cup IfSet(w, write_ptr)) \ confirmed
  BY <1>5, <1>6 DEF Valid, IfSet, RingOK, OooFifo!Slots, OooFifo!MAX_DEPTH
<1>9. item_valid' \in [OooFifo!Slots -> BOOLEAN]
  BY <1>5
<1>10. ItemsChange(w, r, confirmed)
  BY <1>7, <1>8, <1>9 DEF ItemsChange
<1>11. w => write_ptr \notin Valid
  BY <1>3 DEF Valid
<1>12. Pops(aw_rd, w_rd) => read_ptr \in OooFifo!Waiting
  BY <1>3, <1>6, ReaderWaits
<1> QED
  BY <1>1, <1>2, <1>10, <1>11, <1>12

LEMMA CellIs ==
  ASSUME NEW S, NEW T, NEW U, NEW f \in [S -> [T -> U]], NEW a \in S, NEW b \in T, NEW v,
         NEW s \in S, NEW o \in T
  PROVE  [f EXCEPT ![a][b] = v][s][o] = IF s = a /\ o = b THEN v ELSE f[s][o]
<1>1. PICK g : g = [f[a] EXCEPT ![b] = v]
  OBVIOUS
<1>2. g[o] = IF o = b THEN v ELSE f[a][o]
  BY <1>1
<1>3. [f EXCEPT ![a] = g][s] = IF s = a THEN g ELSE f[s]
  OBVIOUS
<1>4. [f EXCEPT ![a][b] = v] = [f EXCEPT ![a] = g]
  BY <1>1
<1> QED
  BY <1>2, <1>3, <1>4

Accepts(word, b_rd) == word # <<>> /\ (word[1].last => b_rd) /\ (~w_in_reg.vld \/ InRegPasses)

\* What the register and the offsets become.
LEMMA RegisterMoves ==
  ASSUME WriteTypes, WordsOfTheirLine, NEW word \in Offered1(WriteWords), NEW b_rd \in BOOLEAN,
         NEW aw_rd, NEW w_rd, NEW confirmed, WriteCycle(word, b_rd, aw_rd, w_rd, confirmed)
  PROVE  /\ push_offset' \in Offsets /\ w_in_first' \in BOOLEAN /\ w_line' \in LsuLines
         /\ w_in_reg' \in [vld : BOOLEAN, addr : LsuLines,
                           word : [line : LsuLines \cup {Undef}, last : BOOLEAN]]
         /\ push_offset' = IF InRegPasses
                           THEN IF push_offset = LINE_WORDS - 1 THEN 0 ELSE push_offset + 1
                           ELSE push_offset
         /\ w_in_reg.vld' => w_in_reg.word.line' = w_in_reg.addr'
         /\ w_in_first' <=> Next1(push_offset, w_in_reg.vld)' = 0
         /\ ~w_in_first' => w_line' = w_in_reg.addr'
         /\ push_offset' # 0 => w_in_reg.addr' = w_in_reg.addr
<1>1. PICK passes \in BOOLEAN, accepts \in BOOLEAN :
         (passes <=> InRegPasses) /\ (accepts <=> Accepts(word, b_rd))
  OBVIOUS
<1>2. w_in_reg \in [vld : BOOLEAN, addr : LsuLines,
                    word : [line : LsuLines \cup {Undef}, last : BOOLEAN]]
  BY DEF WriteTypes
<1>3. PICK vld \in BOOLEAN : vld = w_in_reg.vld
  BY <1>2
<1>4. (passes => vld) /\ (accepts => (vld => passes)) /\ (accepts => word # <<>>)
  BY <1>1, <1>3 DEF InRegPasses, Accepts
<1>5. push_offset \in Offsets /\ Offsets = 0 .. LINE_WORDS - 1 /\ LINE_WORDS - 1 \in Nat
  BY ItemsAssumption DEF WriteTypes, Offsets
<1>6. push_offset' = Next1(push_offset, passes)
  BY <1>1, Zenon DEF WriteCycle, Next1
<1>7. /\ push_offset' = IF passes THEN IF push_offset = LINE_WORDS - 1 THEN 0 ELSE push_offset + 1
                        ELSE push_offset
      /\ push_offset' \in Offsets
  BY <1>5, <1>6, OffsetMoves
<1>8. PICK next \in Offsets : next = push_offset'
  BY <1>7
<1>9. CASE accepts
  <2>1. PICK v \in WriteWords : word = <<v>>
    BY <1>4, <1>9 DEF Offered1
  <2>2. PICK ends \in BOOLEAN : ends <=> (Next1(push_offset, vld) = LINE_WORDS - 1)
    OBVIOUS
  <2>3. /\ v.line \in IF w_in_first THEN LsuLines ELSE {w_line}
        /\ v.last \in BOOLEAN /\ (v.last <=> ends)
        /\ v = [line |-> v.line, last |-> v.last]
    BY <1>3, <2>2 DEF WriteWords
  <2>4. vld = passes
    BY <1>4, <1>9
  <2>5. Next1(push_offset, vld) = next
    BY <1>6, <1>8, <2>4
  <2>6. (ends <=> next = LINE_WORDS - 1) /\ (w_in_first <=> next = 0)
    BY <1>3, <2>2, <2>5 DEF WordsOfTheirLine
  <2>7. word[1] = v
    BY <2>1
  <2>8. Accepts(word, b_rd)
    BY <1>1, <1>9
  <2>9. w_in_reg' = [vld |-> TRUE, word |-> word[1],
                     addr |-> IF w_in_first THEN word[1].line ELSE w_in_reg.addr]
    BY <2>8, Zenon DEF WriteCycle, NextInReg, Accepts
  <2>10. in_xfer' = word
    BY <2>8, Zenon DEF WriteCycle, Accepts
  <2>11. (w_in_first' <=> ends) /\ w_in_first' \in BOOLEAN /\ w_line' = v.line
    <3>1. w_in_first' = v.last /\ w_line' = v.line
      BY <1>4, <1>9, <2>7, <2>10 DEF WriteCycle
    <3> QED
      BY <2>3, <3>1
  <2>12. v.line \in LsuLines /\ (~w_in_first => v.line = w_in_reg.addr)
    BY <2>3 DEF WordsOfTheirLine, WriteTypes
  <2>13. PICK line \in LsuLines : line = v.line
    BY <2>12
  <2>14. w_in_reg' = [vld |-> TRUE, word |-> v, addr |-> line]
    BY <2>7, <2>9, <2>12, <2>13
  <2>15. w_in_reg'.vld = TRUE /\ w_in_reg'.word = v /\ w_in_reg'.addr = line
    BY <2>14
  <2>16. Next1(push_offset, w_in_reg.vld)' = Next1(next, TRUE)
    BY <1>8, <2>15 DEF Next1
  <2>17. Next1(next, TRUE) = 0 <=> next = LINE_WORDS - 1
    <3>1. Next1(next, TRUE) = IF next = LINE_WORDS - 1 THEN 0 ELSE next + 1
      BY OffsetMoves
    <3>2. next \in 0 .. LINE_WORDS - 1
      BY <1>5
    <3>3. PICK e : e = Next1(next, TRUE)
      OBVIOUS
    <3>4. PICK top \in Nat : top = LINE_WORDS - 1
      BY <1>5
    <3>5. e = (IF next = top THEN 0 ELSE next + 1) /\ next \in 0 .. top
      BY <3>1, <3>2, <3>3, <3>4
    <3>6. (e = 0) <=> (next = top)
      BY <3>5
    <3> QED
      BY <3>3, <3>4, <3>6
  <2>18. next # 0 => line = w_in_reg.addr
    BY <2>6, <2>12, <2>13
  <2>19. w_in_reg' \in [vld : BOOLEAN, addr : LsuLines,
                        word : [line : LsuLines \cup {Undef}, last : BOOLEAN]]
    BY <2>3, <2>12, <2>14
  <2> QED
    BY <1>1, <1>7, <1>8, <2>6, <2>11, <2>12, <2>13, <2>15, <2>16, <2>17, <2>18, <2>19
<1>10. CASE ~accepts
  <2>1. ~Accepts(word, b_rd)
    BY <1>1, <1>10
  <2>2. in_xfer' = <<>>
    BY <2>1, Zenon DEF WriteCycle, Accepts
  <2>3. w_in_first' = w_in_first /\ w_line' = w_line
    BY <2>2 DEF WriteCycle
  <2>4. w_in_reg' = [w_in_reg EXCEPT !.vld = @ /\ ~InRegPasses]
    BY <2>1, Zenon DEF WriteCycle, NextInReg, Accepts
  <2>5. PICK stays \in BOOLEAN : stays = (w_in_reg.vld /\ ~InRegPasses)
    OBVIOUS
  <2>6. w_in_reg' = [w_in_reg EXCEPT !.vld = stays]
    BY <2>4, <2>5
  <2>7. w_in_reg'.vld = stays /\ w_in_reg'.word = w_in_reg.word /\ w_in_reg'.addr = w_in_reg.addr
    BY <1>2, <2>6
  <2>8. w_in_reg' \in [vld : BOOLEAN, addr : LsuLines,
                       word : [line : LsuLines \cup {Undef}, last : BOOLEAN]]
    BY <1>2, <2>6
  <2>9. stays <=> vld /\ ~passes
    BY <1>1, <1>3, <2>5
  <2>10. Next1(push_offset, w_in_reg.vld)' = Next1(next, stays)
    BY <1>8, <2>7 DEF Next1
  <2>11. w_in_first <=> Next1(push_offset, vld) = 0
    BY <1>3 DEF WordsOfTheirLine
  <2>12. Next1(next, stays) = Next1(push_offset, vld)
    <3>1. CASE passes
      <4>1. vld = passes /\ ~stays
        BY <1>4, <2>9, <3>1
      <4>2. Next1(next, stays) = next
        BY <4>1 DEF Next1
      <4> QED
        BY <1>6, <1>8, <4>1, <4>2
    <3>2. CASE ~passes
      <4>1. stays = vld /\ next = push_offset
        BY <1>7, <1>8, <2>9, <3>2
      <4> QED
        BY <4>1
    <3> QED
      BY <3>1, <3>2
  <2>13. stays => w_in_reg.word.line = w_in_reg.addr
    BY <1>3, <2>9 DEF WordsOfTheirLine
  <2>14. (~w_in_first => w_line = w_in_reg.addr) /\ w_in_first \in BOOLEAN /\ w_line \in LsuLines
    BY DEF WordsOfTheirLine, WriteTypes
  <2> QED
    BY <1>1, <1>7, <2>3, <2>7, <2>8, <2>10, <2>11, <2>12, <2>13, <2>14
<1> QED
  BY <1>9, <1>10

LEMMA PassesToFree ==
  ASSUME WriteTypes, InRegPasses
  PROVE  write_ptr \notin Valid /\ w_in_reg.vld
BY DEF WriteTypes, InRegPasses, OooFifo!WriteConfirmRd, Valid

\* The words of an item stay of its line.
LEMMA DataStays ==
  ASSUME WriteTypes, WordsOfTheirLine, OooFifo!Waiting \subseteq Valid,
         NEW word \in Offered1(WriteWords), NEW b_rd \in BOOLEAN,
         NEW aw_rd \in BOOLEAN, NEW w_rd \in BOOLEAN, NEW confirmed \in SUBSET OooFifo!Slots,
         WriteCycle(word, b_rd, aw_rd, w_rd, confirmed)
  PROVE  /\ WordsOfTheirLine'
         /\ data_ram' \in [OooFifo!Slots -> [Offsets -> LsuLines]]
         /\ tag_cam' \in [OooFifo!Slots -> LsuLines]
         /\ \A s \in OooFifo!Waiting : tag_cam'[s] = tag_cam[s]
<1>1. PICK passes \in BOOLEAN, inserts \in BOOLEAN :
         /\ passes <=> InRegPasses
         /\ inserts <=> (passes /\ push_offset = LINE_WORDS - 1)
  OBVIOUS
<1>2. inserts <=> InsertsLast
  BY <1>1 DEF InsertsLast
<1>3. /\ push_offset \in 0 .. LINE_WORDS - 1 /\ Offsets = 0 .. LINE_WORDS - 1
      /\ LINE_WORDS - 1 \in Nat
      /\ write_ptr \in OooFifo!Slots /\ w_in_reg.addr \in LsuLines
      /\ data_ram \in [OooFifo!Slots -> [Offsets -> LsuLines]]
      /\ tag_cam \in [OooFifo!Slots -> LsuLines]
  BY ItemsAssumption DEF WriteTypes, Offsets, RingOK
<1>4. PICK line \in LsuLines : line = w_in_reg.addr
  BY <1>3
<1>5. passes => write_ptr \notin OooFifo!Waiting /\ w_in_reg.word.line = line
  BY <1>1, <1>4, PassesToFree DEF WordsOfTheirLine
<1>6. data_ram' = IF passes THEN [data_ram EXCEPT ![write_ptr][push_offset] = line] ELSE data_ram
  <2>1. data_ram' = IF passes
                    THEN [data_ram EXCEPT ![write_ptr][push_offset] = w_in_reg.word.line]
                    ELSE data_ram
    BY <1>1, Zenon DEF WriteCycle
  <2> QED
    BY <1>5, <2>1
<1>7. tag_cam' = IF inserts THEN [tag_cam EXCEPT ![write_ptr] = line] ELSE tag_cam
  BY <1>2, <1>4, Zenon DEF WriteCycle
<1>8. /\ tag_cam' \in [OooFifo!Slots -> LsuLines]
      /\ \A s \in OooFifo!Slots :
             tag_cam'[s] = IF inserts /\ s = write_ptr THEN line ELSE tag_cam[s]
  BY <1>3, <1>7
<1>9. \A s \in OooFifo!Slots, o \in Offsets :
          data_ram'[s][o] = IF passes /\ s = write_ptr /\ o = push_offset THEN line
                            ELSE data_ram[s][o]
  <2>1. CASE passes
    <3>1. SUFFICES ASSUME NEW s \in OooFifo!Slots, NEW o \in Offsets
                   PROVE  data_ram'[s][o] = IF s = write_ptr /\ o = push_offset THEN line
                                            ELSE data_ram[s][o]
      BY <2>1
    <3>2. data_ram' = [data_ram EXCEPT ![write_ptr][push_offset] = line]
      BY <1>6, <2>1
    <3>3. [data_ram EXCEPT ![write_ptr][push_offset] = line][s][o]
              = IF s = write_ptr /\ o = push_offset THEN line ELSE data_ram[s][o]
      BY <1>3, CellIs
    <3> QED
      BY <3>2, <3>3
  <2>2. CASE ~passes
    BY <1>6, <2>2
  <2> QED
    BY <2>1, <2>2
<1>10. data_ram' \in [OooFifo!Slots -> [Offsets -> LsuLines]]
  <2>1. CASE passes
    <3>1. PICK g \in [Offsets -> LsuLines] : g = [data_ram[write_ptr] EXCEPT ![push_offset] = line]
      BY <1>3
    <3>2. data_ram' = [data_ram EXCEPT ![write_ptr] = g]
      BY <1>6, <2>1, <3>1
    <3> QED
      BY <1>3, <3>2
  <2>2. CASE ~passes
    BY <1>3, <1>6, <2>2
  <2> QED
    BY <2>1, <2>2
<1>11. /\ push_offset' = IF passes
                         THEN IF push_offset = LINE_WORDS - 1 THEN 0 ELSE push_offset + 1
                         ELSE push_offset
       /\ w_in_reg.vld' => w_in_reg.word.line' = w_in_reg.addr'
       /\ w_in_first' <=> Next1(push_offset, w_in_reg.vld)' = 0
       /\ ~w_in_first' => w_line' = w_in_reg.addr'
       /\ push_offset' # 0 => w_in_reg.addr' = line
  BY <1>1, <1>4, RegisterMoves
<1>12. PICK r \in BOOLEAN : ItemsChange(InsertsLast, r, confirmed)
  <2>1. ItemsChange(InsertsLast, Pops(aw_rd, w_rd) /\ pop_offset = LINE_WORDS - 1, confirmed)
    BY ItemsCycle
  <2> QED
    BY <2>1
<1>13. /\ OooFifo!Waiting' \subseteq OooFifo!Waiting \cup IfSet(inserts, write_ptr)
       /\ ~inserts => write_ptr' = write_ptr
  BY <1>2, <1>12 DEF ItemsChange, IfSet
<1>14. \A s \in OooFifo!Waiting : \A o \in Offsets : data_ram[s][o] = tag_cam[s]
  BY DEF WordsOfTheirLine
<1>15. \A o \in 0 .. push_offset - 1 : data_ram[write_ptr][o] = line
  BY <1>4 DEF WordsOfTheirLine
<1>16. OooFifo!Waiting \subseteq OooFifo!Slots
  BY DEF OooFifo!Waiting
<1>17. \A s \in OooFifo!Waiting : tag_cam'[s] = tag_cam[s]
  BY <1>1, <1>5, <1>8, <1>16
<1>18. ASSUME NEW s \in OooFifo!Waiting', NEW o \in Offsets
       PROVE  data_ram'[s][o] = tag_cam'[s]
  <2>1. CASE s \in OooFifo!Waiting
    <3>1. data_ram'[s][o] = data_ram[s][o]
      BY <1>5, <1>9, <1>16, <2>1
    <3> QED
      BY <1>14, <1>17, <2>1, <3>1
  <2>2. CASE inserts /\ s = write_ptr
    <3>1. tag_cam'[s] = line
      BY <1>3, <1>8, <2>2
    <3>2. passes /\ push_offset = LINE_WORDS - 1
      BY <1>1, <2>2
    <3>3. o = push_offset \/ o \in 0 .. push_offset - 1
      BY <1>3, <3>2
    <3> QED
      BY <1>3, <1>9, <1>15, <2>2, <3>1, <3>2, <3>3
  <2> QED
    BY <1>13, <2>1, <2>2 DEF IfSet
<1>19. ASSUME NEW o \in 0 .. push_offset' - 1
       PROVE  data_ram'[write_ptr'][o] = w_in_reg'.addr
  <2>1. push_offset' # 0
    BY <1>3, <1>11
  <2>2. ~inserts /\ w_in_reg'.addr = line
    BY <1>1, <1>11, <2>1
  <2>3. o \in Offsets /\ (o \in 0 .. push_offset - 1 \/ (passes /\ o = push_offset))
    BY <1>3, <1>11, <2>1
  <2> QED
    BY <1>3, <1>9, <1>13, <1>15, <2>2, <2>3
<1>20. WordsOfTheirLine'
  BY <1>11, <1>18, <1>19 DEF WordsOfTheirLine
<1> QED
  BY <1>8, <1>10, <1>17, <1>20

---------------------------------------------------------------------------
(* The bursts: their addresses and their words *)

\* The addresses without all of their words, and the second of the two places for words.
Opened == lone_aws \o a_tmp
Second == IF ram_dout # <<>> THEN ram_dout ELSE read_data_backup

BurstTypes ==
    /\ a_tmp \in Offered1(Addresses) /\ lone_aws \in Seq(Addresses)
    /\ lone_ws \in Offered1(LsuLines)
    /\ read_data \in Offered1(WWords) /\ ram_dout \in Offered1(WWords)
    /\ read_data_backup \in Offered1(WWords)

\* Bursts and addresses meet in their order, or the last word of a burst went ahead of the
\* one address there is.
BurstsMatch ==
    /\ read_data_backup # <<>> => ram_dout = <<>> /\ read_data # <<>>
    /\ lone_ws = <<>> => InOrder(Opened, read_data, Second, pop_offset # 0, tag_cam[read_ptr])
    /\ lone_ws # <<>> => /\ lone_aws = <<>> /\ a_tmp # <<>> /\ lone_ws = <<a_tmp[1].line>>
                         /\ read_data = <<>> /\ Second = <<>> /\ pop_offset = 0

Grown(q, starts, a) == IF starts THEN Append(q, a) ELSE q

LEMMA GrownProperties ==
  ASSUME NEW S, NEW q \in Seq(S), NEW a \in S, NEW starts \in BOOLEAN
  PROVE  /\ Grown(q, starts, a) \in Seq(S)
         /\ q # <<>> => /\ Tail(Grown(q, starts, a)) = Grown(Tail(q), starts, a)
                        /\ Grown(q, starts, a) # <<>>
                        /\ Grown(q, starts, a)[1] = q[1]
                        /\ Len(Grown(q, starts, a)) = Len(Grown(Tail(q), starts, a)) + 1
<1>1. CASE ~starts
  BY <1>1, HeadTailProperties DEF Grown
<1>2. CASE starts
  <2>1. PICK b \in Seq(S) : b = Append(q, a)
    BY AppendProperties
  <2>2. PICK n \in Nat : n = Len(q)
    BY LenProperties
  <2>3. Len(b) = n + 1 /\ b[n + 1] = a /\ \A i \in 1 .. n : b[i] = q[i]
    BY <2>1, <2>2
  <2>4. ASSUME q # <<>>
        PROVE  Tail(b) = Append(Tail(q), a) /\ b # <<>> /\ b[1] = q[1]
               /\ Len(b) = Len(Append(Tail(q), a)) + 1
    <3>1. n >= 1 /\ Tail(q) \in Seq(S) /\ Len(Tail(q)) = n - 1
      BY <2>2, <2>4, EmptySeq, HeadTailProperties
    <3>2. PICK t \in Seq(S) : t = Tail(q)
      BY <3>1
    <3>3. PICK u \in Seq(S) : u = Append(t, a)
      BY AppendProperties
    <3>4. Len(u) = n /\ u[n] = a /\ \A i \in 1 .. n - 1 : u[i] = t[i] /\ t[i] = q[i + 1]
      BY <2>2, <3>1, <3>2, <3>3
    <3>5. b # <<>>
      BY <2>2, <2>3
    <3>6. PICK v \in Seq(S) : v = Tail(b)
      BY <3>5, HeadTailProperties
    <3>7. Len(v) = n /\ \A i \in 1 .. n : v[i] = b[i + 1]
      BY <2>2, <2>3, <3>5, <3>6
    <3>8. \A i \in 1 .. n : v[i] = u[i]
      <4>1. \A i \in 1 .. n - 1 : v[i] = u[i]
        BY <2>2, <2>3, <3>4, <3>7, SMTT(30)
      <4>2. v[n] = u[n]
        BY <2>2, <2>3, <3>1, <3>4, <3>7
      <4> QED
        BY <2>2, <4>1, <4>2
    <3>9. v = u
      BY <3>4, <3>7, <3>8, SeqEqual
    <3> QED
      BY <2>2, <2>3, <3>1, <3>2, <3>3, <3>4, <3>5, <3>6, <3>9
  <2> QED
    BY <1>2, <2>1, <2>4 DEF Grown
<1> QED
  BY <1>1, <1>2

\* c is p, of the length n, and after it q, of the length k.
Joined(c, p, q, n, k) ==
    /\ Len(c) = n + k
    /\ \A i \in 1 .. n : c[i] = p[i]
    /\ \A i \in 1 .. k : c[n + i] = q[i]

LEMMA ConcatIs ==
  ASSUME NEW S, NEW p \in Seq(S), NEW q \in Seq(S), NEW n \in Nat, NEW k \in Nat,
         Len(p) = n, Len(q) = k
  PROVE  p \o q \in Seq(S) /\ Joined(p \o q, p, q, n, k)
<1>1. PICK c \in Seq(S) : c = p \o q
  BY ConcatProperties
<1>2. Len(c) = n + k /\ \A i \in 1 .. n + k : c[i] = IF i <= n THEN p[i] ELSE q[i - n]
  BY <1>1, ConcatProperties
<1>3. \A i \in 1 .. n : i \in 1 .. n + k /\ i <= n
  OBVIOUS
<1>4. \A i \in 1 .. k : n + i \in 1 .. n + k /\ ~(n + i <= n) /\ (n + i) - n = i
  OBVIOUS
<1> QED
  BY <1>1, <1>2, <1>3, <1>4 DEF Joined

LEMMA TailOfConcat ==
  ASSUME NEW S, NEW p \in Seq(S), NEW q \in Seq(S), p # <<>>
  PROVE  Tail(p \o q) = Tail(p) \o q /\ (p \o q)[1] = p[1] /\ p \o q # <<>>
<1>1. PICK c \in Seq(S) : c = p \o q
  BY ConcatProperties
<1>2. PICK n \in Nat, k \in Nat : n + 1 = Len(p) /\ k = Len(q)
  <2>1. Len(p) \in Nat /\ Len(p) # 0 /\ Len(q) \in Nat
    BY LenProperties, EmptySeq
  <2>2. Len(p) - 1 \in Nat /\ (Len(p) - 1) + 1 = Len(p)
    BY <2>1
  <2> QED
    BY <2>1, <2>2
<1>3. /\ Len(c) = n + 1 + k /\ \A i \in 1 .. n + 1 : c[i] = p[i]
      /\ \A i \in 1 .. k : c[n + 1 + i] = q[i]
  <2>1. Joined(p \o q, p, q, n + 1, k)
    BY <1>2, ConcatIs
  <2> QED
    BY <1>1, <2>1 DEF Joined
<1>4. c # <<>>
  BY <1>2, <1>3
<1>5. PICK t \in Seq(S) : t = Tail(c)
  BY <1>4, HeadTailProperties
<1>6. Len(t) = n + k /\ \A i \in 1 .. n + k : t[i] = c[i + 1]
  BY <1>2, <1>3, <1>4, <1>5
<1>7. PICK u \in Seq(S) : u = Tail(p)
  BY HeadTailProperties
<1>8. Len(u) = n /\ \A i \in 1 .. n : u[i] = p[i + 1]
  BY <1>2, <1>7
<1>9. PICK v \in Seq(S) : v = u \o q
  BY ConcatProperties
<1>10. /\ Len(v) = n + k /\ \A i \in 1 .. n : v[i] = u[i]
       /\ \A i \in 1 .. k : v[n + i] = q[i]
  <2>1. Joined(u \o q, u, q, n, k)
    BY <1>2, <1>8, ConcatIs
  <2> QED
    BY <1>9, <2>1 DEF Joined
<1>11. \A i \in 1 .. n : t[i] = v[i]
  BY <1>2, <1>3, <1>6, <1>8, <1>10
<1>12. ASSUME NEW i \in 1 .. k
       PROVE  t[n + i] = v[n + i]
  <2>1. n + i \in 1 .. n + k /\ (n + i) + 1 = n + 1 + i
    BY <1>2
  <2> QED
    BY <1>3, <1>6, <1>10, <2>1
<1>13. \A j \in 1 .. n + k : t[j] = v[j]
  <2>1. \A j \in 1 .. n + k : j \in 1 .. n \/ (j - n \in 1 .. k /\ n + (j - n) = j)
    BY <1>2
  <2> QED
    BY <1>11, <1>12, <2>1
<1>14. t = v
  BY <1>6, <1>10, <1>13, SeqEqual
<1>15. c[1] = p[1]
  <2>1. 1 \in 1 .. n + 1
    BY <1>2
  <2> QED
    BY <1>3, <2>1
<1> QED
  BY <1>1, <1>4, <1>5, <1>7, <1>9, <1>14, <1>15

Begins(aw_rd, w_rd) == Pops(aw_rd, w_rd) /\ pop_offset = 0
Ends(aw_rd, w_rd) == Pops(aw_rd, w_rd) /\ pop_offset = LINE_WORDS - 1
NewAddress == [id |-> read_ptr, line |-> tag_cam[read_ptr]]

LEMMA NewAddressIs ==
  ASSUME WriteTypes
  PROVE  /\ NewAddress \in Addresses
         /\ NewAddress.id = read_ptr /\ NewAddress.line = tag_cam[read_ptr]
BY DEF WriteTypes, RingOK, NewAddress, Addresses

\* The word that is read, and where the next one is read.
LEMMA WordRead ==
  ASSUME WriteTypes, WordsOfTheirLine, NEW word, NEW b_rd \in BOOLEAN,
         NEW aw_rd \in BOOLEAN, NEW w_rd \in BOOLEAN, NEW confirmed \in SUBSET OooFifo!Slots,
         WriteCycle(word, b_rd, aw_rd, w_rd, confirmed)
  PROVE  /\ pop_offset' \in Offsets
         /\ Pops(aw_rd, w_rd) =>
               \E w \in WWords : /\ ram_dout' = <<w>> /\ w.line = tag_cam[read_ptr]
                                 /\ w.last <=> Ends(aw_rd, w_rd)
                                 /\ pop_offset' # 0 <=> ~w.last
         /\ ~Pops(aw_rd, w_rd) => ram_dout' = <<>> /\ pop_offset' = pop_offset
<1>1. PICK pops \in BOOLEAN : pops <=> Pops(aw_rd, w_rd)
  OBVIOUS
<1>2. PICK top \in Nat, offset \in Nat :
         top = LINE_WORDS - 1 /\ offset = pop_offset /\ offset \in 0 .. top
  BY ItemsAssumption DEF WriteTypes, Offsets
<1>3. pop_offset' = Next1(offset, pops)
  BY <1>1, <1>2, Zenon DEF WriteCycle, Next1
<1>4. pop_offset' = (IF pops THEN IF offset = top THEN 0 ELSE offset + 1 ELSE offset)
      /\ pop_offset' \in Offsets
  BY <1>2, <1>3, OffsetMoves DEF Offsets
<1>5. CASE pops
  <2>1. PICK ends \in BOOLEAN : ends = (pop_offset = LINE_WORDS - 1)
    OBVIOUS
  <2>2. read_ptr \in OooFifo!Waiting /\ pop_offset \in Offsets
    BY <1>1, <1>5, ItemsCycle DEF WriteTypes
  <2>3. data_ram[read_ptr][pop_offset] = tag_cam[read_ptr]
    BY <2>2 DEF WordsOfTheirLine
  <2>4. PICK w : w = [line |-> tag_cam[read_ptr], last |-> ends]
    OBVIOUS
  <2>5. ram_dout' = <<w>>
    <3>1. ram_dout' = <<[line |-> data_ram[read_ptr][pop_offset],
                         last |-> pop_offset = LINE_WORDS - 1]>>
      BY <1>1, <1>5, Zenon DEF WriteCycle
    <3> QED
      BY <2>1, <2>3, <2>4, <3>1
  <2>6. tag_cam[read_ptr] \in LsuLines
    BY DEF WriteTypes, RingOK
  <2>7. w \in WWords /\ w.line = tag_cam[read_ptr] /\ w.last = ends
    BY <2>4, <2>6 DEF WWords
  <2>8. (ends <=> Ends(aw_rd, w_rd)) /\ (ends <=> offset = top)
    BY <1>1, <1>2, <1>5, <2>1 DEF Ends
  <2>9. pop_offset' # 0 <=> ~ends
    BY <1>2, <1>4, <1>5, <2>8
  <2>10. w.last <=> ends
    BY <2>7
  <2> QED
    BY <1>1, <1>4, <1>5, <2>5, <2>7, <2>8, <2>9, <2>10
<1>6. CASE ~pops
  <2>1. ram_dout' = <<>>
    BY <1>1, <1>6, Zenon DEF WriteCycle
  <2> QED
    BY <1>1, <1>2, <1>4, <1>6, <2>1
<1> QED
  BY <1>5, <1>6

\* The line of a burst matters only while it is being read.
LEMMA AnyLine ==
  ASSUME NEW aws, NEW r, NEW x, NEW open \in BOOLEAN, NEW line, NEW other,
         InOrder(aws, r, x, open, line), open => other = line
  PROVE  InOrder(aws, r, x, open, other)
BY DEF InOrder

\* The words move on, and one more may be read.
LEMMA BurstsGoOn ==
  ASSUME WriteTypes, WordsOfTheirLine, BurstTypes, NEW word, NEW b_rd \in BOOLEAN,
         NEW aw_rd \in BOOLEAN, NEW w_rd \in BOOLEAN, NEW confirmed \in SUBSET OooFifo!Slots,
         WriteCycle(word, b_rd, aw_rd, w_rd, confirmed), RAck(w_rd),
         NEW t \in Seq(Addresses),
         InOrder(t, Second, <<>>, pop_offset # 0, tag_cam[read_ptr])
  PROVE  InOrder(Grown(t, Begins(aw_rd, w_rd), NewAddress), read_data', Second',
                 pop_offset' # 0, tag_cam[read_ptr])
<1>1. read_data' = Second /\ read_data_backup' = <<>>
  BY Zenon DEF WriteCycle, NextReadData, NextBackup, Second
<1>2. Second' = ram_dout'
  BY <1>1 DEF Second
<1>3. PICK tag : tag = tag_cam[read_ptr]
  OBVIOUS
<1>4. PICK r : r = Second
  OBVIOUS
<1>5. PICK open \in BOOLEAN, more \in BOOLEAN :
         (open <=> pop_offset # 0) /\ (more <=> pop_offset' # 0)
  OBVIOUS
<1>6. InOrder(t, r, <<>>, open, tag)
  <2>1. open = (pop_offset # 0)
    BY <1>5
  <2> QED
    BY <1>3, <1>4, <2>1
<1>7. SUFFICES InOrder(Grown(t, Begins(aw_rd, w_rd), NewAddress), r, ram_dout', more, tag)
  <2>1. more = (pop_offset' # 0)
    BY <1>5
  <2> QED
    BY <1>1, <1>2, <1>3, <1>4, <2>1
<1>8. CASE Pops(aw_rd, w_rd)
  <2>1. PICK w \in WWords : /\ ram_dout' = <<w>> /\ w.line = tag
                            /\ pop_offset' # 0 <=> ~w.last
    BY <1>3, <1>8, WordRead
  <2>2. PICK x : x = ram_dout'
    OBVIOUS
  <2>3. x # <<>> /\ x[1] = w /\ w.last \in BOOLEAN
    BY <2>1, <2>2 DEF WWords
  <2>4. more = ~x[1].last
    BY <1>5, <2>1, <2>3
  <2>5. CASE pop_offset = 0
    <3>1. PICK a \in Addresses : a = NewAddress /\ a.line = tag
      BY <1>3, NewAddressIs
    <3>2. open = FALSE
      BY <1>5, <2>5
    <3>3. InOrder(t, r, <<>>, FALSE, tag)
      BY <1>6, <3>2
    <3>4. InOrder(Append(t, a), r, x, ~x[1].last, a.line)
      BY <2>1, <2>3, <3>1, <3>3, BurstStarts
    <3>5. Grown(t, Begins(aw_rd, w_rd), NewAddress) = Append(t, a)
      BY <1>8, <2>5, <3>1 DEF Grown, Begins
    <3> QED
      BY <2>2, <2>4, <3>1, <3>4, <3>5
  <2>6. CASE pop_offset # 0
    <3>1. open = TRUE
      BY <1>5, <2>6
    <3>2. InOrder(t, r, <<>>, TRUE, tag)
      BY <1>6, <3>1
    <3>3. InOrder(t, r, x, ~x[1].last, tag)
      BY <2>1, <2>3, <3>2, BurstGoesOn
    <3>4. Grown(t, Begins(aw_rd, w_rd), NewAddress) = t
      BY <2>6 DEF Grown, Begins
    <3> QED
      BY <2>2, <2>4, <3>3, <3>4
  <2> QED
    BY <2>5, <2>6
<1>9. CASE ~Pops(aw_rd, w_rd)
  <2>1. ram_dout' = <<>> /\ pop_offset' = pop_offset
    BY <1>9, WordRead
  <2>2. more = open
    BY <1>5, <2>1
  <2>3. Grown(t, Begins(aw_rd, w_rd), NewAddress) = t
    BY <1>9 DEF Grown, Begins
  <2> QED
    BY <1>6, <2>1, <2>2, <2>3
<1> QED
  BY <1>8, <1>9

\* The addresses that the memory has, and whether it takes the last word of a burst.
Gone(aw_rd) == IF aw_rd THEN lone_aws \o a_tmp ELSE lone_aws
Leaves(w_rd) == w_rd /\ read_data # <<>> /\ read_data[1].last

LEMMA OfferedIsSeq ==
  ASSUME NEW S, NEW q \in Offered1(S)
  PROVE  q \in Seq(S) /\ Len(q) \in 0 .. 1 /\ (q # <<>> => q[1] \in S /\ q = <<q[1]>>)
<1>1. CASE q = <<>>
  BY <1>1
<1>2. CASE q # <<>>
  <2>1. PICK a \in S : q = <<a>>
    BY <1>2 DEF Offered1
  <2> QED
    BY <2>1
<1> QED
  BY <1>1, <1>2

LEMMA JoinOne ==
  ASSUME NEW S, NEW q \in Seq(S), NEW a \in S
  PROVE  q \o <<a>> = Append(q, a) /\ q \o <<>> = q
<1>2. PICK one \in Seq(S) : one = <<a>>
  <2>1. <<a>> \in Seq(S)
    OBVIOUS
  <2> QED
    BY <2>1
<1>9. Len(one) = 1 /\ one[1] = a
  BY <1>2
<1>1. PICK c \in Seq(S), n \in Nat : c = q \o one /\ n = Len(q)
  <2>1. q \o one \in Seq(S)
    BY ConcatProperties
  <2> QED
    BY <2>1, LenProperties
<1>3. Joined(q \o one, q, one, n, 1)
  BY <1>1, <1>9, ConcatIs
<1>4. Len(c) = n + 1 /\ c[n + 1] = a /\ \A i \in 1 .. n : c[i] = q[i]
  BY <1>1, <1>3, <1>9 DEF Joined
<1>5. PICK b \in Seq(S) : b = Append(q, a)
  BY AppendProperties
<1>6. Len(b) = n + 1 /\ b[n + 1] = a /\ \A i \in 1 .. n : b[i] = q[i]
  BY <1>1, <1>5
<1>7. \A i \in 1 .. n + 1 : i \in 1 .. n \/ i = n + 1
  BY <1>1
<1>8. b = c
  BY <1>4, <1>6, <1>7, SeqEqual
<1> QED
  BY <1>1, <1>2, <1>5, <1>8, ConcatEmptySeq

\* The address in the register leaves it, or stays; the one of a burst that starts enters it.
LEMMA AddressesMove ==
  ASSUME WriteTypes, BurstTypes, NEW word, NEW b_rd, NEW confirmed,
         NEW aw_rd \in BOOLEAN, NEW w_rd \in BOOLEAN,
         WriteCycle(word, b_rd, aw_rd, w_rd, confirmed)
  PROVE  /\ a_tmp' \in Offered1(Addresses)
         /\ Opened \in Seq(Addresses) /\ Gone(aw_rd) \in Seq(Addresses)
         /\ Gone(aw_rd) \o a_tmp' = Grown(Opened, Begins(aw_rd, w_rd), NewAddress)
         /\ Gone(aw_rd) # <<>> =>
               /\ Opened # <<>> /\ Opened[1] = Gone(aw_rd)[1]
               /\ Tail(Gone(aw_rd)) \in Seq(Addresses)
               /\ Tail(Gone(aw_rd)) \o a_tmp' = Grown(Tail(Opened), Begins(aw_rd, w_rd), NewAddress)
<1>1. PICK p \in Seq(Addresses), q \in Seq(Addresses) :
         p = lone_aws /\ q = a_tmp /\ q \in Offered1(Addresses)
  <2>1. lone_aws \in Seq(Addresses) /\ a_tmp \in Offered1(Addresses)
    BY DEF BurstTypes
  <2>2. a_tmp \in Seq(Addresses)
    BY <2>1, OfferedIsSeq
  <2> QED
    BY <2>1, <2>2
<1>2. PICK o \in Seq(Addresses) : o = Opened /\ o = p \o q
  BY <1>1, ConcatProperties DEF Opened
<1>3. PICK a \in Addresses : a = NewAddress
  BY NewAddressIs
<1>4. PICK starts \in BOOLEAN : starts = Begins(aw_rd, w_rd)
  BY DEF Begins
<1>5. starts => aw_rd
  BY <1>4 DEF Begins, Pops, BusAck
<1>6. a_tmp' = IF starts THEN <<a>> ELSE IF aw_rd THEN <<>> ELSE q
  BY <1>1, <1>3, <1>4, Zenon DEF WriteCycle, NextATmp, Begins, NewAddress
<1>7. a_tmp' \in Offered1(Addresses)
  BY <1>1, <1>6 DEF Offered1
<1>8. CASE aw_rd
  <2>1. Gone(aw_rd) = o
    BY <1>1, <1>2, <1>8 DEF Gone
  <2>2. \A s \in Seq(Addresses) : s \o a_tmp' = Grown(s, starts, a)
    BY <1>6, <1>8, JoinOne DEF Grown
  <2>3. o # <<>> => Tail(o) \in Seq(Addresses)
    BY HeadTailProperties
  <2> QED
    BY <1>2, <1>3, <1>4, <1>7, <2>1, <2>2, <2>3
<1>9. CASE ~aw_rd
  <2>1. Gone(aw_rd) = p /\ a_tmp' = q
    BY <1>1, <1>5, <1>6, <1>9 DEF Gone
  <2>2. \A s : Grown(s, starts, a) = s
    BY <1>5, <1>9 DEF Grown
  <2>3. p # <<>> => o # <<>> /\ o[1] = p[1] /\ Tail(p) \in Seq(Addresses) /\ Tail(p) \o q = Tail(o)
    BY <1>2, TailOfConcat, HeadTailProperties, SMTT(30)
  <2> QED
    BY <1>2, <1>3, <1>4, <1>7, <2>1, <2>2, <2>3
<1> QED
  BY <1>8, <1>9

---------------------------------------------------------------------------
(* The items of the addresses on their way stay apart *)

\* A cycle opens and ends bursts and confirms items.
LEMMA IdsGoOn ==
  ASSUME WriteTypes, BurstTypes, NEW word, NEW b_rd \in BOOLEAN,
         NEW aw_rd \in BOOLEAN, NEW w_rd \in BOOLEAN, NEW confirmed \in SUBSET unconfirmed,
         WriteCycle(word, b_rd, aw_rd, w_rd, confirmed), WordsOfTheirLine,
         IdsKept(Opened, unconfirmed, OooFifo!Waiting, Valid, pop_offset # 0, read_ptr)
  PROVE  IdsKept(Grown(Opened, Begins(aw_rd, w_rd), NewAddress), unconfirmed \ confirmed,
                 OooFifo!Waiting', Valid', pop_offset' # 0, read_ptr')
<1>1. PICK inserts \in BOOLEAN, ends \in BOOLEAN, open \in BOOLEAN, more \in BOOLEAN,
           starts \in BOOLEAN, pops \in BOOLEAN :
         /\ inserts = InsertsLast /\ ends = Ends(aw_rd, w_rd)
         /\ open = (pop_offset # 0) /\ more = (pop_offset' # 0)
         /\ starts = Begins(aw_rd, w_rd) /\ pops = Pops(aw_rd, w_rd)
  BY DEF InsertsLast, InRegPasses, Ends, Begins, Pops
<1>2. confirmed \in SUBSET OooFifo!Slots
  BY DEF WriteTypes
<1>3. /\ ItemsChange(InsertsLast, Ends(aw_rd, w_rd), confirmed)
      /\ InsertsLast => write_ptr \notin Valid
      /\ Pops(aw_rd, w_rd) => read_ptr \in OooFifo!Waiting
  BY <1>2, ItemsCycle DEF Ends
<1>4. PICK add, wait, valid, q, rp :
         /\ add = IfSet(inserts, write_ptr) /\ wait = OooFifo!Waiting \cup add
         /\ valid = Valid \cup add /\ q = Opened /\ rp = read_ptr
  OBVIOUS
<1>5. /\ OooFifo!Waiting' = wait \ IfSet(ends, rp) /\ Valid' = valid \ confirmed
      /\ ~ends => read_ptr' = rp
  BY <1>1, <1>3, <1>4 DEF ItemsChange
<1>6. IdsKept(q, unconfirmed, wait, valid, open, rp)
  <2>1. add \cap Valid = {}
    BY <1>1, <1>3, <1>4 DEF IfSet
  <2>2. IdsKept(q, unconfirmed, OooFifo!Waiting, Valid, open, rp)
    BY <1>1, <1>4
  <2>3. IdsKept(q, unconfirmed, OooFifo!Waiting \cup add, Valid \cup add, open, rp)
    BY <2>1, <2>2, IdsAlloc, Zenon
  <2> QED
    BY <1>4, <2>3
<1>7. pops => rp \in wait
  BY <1>1, <1>3, <1>4
<1>8. q \in Seq(Addresses)
  BY <1>4, AddressesMove
<1>9. PICK a \in Addresses : a = NewAddress /\ a.id = rp
  BY <1>4, NewAddressIs
<1>10. /\ pops => (more <=> ~ends)
       /\ ~pops => (more <=> open) /\ ~ends
       /\ starts <=> (pops /\ ~open)
  <2>1. pops => (more <=> ~ends)
    <3>1. Pops(aw_rd, w_rd) => \E w \in WWords : (w.last <=> Ends(aw_rd, w_rd))
                                                 /\ (pop_offset' # 0 <=> ~w.last)
      BY <1>2, WordRead
    <3> QED
      BY <1>1, <3>1
  <2>2. ~pops => (more <=> open) /\ ~ends
    <3>1. ~Pops(aw_rd, w_rd) => pop_offset' = pop_offset
      BY <1>2, WordRead
    <3> QED
      BY <1>1, <3>1 DEF Ends
  <2>3. starts <=> (pops /\ ~open)
    BY <1>1 DEF Begins
  <2> QED
    BY <2>1, <2>2, <2>3
<1>11. PICK g \in Seq(Addresses) : g = Grown(q, starts, a)
  BY <1>8, GrownProperties
<1>12. IdsKept(g, unconfirmed, OooFifo!Waiting', valid, more, read_ptr')
  <2>1. CASE pops
    <3>1. IdsKept(g, unconfirmed, wait, valid, TRUE, rp)
      <4>1. CASE open
        <5>1. open = TRUE /\ g = q
          BY <1>10, <1>11, <4>1 DEF Grown
        <5> QED
          BY <1>6, <5>1
      <4>2. CASE ~open
        <5>1. open = FALSE /\ g = Append(q, a)
          BY <1>10, <1>11, <2>1, <4>2 DEF Grown
        <5>2. IdsKept(q, unconfirmed, wait, valid, FALSE, rp)
          BY <1>6, <5>1
        <5>3. IdsKept(Append(q, a), unconfirmed, wait, valid, TRUE, rp)
          BY <1>7, <1>8, <1>9, <2>1, <5>2, IdsStart
        <5> QED
          BY <5>1, <5>3
      <4> QED
        BY <4>1, <4>2
    <3>2. CASE ends
      <4>1. IdsKept(g, unconfirmed, wait \ {rp}, valid, FALSE, read_ptr')
        BY <1>11, <3>1, IdsEnd, LenProperties
      <4>2. more = FALSE /\ OooFifo!Waiting' = wait \ {rp}
        BY <1>5, <1>10, <2>1, <3>2 DEF IfSet
      <4> QED
        BY <4>1, <4>2
    <3>3. CASE ~ends
      <4>1. more = TRUE /\ OooFifo!Waiting' = wait /\ read_ptr' = rp
        BY <1>5, <1>10, <2>1, <3>3 DEF IfSet
      <4> QED
        BY <3>1, <4>1
    <3> QED
      BY <3>2, <3>3
  <2>2. CASE ~pops
    <3>1. more = open /\ OooFifo!Waiting' = wait /\ read_ptr' = rp
      BY <1>5, <1>10, <2>2 DEF IfSet
    <3>2. g = q
      BY <1>10, <1>11, <2>2 DEF Grown
    <3> QED
      BY <1>6, <3>1, <3>2
  <2> QED
    BY <2>1, <2>2
<1>13. IdsKept(g, unconfirmed \ confirmed, OooFifo!Waiting', Valid', more, read_ptr')
  <2>1. confirmed \subseteq unconfirmed
    OBVIOUS
  <2>2. IdsKept(g, unconfirmed \ confirmed, OooFifo!Waiting', valid \ confirmed, more, read_ptr')
    BY <1>12, <2>1, IdsConfirm, Zenon
  <2> QED
    BY <1>5, <2>2
<1> QED
  BY <1>1, <1>4, <1>9, <1>11, <1>13

---------------------------------------------------------------------------
(* The write aggregator keeps all of it *)

WriteInv ==
    /\ WriteTypes /\ WordsOfTheirLine /\ BurstTypes /\ BurstsMatch
    /\ IdsKept(Opened, unconfirmed, OooFifo!Waiting, Valid, pop_offset # 0, read_ptr)

\* The two places for words move on together, or stay.
LEMMA PlacesMove ==
  ASSUME WriteInv, NEW word, NEW b_rd \in BOOLEAN,
         NEW aw_rd \in BOOLEAN, NEW w_rd \in BOOLEAN, NEW confirmed \in SUBSET OooFifo!Slots,
         WriteCycle(word, b_rd, aw_rd, w_rd, confirmed)
  PROVE  /\ read_data' \in Offered1(WWords) /\ ram_dout' \in Offered1(WWords)
         /\ read_data_backup' \in Offered1(WWords)
         /\ read_data_backup' # <<>> => ram_dout' = <<>> /\ read_data' # <<>>
         /\ RAck(w_rd) => /\ read_data' = Second /\ read_data_backup' = <<>>
                          /\ Second' = ram_dout'
         /\ ~RAck(w_rd) => /\ read_data' = read_data /\ Second' = Second
                           /\ pop_offset' = pop_offset /\ ~Pops(aw_rd, w_rd)
<1>1. /\ read_data \in Offered1(WWords) /\ ram_dout \in Offered1(WWords)
      /\ read_data_backup \in Offered1(WWords) /\ Second \in Offered1(WWords)
  BY DEF WriteInv, BurstTypes, Second
<1>2. WriteTypes /\ WordsOfTheirLine
  BY DEF WriteInv
<1>3. ram_dout' \in Offered1(WWords)
  <2>1. CASE Pops(aw_rd, w_rd)
    <3>1. PICK w \in WWords : ram_dout' = <<w>>
      BY <1>2, <2>1, WordRead
    <3> QED
      BY <3>1 DEF Offered1
  <2>2. CASE ~Pops(aw_rd, w_rd)
    BY <1>2, <2>2, WordRead DEF Offered1
  <2> QED
    BY <2>1, <2>2
<1>4. CASE RAck(w_rd)
  <2>1. read_data' = Second /\ read_data_backup' = <<>>
    BY <1>4, Zenon DEF WriteCycle, NextReadData, NextBackup, Second
  <2>2. Second' = ram_dout'
    BY <2>1 DEF Second
  <2>3. <<>> \in Offered1(WWords)
    BY DEF Offered1
  <2> QED
    BY <1>1, <1>3, <1>4, <2>1, <2>2, <2>3
<1>5. CASE ~RAck(w_rd)
  <2>1. ~Pops(aw_rd, w_rd)
    BY <1>5 DEF Pops, BusAck
  <2>2. read_data' = read_data /\ read_data_backup' = Second
    BY <1>5, Zenon DEF WriteCycle, NextReadData, NextBackup, Second
  <2>3. ram_dout' = <<>> /\ pop_offset' = pop_offset
    BY <1>2, <2>1, WordRead
  <2>4. Second' = Second
    BY <2>2, <2>3 DEF Second
  <2>5. read_data # <<>>
    BY <1>5 DEF RAck
  <2> QED
    BY <1>1, <1>3, <1>5, <2>1, <2>2, <2>3, <2>4, <2>5
<1> QED
  BY <1>4, <1>5

\* The line of the burst that is being read stays what it was.
LEMMA LineStays ==
  ASSUME WriteInv, NEW word \in Offered1(WriteWords), NEW b_rd \in BOOLEAN,
         NEW aw_rd \in BOOLEAN, NEW w_rd \in BOOLEAN, NEW confirmed \in SUBSET OooFifo!Slots,
         WriteCycle(word, b_rd, aw_rd, w_rd, confirmed)
  PROVE  pop_offset' # 0 => tag_cam'[read_ptr'] = tag_cam[read_ptr]
<1>1. /\ WriteTypes /\ WordsOfTheirLine
      /\ IdsKept(Opened, unconfirmed, OooFifo!Waiting, Valid, pop_offset # 0, read_ptr)
  BY DEF WriteInv
<1>2. /\ ItemsChange(InsertsLast, Ends(aw_rd, w_rd), confirmed)
      /\ Pops(aw_rd, w_rd) => read_ptr \in OooFifo!Waiting
  BY <1>1, ItemsCycle DEF Ends
<1>3. /\ ~Ends(aw_rd, w_rd) => read_ptr' = read_ptr
  BY <1>2 DEF ItemsChange
<1>4. OooFifo!Waiting \subseteq Valid /\ (pop_offset # 0 => read_ptr \in OooFifo!Waiting)
  BY <1>1 DEF IdsKept
<1>5. \A s \in OooFifo!Waiting : tag_cam'[s] = tag_cam[s]
  BY <1>1, <1>4, DataStays
<1>6. pop_offset' # 0 => ~Ends(aw_rd, w_rd) /\ (Pops(aw_rd, w_rd) \/ pop_offset # 0)
  <2>1. CASE Pops(aw_rd, w_rd)
    <3>1. PICK w \in WWords : (w.last <=> Ends(aw_rd, w_rd)) /\ (pop_offset' # 0 <=> ~w.last)
      BY <1>1, <2>1, WordRead
    <3> QED
      BY <2>1, <3>1
  <2>2. CASE ~Pops(aw_rd, w_rd)
    BY <1>1, <2>2, WordRead DEF Ends
  <2> QED
    BY <2>1, <2>2
<1> QED
  BY <1>2, <1>3, <1>4, <1>5, <1>6

\* The lines of the bursts whose words the memory has.
Complete(w_rd) == IF Leaves(w_rd) THEN Append(lone_ws, read_data[1].line) ELSE lone_ws

\* What the memory does with the addresses and the bursts.
LEMMA MemoryIs ==
  ASSUME NEW word, NEW b_rd, NEW aw_rd \in BOOLEAN, NEW w_rd \in BOOLEAN, NEW confirmed,
         WriteCycle(word, b_rd, aw_rd, w_rd, confirmed)
  PROVE  MemoryTakes(Gone(aw_rd), Complete(w_rd), confirmed)
BY Zenon DEF WriteCycle, Gone, Leaves, Complete

\* The oldest address and the oldest burst meet.
LEMMA PairsMeet ==
  ASSUME WriteInv, NEW word \in Offered1(WriteWords), NEW b_rd \in BOOLEAN,
         NEW aw_rd \in BOOLEAN, NEW w_rd \in BOOLEAN, NEW confirmed \in SUBSET unconfirmed,
         WriteCycle(word, b_rd, aw_rd, w_rd, confirmed),
         Gone(aw_rd) # <<>>, lone_ws # <<>> \/ Leaves(w_rd)
  PROVE  /\ lone_aws' \in Seq(Addresses) /\ lone_ws' = <<>>
         /\ InOrder(Opened', read_data', Second', pop_offset' # 0, tag_cam[read_ptr])
         /\ IdsKept(Opened', unconfirmed', OooFifo!Waiting', Valid', pop_offset' # 0, read_ptr')
<1>1. /\ WriteTypes /\ WordsOfTheirLine /\ BurstTypes /\ BurstsMatch
      /\ IdsKept(Opened, unconfirmed, OooFifo!Waiting, Valid, pop_offset # 0, read_ptr)
  BY DEF WriteInv
<1>2. confirmed \in SUBSET OooFifo!Slots
  BY <1>1 DEF WriteTypes
<1>3. PICK ws : ws = Complete(w_rd)
  OBVIOUS
<1>4. PICK gone \in Seq(Addresses), q \in Seq(Addresses), a \in Addresses, starts \in BOOLEAN,
           open \in BOOLEAN, more \in BOOLEAN, tag \in {tag_cam[read_ptr]} :
         /\ gone = Gone(aw_rd) /\ q = Opened /\ a = NewAddress /\ starts = Begins(aw_rd, w_rd)
         /\ open = (pop_offset # 0) /\ more = (pop_offset' # 0) /\ tag = tag_cam[read_ptr]
  <2>1. Gone(aw_rd) \in Seq(Addresses) /\ Opened \in Seq(Addresses)
    BY <1>1, AddressesMove
  <2>2. NewAddress \in Addresses /\ Begins(aw_rd, w_rd) \in BOOLEAN
    BY <1>1, NewAddressIs DEF Begins
  <2> QED
    BY <2>1, <2>2
<1>5. /\ q # <<>> /\ q[1] = gone[1] /\ Tail(gone) \in Seq(Addresses)
      /\ Tail(gone) \o a_tmp' = Grown(Tail(q), starts, a)
  <2>1. /\ Opened # <<>> /\ Opened[1] = Gone(aw_rd)[1]
        /\ Tail(Gone(aw_rd)) \in Seq(Addresses)
        /\ Tail(Gone(aw_rd)) \o a_tmp' = Grown(Tail(Opened), Begins(aw_rd, w_rd), NewAddress)
    BY <1>1, AddressesMove
  <2> QED
    BY <1>4, <2>1, Zenon
<1>6. PICK rest \in Seq(Addresses) : rest = Tail(q)
  BY <1>5, HeadTailProperties
<1>7. lone_ws \in Offered1(LsuLines) /\ read_data \in Offered1(WWords)
  BY <1>1 DEF BurstTypes
<1>8. /\ ws # <<>> /\ Tail(ws) = <<>> /\ RAck(w_rd)
      /\ InOrder(rest, Second, <<>>, open, tag)
  <2>1. CASE lone_ws = <<>>
    <3>1. Leaves(w_rd)
      BY <2>1
    <3>2. ws = <<read_data[1].line>>
      BY <1>3, <2>1, <3>1 DEF Complete
    <3>3. Mark(read_data) = 1 /\ RAck(w_rd)
      BY <3>1 DEF Leaves, Mark, RAck
    <3>4. PICK r, x : r = read_data /\ x = Second
      OBVIOUS
    <3>5. InOrder(q, r, x, open, tag)
      <4>1. InOrder(Opened, read_data, Second, pop_offset # 0, tag_cam[read_ptr])
        BY <1>1, <2>1 DEF BurstsMatch
      <4> QED
        BY <1>4, <3>4, <4>1
    <3>6. InOrder(IF Mark(r) = 1 THEN Tail(q) ELSE q, x, <<>>, open, tag)
      BY <3>5, WordsShift
    <3>7. (IF Mark(r) = 1 THEN Tail(q) ELSE q) = rest
      BY <1>6, <3>3, <3>4
    <3>8. InOrder(rest, Second, <<>>, open, tag)
      BY <3>4, <3>6, <3>7
    <3>9. ws # <<>> /\ Tail(ws) = <<>>
      <4>1. PICK e : ws = <<e>>
        BY <3>2
      <4> QED
        BY <4>1
    <3> QED
      BY <3>3, <3>8, <3>9
  <2>2. CASE lone_ws # <<>>
    <3>1. /\ lone_aws = <<>> /\ a_tmp # <<>> /\ read_data = <<>> /\ Second = <<>>
          /\ pop_offset = 0
      BY <1>1, <2>2 DEF BurstsMatch
    <3>2. RAck(w_rd) /\ ~Leaves(w_rd)
      BY <3>1 DEF RAck, Leaves
    <3>3. PICK e \in LsuLines : lone_ws = <<e>>
      BY <1>7, <2>2 DEF Offered1
    <3>4. ws = <<e>>
      BY <1>3, <3>2, <3>3 DEF Complete
    <3>5. a_tmp \in Offered1(Addresses)
      BY <1>1 DEF BurstTypes
    <3>6. PICK b \in Addresses : a_tmp = <<b>>
      BY <3>1, <3>5 DEF Offered1
    <3>7. q = <<b>>
      BY <1>4, <3>1, <3>6 DEF Opened
    <3>8. rest = <<>> /\ Len(rest) = 0
      BY <1>6, <3>7
    <3>9. open = FALSE
      BY <1>4, <3>1
    <3>10. InOrder(<<>>, <<>>, <<>>, FALSE, tag)
      BY DEF InOrder, Mark
    <3>11. ws # <<>> /\ Tail(ws) = <<>>
      BY <3>4
    <3> QED
      BY <3>1, <3>2, <3>8, <3>9, <3>10, <3>11
  <2> QED
    BY <2>1, <2>2
<1>9. /\ lone_aws' = Tail(gone) /\ lone_ws' = Tail(ws)
      /\ unconfirmed' = (unconfirmed \ confirmed) \cup {gone[1].id}
  <2>1. Complete(w_rd) # <<>>
    BY <1>3, <1>8
  <2>2. /\ lone_aws' = Tail(Gone(aw_rd)) /\ lone_ws' = Tail(Complete(w_rd))
        /\ unconfirmed' = (unconfirmed \ confirmed) \cup {Gone(aw_rd)[1].id}
    <3>1. MemoryTakes(Gone(aw_rd), Complete(w_rd), confirmed)
      BY MemoryIs
    <3> QED
      BY <2>1, <3>1 DEF MemoryTakes
  <2> QED
    BY <1>3, <1>4, <2>2
<1>10. PICK g \in Seq(Addresses), h \in Seq(Addresses) :
         g = Grown(rest, starts, a) /\ h = Grown(q, starts, a)
  BY GrownProperties
<1>11. Opened' = g
  BY <1>5, <1>6, <1>9, <1>10 DEF Opened
<1>12. Tail(h) = g /\ h # <<>> /\ h[1] = gone[1] /\ Len(h) = Len(g) + 1
  <2>1. /\ Tail(Grown(q, starts, a)) = Grown(Tail(q), starts, a)
        /\ Grown(q, starts, a) # <<>> /\ Grown(q, starts, a)[1] = q[1]
        /\ Len(Grown(q, starts, a)) = Len(Grown(Tail(q), starts, a)) + 1
    <3>1. q # <<>>
      BY <1>5
    <3> QED
      BY <3>1, GrownProperties
  <2> QED
    BY <1>5, <1>6, <1>10, <2>1
<1>13. InOrder(g, read_data', Second', more, tag)
  <2>1. InOrder(rest, Second, <<>>, pop_offset # 0, tag_cam[read_ptr])
    BY <1>4, <1>8
  <2>2. InOrder(Grown(rest, Begins(aw_rd, w_rd), NewAddress), read_data', Second',
                pop_offset' # 0, tag_cam[read_ptr])
    BY <1>1, <1>2, <1>8, <2>1, BurstsGoOn
  <2> QED
    BY <1>4, <1>10, <2>2
<1>14. more => Len(h) > 1
  <2>1. Len(g) \in Nat /\ Mark(read_data') \in 0 .. 1 /\ Mark(Second') \in 0 .. 1
    BY LenProperties, MarkIs
  <2>2. more => Len(g) >= 1
    BY <1>13, <2>1 DEF InOrder
  <2> QED
    BY <1>12, <2>1, <2>2
<1>15. IdsKept(h, unconfirmed \ confirmed, OooFifo!Waiting', Valid', more, read_ptr')
  BY <1>1, <1>4, <1>10, IdsGoOn
<1>16. IdsKept(Tail(h), (unconfirmed \ confirmed) \cup {h[1].id}, OooFifo!Waiting', Valid', more,
               read_ptr')
  BY <1>12, <1>14, <1>15, IdsPair
<1>17. IdsKept(g, unconfirmed', OooFifo!Waiting', Valid', more, read_ptr')
  BY <1>9, <1>12, <1>16
<1> QED
  BY <1>4, <1>5, <1>8, <1>9, <1>11, <1>13, <1>17

\* No address meets its burst: addresses and bursts go on.
LEMMA NothingMeets ==
  ASSUME WriteInv, NEW word \in Offered1(WriteWords), NEW b_rd \in BOOLEAN,
         NEW aw_rd \in BOOLEAN, NEW w_rd \in BOOLEAN, NEW confirmed \in SUBSET unconfirmed,
         WriteCycle(word, b_rd, aw_rd, w_rd, confirmed),
         Gone(aw_rd) = <<>> \/ Complete(w_rd) = <<>>
  PROVE  /\ lone_aws' = Gone(aw_rd) /\ lone_aws' \in Seq(Addresses)
         /\ lone_ws' = Complete(w_rd)
         /\ Opened' = Grown(Opened, Begins(aw_rd, w_rd), NewAddress)
         /\ IdsKept(Opened', unconfirmed', OooFifo!Waiting', Valid', pop_offset' # 0, read_ptr')
<1>1. /\ WriteTypes /\ WordsOfTheirLine /\ BurstTypes
      /\ IdsKept(Opened, unconfirmed, OooFifo!Waiting, Valid, pop_offset # 0, read_ptr)
  BY DEF WriteInv
<1>2. /\ lone_aws' = Gone(aw_rd) /\ lone_ws' = Complete(w_rd)
      /\ unconfirmed' = unconfirmed \ confirmed
  <2>1. MemoryTakes(Gone(aw_rd), Complete(w_rd), confirmed)
    BY MemoryIs
  <2> QED
    BY <2>1 DEF MemoryTakes
<1>3. Opened' = Grown(Opened, Begins(aw_rd, w_rd), NewAddress) /\ Gone(aw_rd) \in Seq(Addresses)
  BY <1>1, <1>2, AddressesMove DEF Opened
<1>4. IdsKept(Grown(Opened, Begins(aw_rd, w_rd), NewAddress), unconfirmed \ confirmed,
              OooFifo!Waiting', Valid', pop_offset' # 0, read_ptr')
  BY <1>1, IdsGoOn
<1>5. IdsKept(Opened', unconfirmed', OooFifo!Waiting', Valid', pop_offset' # 0, read_ptr')
  BY <1>2, <1>3, <1>4
<1> QED
  BY <1>2, <1>3, <1>5

\* The memory has no burst without its address.
LEMMA NoneIsAhead ==
  ASSUME WriteInv, NEW word \in Offered1(WriteWords), NEW b_rd \in BOOLEAN,
         NEW aw_rd \in BOOLEAN, NEW w_rd \in BOOLEAN, NEW confirmed \in SUBSET unconfirmed,
         WriteCycle(word, b_rd, aw_rd, w_rd, confirmed), Complete(w_rd) = <<>>
  PROVE  /\ lone_ws' = <<>>
         /\ InOrder(Opened', read_data', Second', pop_offset' # 0, tag_cam[read_ptr])
<1>1. /\ WriteTypes /\ WordsOfTheirLine /\ BurstTypes /\ BurstsMatch
  BY DEF WriteInv
<1>2. confirmed \in SUBSET OooFifo!Slots
  BY <1>1 DEF WriteTypes
<1>3. lone_ws' = <<>> /\ Opened' = Grown(Opened, Begins(aw_rd, w_rd), NewAddress)
  BY NothingMeets
<1>4. ~Leaves(w_rd) /\ lone_ws = <<>>
  <2>1. lone_ws \in Seq(LsuLines)
    BY <1>1, OfferedIsSeq DEF BurstTypes
  <2>2. ASSUME Leaves(w_rd)
        PROVE  FALSE
    <3>1. read_data # <<>> /\ read_data \in Offered1(WWords)
      BY <1>1, <2>2 DEF Leaves, BurstTypes
    <3>2. PICK w \in WWords : read_data = <<w>>
      BY <3>1 DEF Offered1
    <3>3. PICK e \in LsuLines : e = read_data[1].line
      BY <3>2 DEF WWords
    <3>4. Complete(w_rd) = Append(lone_ws, e)
      BY <2>2, <3>3 DEF Complete
    <3> QED
      BY <2>1, <3>4
  <2> QED
    BY <2>2 DEF Complete
<1>5. InOrder(Opened, read_data, Second, pop_offset # 0, tag_cam[read_ptr])
  BY <1>1, <1>4 DEF BurstsMatch
<1>6. Opened \in Seq(Addresses)
  BY <1>1, AddressesMove
<1>7. CASE RAck(w_rd)
  <2>1. Mark(read_data) # 1
    <3>1. read_data # <<>> => ~read_data[1].last
      BY <1>4, <1>7 DEF RAck, Leaves
    <3> QED
      BY <3>1 DEF Mark
  <2>2. PICK q, r, x, tag :
           q = Opened /\ r = read_data /\ x = Second /\ tag = tag_cam[read_ptr]
    OBVIOUS
  <2>8. PICK open \in BOOLEAN : open = (pop_offset # 0)
    OBVIOUS
  <2>3. InOrder(q, r, x, open, tag)
    BY <1>5, <2>2, <2>8
  <2>4. InOrder(IF Mark(r) = 1 THEN Tail(q) ELSE q, x, <<>>, open, tag)
    BY <1>6, <2>2, <2>3, WordsShift
  <2>5. (IF Mark(r) = 1 THEN Tail(q) ELSE q) = q
    BY <2>1, <2>2
  <2>6. InOrder(Opened, Second, <<>>, pop_offset # 0, tag_cam[read_ptr])
    BY <2>2, <2>4, <2>5, <2>8
  <2>7. InOrder(Grown(Opened, Begins(aw_rd, w_rd), NewAddress), read_data', Second',
                pop_offset' # 0, tag_cam[read_ptr])
    BY <1>1, <1>2, <1>6, <1>7, <2>6, BurstsGoOn
  <2> QED
    BY <1>3, <2>7
<1>8. CASE ~RAck(w_rd)
  <2>1. /\ read_data' = read_data /\ Second' = Second
        /\ pop_offset' = pop_offset /\ ~Pops(aw_rd, w_rd)
    BY <1>2, <1>8, PlacesMove
  <2>2. Opened' = Opened
    BY <1>3, <2>1 DEF Grown, Begins
  <2> QED
    BY <1>3, <1>5, <2>1, <2>2
<1> QED
  BY <1>7, <1>8

\* The memory has the words of a burst before its address.
LEMMA OneIsAhead ==
  ASSUME WriteInv, NEW word \in Offered1(WriteWords), NEW b_rd \in BOOLEAN,
         NEW aw_rd \in BOOLEAN, NEW w_rd \in BOOLEAN, NEW confirmed \in SUBSET unconfirmed,
         WriteCycle(word, b_rd, aw_rd, w_rd, confirmed),
         Gone(aw_rd) = <<>>, Complete(w_rd) # <<>>
  PROVE  /\ lone_aws' = <<>> /\ a_tmp' # <<>> /\ lone_ws' = <<a_tmp'[1].line>>
         /\ read_data' = <<>> /\ Second' = <<>> /\ pop_offset' = 0
         /\ a_tmp' \in Offered1(Addresses)
<1>1. /\ WriteTypes /\ WordsOfTheirLine /\ BurstTypes /\ BurstsMatch
  BY DEF WriteInv
<1>2. confirmed \in SUBSET OooFifo!Slots
  BY <1>1 DEF WriteTypes
<1>3. lone_aws' = <<>> /\ lone_ws' = Complete(w_rd)
  BY NothingMeets
<1>4. /\ ~aw_rd /\ a_tmp # <<>> /\ Complete(w_rd) = <<a_tmp[1].line>>
      /\ Second = <<>> /\ pop_offset = 0 /\ RAck(w_rd)
  <2>1. CASE lone_ws = <<>>
    <3>1. Leaves(w_rd)
      BY <2>1 DEF Complete
    <3>2. InOrder(Opened, read_data, Second, pop_offset # 0, tag_cam[read_ptr])
      BY <1>1, <2>1 DEF BurstsMatch
    <3>3. Mark(read_data) = 1 /\ read_data # <<>> /\ RAck(w_rd)
      BY <3>1 DEF Leaves, Mark, RAck
    <3>4. Len(Opened) >= 1 /\ read_data[1].line = Opened[1].line
      BY <3>2, <3>3 DEF InOrder
    <3>5. ~aw_rd
      <4>1. Gone(aw_rd) = Opened => Len(Opened) = 0
        OBVIOUS
      <4> QED
        BY <3>4, <4>1 DEF Gone, Opened
    <3>6. lone_aws = <<>>
      BY <3>5 DEF Gone
    <3>7. a_tmp \in Seq(Addresses) /\ Len(a_tmp) \in 0 .. 1
      BY <1>1, OfferedIsSeq DEF BurstTypes
    <3>8. Opened = a_tmp
      BY <3>6, <3>7, ConcatEmptySeq DEF Opened
    <3>9. a_tmp # <<>> /\ Len(Opened) = 1
      BY <3>4, <3>7, <3>8
    <3>10. PICK n \in 0 .. 1 : n = Mark(Second)
      BY MarkIs
    <3>11. Len(Opened) = 1 + n + (IF pop_offset # 0 THEN 1 ELSE 0)
      BY <3>2, <3>3, <3>10 DEF InOrder
    <3>12. pop_offset = 0
      BY <3>9, <3>10, <3>11
    <3>13. Second = <<>>
      <4>1. Second # <<>> => Len(Opened) >= 1 + 1
        BY <3>2, <3>3 DEF InOrder
      <4> QED
        BY <3>9, <4>1
    <3>14. Complete(w_rd) = <<a_tmp[1].line>>
      <4>1. PICK e : e = read_data[1].line
        OBVIOUS
      <4>2. Complete(w_rd) = <<e>>
        BY <2>1, <3>1, <4>1 DEF Complete
      <4> QED
        BY <3>4, <3>8, <4>1, <4>2
    <3> QED
      BY <3>3, <3>5, <3>9, <3>12, <3>13, <3>14
  <2>2. CASE lone_ws # <<>>
    <3>1. /\ lone_aws = <<>> /\ a_tmp # <<>> /\ lone_ws = <<a_tmp[1].line>>
          /\ read_data = <<>> /\ Second = <<>> /\ pop_offset = 0
      BY <1>1, <2>2 DEF BurstsMatch
    <3>2. Complete(w_rd) = lone_ws /\ RAck(w_rd)
      BY <3>1 DEF Complete, Leaves, RAck
    <3>3. ~aw_rd
      <4>1. a_tmp \in Seq(Addresses)
        BY <1>1, OfferedIsSeq DEF BurstTypes
      <4>2. lone_aws \o a_tmp = a_tmp
        BY <3>1, <4>1, ConcatEmptySeq
      <4> QED
        BY <3>1, <4>2 DEF Gone
    <3> QED
      BY <3>1, <3>2, <3>3
  <2> QED
    BY <2>1, <2>2
<1>5. ~Pops(aw_rd, w_rd)
  BY <1>4 DEF Pops, BusAck
<1>6. a_tmp' = a_tmp
  BY <1>4, <1>5, Zenon DEF WriteCycle, NextATmp
<1>7. ram_dout' = <<>> /\ pop_offset' = pop_offset
  BY <1>1, <1>2, <1>5, WordRead
<1>8. read_data' = <<>> /\ Second' = <<>>
  BY <1>2, <1>4, <1>7, PlacesMove
<1> QED
  BY <1>1, <1>3, <1>4, <1>6, <1>7, <1>8 DEF BurstTypes

\* A cycle of the write aggregator keeps all of it.
LEMMA WriteCycleKeeps ==
  ASSUME WriteInv, NEW word \in Offered1(WriteWords), NEW b_rd \in BOOLEAN,
         NEW aw_rd \in BOOLEAN, NEW w_rd \in BOOLEAN, NEW confirmed \in SUBSET unconfirmed,
         WriteCycle(word, b_rd, aw_rd, w_rd, confirmed)
  PROVE  WriteInv'
<1>1. /\ WriteTypes /\ WordsOfTheirLine /\ BurstTypes
      /\ IdsKept(Opened, unconfirmed, OooFifo!Waiting, Valid, pop_offset # 0, read_ptr)
  BY DEF WriteInv
<1>2. confirmed \in SUBSET OooFifo!Slots /\ OooFifo!Waiting \subseteq Valid
  BY <1>1 DEF WriteTypes, IdsKept
<1>3. /\ WordsOfTheirLine'
      /\ data_ram' \in [OooFifo!Slots -> [Offsets -> LsuLines]]
      /\ tag_cam' \in [OooFifo!Slots -> LsuLines]
  BY <1>1, <1>2, DataStays
<1>4. /\ push_offset' \in Offsets /\ w_in_first' \in BOOLEAN /\ w_line' \in LsuLines
      /\ w_in_reg' \in [vld : BOOLEAN, addr : LsuLines,
                        word : [line : LsuLines \cup {Undef}, last : BOOLEAN]]
  BY <1>1, RegisterMoves
<1>5. RingOK' /\ item_valid' \in [OooFifo!Slots -> BOOLEAN]
  <2>1. ItemsChange(InsertsLast, Pops(aw_rd, w_rd) /\ pop_offset = LINE_WORDS - 1, confirmed)
    BY <1>1, <1>2, ItemsCycle
  <2> QED
    BY <2>1 DEF ItemsChange
<1>6. pop_offset' \in Offsets
  BY <1>1, <1>2, WordRead
<1>7. /\ a_tmp' \in Offered1(Addresses)
      /\ read_data' \in Offered1(WWords) /\ ram_dout' \in Offered1(WWords)
      /\ read_data_backup' \in Offered1(WWords)
      /\ read_data_backup' # <<>> => ram_dout' = <<>> /\ read_data' # <<>>
  BY <1>1, <1>2, AddressesMove, PlacesMove
<1>8. /\ lone_aws' \in Seq(Addresses) /\ lone_ws' \in Offered1(LsuLines)
      /\ lone_ws' = <<>> => InOrder(Opened', read_data', Second', pop_offset' # 0,
                                    tag_cam[read_ptr])
      /\ lone_ws' # <<>> => /\ lone_aws' = <<>> /\ a_tmp' # <<>> /\ lone_ws' = <<a_tmp'[1].line>>
                            /\ read_data' = <<>> /\ Second' = <<>> /\ pop_offset' = 0
      /\ IdsKept(Opened', unconfirmed', OooFifo!Waiting', Valid', pop_offset' # 0, read_ptr')
  <2>1. <<>> \in Offered1(LsuLines)
    BY DEF Offered1
  <2>2. CASE Gone(aw_rd) # <<>> /\ Complete(w_rd) # <<>>
    <3>1. lone_ws # <<>> \/ Leaves(w_rd)
      BY <2>2 DEF Complete
    <3> QED
      BY <2>1, <2>2, <3>1, PairsMeet
  <2>3. CASE Complete(w_rd) = <<>>
    BY <2>1, <2>3, NothingMeets, NoneIsAhead
  <2>4. CASE Gone(aw_rd) = <<>> /\ Complete(w_rd) # <<>>
    <3>1. /\ lone_aws' = <<>> /\ a_tmp' # <<>> /\ lone_ws' = <<a_tmp'[1].line>>
          /\ read_data' = <<>> /\ Second' = <<>> /\ pop_offset' = 0
          /\ a_tmp' \in Offered1(Addresses)
      BY <2>4, OneIsAhead
    <3>2. /\ lone_aws' \in Seq(Addresses)
          /\ IdsKept(Opened', unconfirmed', OooFifo!Waiting', Valid', pop_offset' # 0, read_ptr')
      BY <2>4, NothingMeets
    <3>3. PICK b \in Addresses : a_tmp' = <<b>>
      BY <3>1 DEF Offered1
    <3>4. lone_ws' = <<b.line>> /\ b.line \in LsuLines
      BY <3>1, <3>3 DEF Addresses
    <3>5. lone_ws' \in Offered1(LsuLines) /\ lone_ws' # <<>>
      BY <3>4 DEF Offered1
    <3> QED
      BY <3>1, <3>2, <3>5
  <2> QED
    BY <2>2, <2>3, <2>4
<1>9. unconfirmed' \subseteq OooFifo!Slots
  <2>1. unconfirmed' \subseteq Valid'
    BY <1>8 DEF IdsKept
  <2>2. Valid' \subseteq OooFifo!Slots
    BY DEF Valid, OooFifo!Slots, OooFifo!MAX_DEPTH
  <2> QED
    BY <2>1, <2>2
<1>10. OooFifo!Slots' = OooFifo!Slots
  BY DEF OooFifo!Slots, OooFifo!MAX_DEPTH
<1>11. WriteTypes'
  BY <1>3, <1>4, <1>5, <1>6, <1>9, <1>10 DEF WriteTypes
<1>12. BurstTypes'
  BY <1>7, <1>8, <1>10 DEF BurstTypes, Addresses
<1>13. BurstsMatch'
  <2>1. ASSUME lone_ws' = <<>>
        PROVE  InOrder(Opened', read_data', Second', pop_offset' # 0, tag_cam'[read_ptr'])
    <3>1. PICK q, r, x, tag, other :
             /\ q = Opened' /\ r = read_data' /\ x = Second'
             /\ tag = tag_cam[read_ptr] /\ other = tag_cam'[read_ptr']
      OBVIOUS
    <3>2. PICK more \in BOOLEAN : more = (pop_offset' # 0)
      OBVIOUS
    <3>3. InOrder(q, r, x, more, tag)
      BY <1>8, <2>1, <3>1, <3>2
    <3>4. more => other = tag
      BY <1>2, <3>1, <3>2, LineStays
    <3>5. InOrder(q, r, x, more, other)
      BY <3>3, <3>4, AnyLine
    <3> QED
      BY <3>1, <3>2, <3>5
  <2> QED
    BY <1>7, <1>8, <2>1 DEF BurstsMatch
<1> QED
  BY <1>3, <1>8, <1>11, <1>12, <1>13 DEF WriteInv

LEMMA WriteKeeps ==
  ASSUME WriteInv, NEW b_rd \in BOOLEAN, NEW aw_rd \in BOOLEAN, NEW w_rd \in BOOLEAN,
         WriteNext(b_rd, aw_rd, w_rd)
  PROVE  WriteInv'
<1>1. PICK word \in Offered1(WriteWords), confirmed \in {{}} \cup {{i} : i \in unconfirmed} :
         WriteCycle(word, b_rd, aw_rd, w_rd, confirmed)
  BY DEF WriteNext
<1>2. confirmed \in SUBSET unconfirmed
  BY <1>1
<1> QED
  BY <1>1, <1>2, WriteCycleKeeps

LEMMA WriteStutters ==
  ASSUME WriteInv, UNCHANGED writeVars
  PROVE  WriteInv'
<1>1. OooFifo!Slots' = OooFifo!Slots /\ OooFifo!Waiting' = OooFifo!Waiting
  BY DEF writeVars, itemVars, OooFifo!Slots, OooFifo!MAX_DEPTH, OooFifo!Waiting
<1>2. Valid' = Valid /\ Opened' = Opened /\ Second' = Second /\ RingOK' = RingOK
  BY <1>1 DEF writeVars, itemVars, Valid, Opened, Second, RingOK
<1>3. WriteTypes'
  BY <1>1, <1>2 DEF WriteInv, WriteTypes, writeVars, itemVars
<1>4. WordsOfTheirLine'
  BY <1>1 DEF WriteInv, WordsOfTheirLine, writeVars, itemVars, Next1
<1>5. BurstTypes'
  BY <1>1 DEF WriteInv, BurstTypes, writeVars, Addresses
<1>6. /\ a_tmp' = a_tmp /\ lone_aws' = lone_aws /\ lone_ws' = lone_ws /\ read_data' = read_data
      /\ ram_dout' = ram_dout /\ read_data_backup' = read_data_backup
      /\ pop_offset' = pop_offset /\ tag_cam' = tag_cam /\ read_ptr' = read_ptr
      /\ unconfirmed' = unconfirmed
  BY DEF writeVars, itemVars
<1>7. BurstsMatch'
  BY <1>2, <1>6 DEF WriteInv, BurstsMatch
<1>8. IdsKept(Opened', unconfirmed', OooFifo!Waiting', Valid', pop_offset' # 0, read_ptr')
  BY <1>1, <1>2, <1>6 DEF WriteInv
<1> QED
  BY <1>3, <1>4, <1>5, <1>7, <1>8 DEF WriteInv

LEMMA WriteStarts ==
  ASSUME WriteInit
  PROVE  WriteInv
<1>1. PICK line \in LsuLines : line = CHOOSE l \in LsuLines : TRUE
  BY LsuAssumption
<1>2. /\ write_ptr = 0 /\ read_ptr = 0 /\ ~looped /\ looped \in BOOLEAN
      /\ item_valid = [i \in OooFifo!Slots |-> FALSE]
  BY DEF WriteInit, OooFifo!OooFifoInit
<1>3. 0 \in OooFifo!Slots /\ 0 \in Offsets
  BY ItemsAssumption DEF OooFifo!Slots, OooFifo!MAX_DEPTH, Offsets
<1>4. RingOK
  <2>2. write_ptr <= read_ptr /\ read_ptr <= write_ptr
    BY <1>2
  <2> QED
    BY <1>2, <1>3, <2>2 DEF RingOK
<1>5. OooFifo!Waiting = {} /\ Valid = {}
  <2>1. OooFifo!Slots \subseteq Nat
    BY DEF OooFifo!Slots, OooFifo!MAX_DEPTH
  <2>2. \A i \in OooFifo!Waiting : i \in OooFifo!Slots /\ i >= 0 /\ i < 0
    BY <1>2 DEF OooFifo!Waiting
  <2>4. ASSUME NEW i \in OooFifo!Waiting
        PROVE  FALSE
    <3>1. i \in Nat /\ i < 0
      BY <2>1, <2>2, <2>4
    <3> QED
      BY <3>1
  <2>3. OooFifo!Waiting = {}
    BY <2>4
  <2> QED
    BY <1>2, <2>3 DEF Valid
<1>6. /\ w_in_reg = [vld |-> FALSE, addr |-> line, word |-> NoWrite]
      /\ w_in_first = TRUE /\ push_offset = 0 /\ pop_offset = 0 /\ w_line = line
      /\ data_ram = [s \in OooFifo!Slots |-> [o \in Offsets |-> line]]
      /\ tag_cam = [s \in OooFifo!Slots |-> line]
      /\ a_tmp = <<>> /\ ram_dout = <<>> /\ read_data = <<>> /\ read_data_backup = <<>>
      /\ lone_aws = <<>> /\ lone_ws = <<>> /\ unconfirmed = {}
  BY <1>1 DEF WriteInit
<1>7. NoWrite \in [line : LsuLines \cup {Undef}, last : BOOLEAN]
  BY DEF NoWrite
<1>8. w_in_reg \in [vld : BOOLEAN, addr : LsuLines,
                    word : [line : LsuLines \cup {Undef}, last : BOOLEAN]]
  BY <1>6, <1>7
<1>9. WriteTypes
  BY <1>2, <1>3, <1>4, <1>6, <1>8 DEF WriteTypes
<1>10. w_in_reg.vld = FALSE
  BY <1>6
<1>11. Next1(push_offset, w_in_reg.vld) = 0
  BY <1>6, <1>10 DEF Next1
<1>12. WordsOfTheirLine
  <2>1. \A o \in 0 .. push_offset - 1 : FALSE
    BY <1>6
  <2>2. w_in_first <=> Next1(push_offset, w_in_reg.vld) = 0
    BY <1>6, <1>11
  <2>3. ~w_in_reg.vld /\ w_in_first
    BY <1>6, <1>10
  <2> QED
    BY <1>5, <2>1, <2>2, <2>3 DEF WordsOfTheirLine
<1>13. BurstTypes
  BY <1>6 DEF BurstTypes, Offered1
<1>14. Opened = <<>> /\ Second = <<>>
  BY <1>6 DEF Opened, Second
<1>15. InOrder(<<>>, <<>>, <<>>, FALSE, tag_cam[read_ptr])
  BY DEF InOrder, Mark
<1>16. (pop_offset # 0) = FALSE
  BY <1>6
<1>17. BurstsMatch
  BY <1>6, <1>14, <1>15, <1>16 DEF BurstsMatch
<1>18. IdsKept(Opened, unconfirmed, OooFifo!Waiting, Valid, pop_offset # 0, read_ptr)
  BY <1>5, <1>6, <1>14, <1>16 DEF IdsKept
<1> QED
  BY <1>9, <1>12, <1>13, <1>17, <1>18 DEF WriteInv

LEMMA WriteShows ==
  ASSUME WriteInv
  PROVE  WritesMeetTheirAddress
<1>1. /\ WriteTypes /\ BurstTypes /\ BurstsMatch
      /\ IdsKept(Opened, unconfirmed, OooFifo!Waiting, Valid, pop_offset # 0, read_ptr)
  BY DEF WriteInv
<1>2. PICK p \in Seq(Addresses), q \in Seq(Addresses), n \in Nat, k \in Nat :
         p = lone_aws /\ q = a_tmp /\ n = Len(p) /\ k = Len(q)
  <2>1. lone_aws \in Seq(Addresses) /\ a_tmp \in Seq(Addresses)
    BY <1>1, OfferedIsSeq DEF BurstTypes
  <2> QED
    BY <2>1, LenProperties
<1>3. Joined(p \o q, p, q, n, k) /\ p \o q \in Seq(Addresses)
  BY <1>2, ConcatIs
<1>4. PICK c \in Seq(Addresses) : c = p \o q
  BY <1>3
<1>5. /\ Opened = c /\ Len(c) = n + k
      /\ \A i \in 1 .. n : c[i] = p[i]
      /\ \A i \in 1 .. k : c[n + i] = q[i]
  BY <1>2, <1>3, <1>4 DEF Joined, Opened
<1>6. lone_aws # <<>> /\ read_data # <<>> => read_data[1].line = lone_aws[1].line
  <2>1. SUFFICES ASSUME lone_aws # <<>>, read_data # <<>>
                 PROVE  read_data[1].line = lone_aws[1].line
    OBVIOUS
  <2>2. InOrder(Opened, read_data, Second, pop_offset # 0, tag_cam[read_ptr])
    BY <1>1, <2>1 DEF BurstsMatch
  <2>3. read_data[1].line = c[1].line
    BY <1>5, <2>1, <2>2 DEF InOrder
  <2>4. c[1] = p[1]
    <3>1. n # 0
      BY <1>2, <2>1, EmptySeq
    <3> QED
      BY <1>5, <3>1
  <2> QED
    BY <1>2, <2>3, <2>4
<1>7. lone_ws # <<>> /\ a_tmp # <<>> => a_tmp[1].line = lone_ws[1]
  <2>1. lone_ws # <<>> => lone_ws = <<a_tmp[1].line>>
    BY <1>1 DEF BurstsMatch
  <2> QED
    BY <2>1
<1>8. ASSUME NEW i \in 1 .. Len(a_tmp)
      PROVE  a_tmp[i].id \notin unconfirmed \cup {lone_aws[j].id : j \in 1 .. Len(lone_aws)}
  <2>1. i \in 1 .. k /\ n + i \in 1 .. n + k
    BY <1>2
  <2>2. c[n + i] = a_tmp[i]
    BY <1>2, <1>5, <2>1
  <2>3. c[n + i].id \notin unconfirmed
    BY <1>1, <1>5, <2>1 DEF IdsKept
  <2>4. ASSUME NEW j \in 1 .. n
        PROVE  c[j].id # c[n + i].id
    <3>1. j \in 1 .. n + k /\ j # n + i
      BY <2>1, <2>4
    <3> QED
      BY <1>1, <1>5, <2>1, <3>1 DEF IdsKept
  <2>5. \A j \in 1 .. n : lone_aws[j].id # a_tmp[i].id
    BY <1>2, <1>5, <2>2, <2>4
  <2> QED
    BY <1>2, <2>2, <2>3, <2>5
<1> QED
  BY <1>6, <1>7, <1>8 DEF WritesMeetTheirAddress

---------------------------------------------------------------------------
(* The bridge from AXI to AXI-Lite: the queue of bursts has the words of the bursts *)

\* The queue q, with base words in front of it, has total words: f counts them.
Counts(f, q, base) ==
    /\ f \in [0 .. Len(q) -> Int] /\ f[0] = base
    /\ \A i \in 1 .. Len(q) : f[i] = f[i - 1] + q[i].len + 1
Counted(q, base, total) == \E f : Counts(f, q, base) /\ f[Len(q)] = total

RemWords == IF rem = <<>> THEN 0 ELSE rem[1].rem + 1
AddrLeft == IF len_rem = <<>> THEN 0 ELSE len_rem[1] + 1

LiteInv ==
    /\ req_fifo \in Seq(Requests)
    /\ len_rem = <<>> \/ \E n \in Nat : len_rem = <<n>>
    /\ rem = <<>> \/ \E x \in [id : Ids, rem : Nat] : rem = <<x>>
    /\ lite_beats \in Int
    /\ Counted(req_fifo, RemWords, lite_beats + AddrLeft)

LEMMA CountsShift ==
  ASSUME NEW q \in Seq(Requests), NEW base \in Int, NEW total \in Int, NEW c \in Int,
         Counted(q, base, total)
  PROVE  Counted(q, base + c, total + c)
<1>1. PICK f : Counts(f, q, base) /\ f[Len(q)] = total
  BY DEF Counted
<1> DEFINE g == [i \in 0 .. Len(q) |-> f[i] + c]
<1>2. Len(q) \in Nat /\ \A i \in 1 .. Len(q) : q[i].len \in Int
  <2>1. Len(q) \in Nat /\ \A i \in 1 .. Len(q) : q[i] \in Requests
    OBVIOUS
  <2>2. \A r \in Requests : r.len \in Int
    BY AdapterAssumption DEF Requests
  <2> QED
    BY <2>1, <2>2
<1>3. \A i \in 0 .. Len(q) : f[i] \in Int
  BY <1>1 DEF Counts
<1>4. \A i \in 1 .. Len(q) : i - 1 \in 0 .. Len(q) /\ i \in 0 .. Len(q)
  BY <1>2
<1>5. g \in [0 .. Len(q) -> Int] /\ g[0] = base + c /\ g[Len(q)] = total + c
  BY <1>1, <1>2, <1>3 DEF Counts
<1>6. ASSUME NEW i \in 1 .. Len(q)
      PROVE  g[i] = g[i - 1] + q[i].len + 1
  <2>1. f[i] = f[i - 1] + q[i].len + 1 /\ f[i - 1] \in Int /\ q[i].len \in Int
    BY <1>1, <1>2, <1>3, <1>4 DEF Counts
  <2>2. g[i] = f[i] + c /\ g[i - 1] = f[i - 1] + c
    BY <1>4
  <2> QED
    BY <2>1, <2>2
<1> HIDE DEF g
<1> QED
  BY <1>5, <1>6 DEF Counted, Counts

LEMMA CountsTail ==
  ASSUME NEW q \in Seq(Requests), q # <<>>, NEW base \in Int, NEW total, Counted(q, base, total)
  PROVE  Counted(Tail(q), base + Head(q).len + 1, total)
<1>1. PICK f : Counts(f, q, base) /\ f[Len(q)] = total
  BY DEF Counted
<1>2. PICK n \in Nat : n = Len(q) - 1
  OBVIOUS
<1>3. Len(Tail(q)) = n /\ (\A i \in 1 .. n : Tail(q)[i] = q[i + 1]) /\ Head(q) = q[1] /\ Len(q) = n + 1
  BY <1>2
<1> DEFINE g == [i \in 0 .. n |-> f[i + 1]]
<1>4. \A i \in 0 .. n : i + 1 \in 0 .. Len(q)
  BY <1>3
<1>5. \A i \in 0 .. Len(q) : f[i] \in Int
  BY <1>1 DEF Counts
<1>6. g \in [0 .. n -> Int] /\ g[n] = total
  BY <1>1, <1>3, <1>4, <1>5
<1>7. g[0] = base + Head(q).len + 1
  <2>1. g[0] = f[1] /\ 1 \in 1 .. Len(q) /\ f[0] = base
    BY <1>1, <1>3 DEF Counts
  <2>2. f[1] = f[1 - 1] + q[1].len + 1
    BY <1>1, <2>1 DEF Counts
  <2> QED
    BY <1>3, <2>1, <2>2
<1>8. ASSUME NEW i \in 1 .. n
      PROVE  g[i] = g[i - 1] + Tail(q)[i].len + 1
  <2>1. i + 1 \in 1 .. Len(q) /\ i - 1 \in 0 .. n /\ i \in 0 .. n /\ (i + 1) - 1 = i /\ (i - 1) + 1 = i
    BY <1>3
  <2>2. f[i + 1] = f[i] + q[i + 1].len + 1
    BY <1>1, <2>1 DEF Counts
  <2>3. g[i] = f[i + 1] /\ g[i - 1] = f[i]
    BY <2>1
  <2> QED
    BY <1>3, <2>2, <2>3
<1> HIDE DEF g
<1>9. Counts(g, Tail(q), base + Head(q).len + 1) /\ g[Len(Tail(q))] = total
  BY <1>3, <1>6, <1>7, <1>8 DEF Counts
<1> QED
  BY <1>9 DEF Counted

LEMMA CountsAppend ==
  ASSUME NEW q \in Seq(Requests), NEW r \in Requests, NEW base, NEW total \in Int,
         Counted(q, base, total)
  PROVE  Counted(Append(q, r), base, total + r.len + 1)
<1>1. PICK f : Counts(f, q, base) /\ f[Len(q)] = total
  BY DEF Counted
<1>2. PICK n \in Nat : n = Len(q)
  OBVIOUS
<1>3. PICK s \in Seq(Requests) : s = Append(q, r)
  <2>1. Append(q, r) \in Seq(Requests)
    BY AppendProperties
  <2> QED
    BY <2>1
<1>4. Len(s) = n + 1 /\ (\A i \in 1 .. n : s[i] = q[i]) /\ s[n + 1] = r /\ r.len \in Int
  BY <1>2, <1>3, AdapterAssumption DEF Requests
<1> DEFINE g == [i \in 0 .. n + 1 |-> IF i = n + 1 THEN total + r.len + 1 ELSE f[i]]
<1>5. \A i \in 0 .. n + 1 : i = n + 1 \/ (i \in 0 .. n /\ i # n + 1)
  OBVIOUS
<1>6. g \in [0 .. n + 1 -> Int]
  BY <1>1, <1>2, <1>4, <1>5 DEF Counts
<1>7. g[0] = base
  BY <1>1 DEF Counts
<1>8. ASSUME NEW i \in 1 .. n + 1
      PROVE  g[i] = g[i - 1] + s[i].len + 1
  <2>1. i - 1 \in 0 .. n /\ i - 1 # n + 1
    OBVIOUS
  <2>2. g[i - 1] = f[i - 1]
    BY <2>1
  <2>3. CASE i = n + 1
    <3>1. g[i] = total + r.len + 1 /\ i - 1 = n
      BY <2>3
    <3> QED
      BY <1>1, <1>2, <1>4, <2>2, <2>3, <3>1
  <2>4. CASE i \in 1 .. n
    <3>1. g[i] = f[i]
      BY <2>4
    <3> QED
      BY <1>1, <1>2, <1>4, <2>2, <2>4, <3>1 DEF Counts
  <2> QED
    BY <1>5, <2>3, <2>4
<1>9. g[n + 1] = total + r.len + 1
  OBVIOUS
<1> HIDE DEF g
<1>10. Counts(g, s, base) /\ g[Len(s)] = total + r.len + 1
  BY <1>4, <1>6, <1>7, <1>8, <1>9 DEF Counts
<1> QED
  BY <1>3, <1>10 DEF Counted

LEMMA LiteKeeps ==
  ASSUME LiteInv, NEW out_rd \in BOOLEAN, LiteNext(out_rd)
  PROVE  LiteInv'
<1>1. PICK req \in {<<>>} \cup {<<r>> : r \in Requests}, addr_rd \in BOOLEAN, in_vld \in BOOLEAN,
           vld \in BOOLEAN : LiteCycle(req, addr_rd, in_vld, out_rd, vld)
  BY DEF LiteNext
<1> DEFINE starts == Starts(req, addr_rd)
           passes == Passes(in_vld, out_rd)
           last == LastPasses(in_vld, out_rd)
           loads == LoadsRem(in_vld, out_rd)
           goes_on == len_rem # <<>> /\ addr_rd
           popped == IF vld /\ loads THEN Tail(req_fifo) ELSE req_fifo
<1>2. /\ vld => req_fifo # <<>>
      /\ len_rem' = NextLenRem(req, addr_rd)
      /\ req_fifo' = IF starts THEN Append(popped, req[1]) ELSE popped
      /\ rem' = NextRem(in_vld, out_rd, vld)
      /\ lite_beats' = (lite_beats + (IF starts \/ goes_on THEN 1 ELSE 0)) - (IF passes THEN 1 ELSE 0)
  <2>1. lite_beats \in Int
    BY DEF LiteInv
  <2> QED
    BY <1>1, <2>1 DEF LiteCycle
<1>3. /\ req_fifo \in Seq(Requests) /\ lite_beats \in Int
      /\ rem # <<>> => rem[1].rem \in Nat /\ rem[1].id \in Ids
      /\ len_rem # <<>> => len_rem[1] \in Nat
      /\ RemWords \in Nat /\ AddrLeft \in Nat
      /\ Counted(req_fifo, RemWords, lite_beats + AddrLeft)
  BY DEF LiteInv, RemWords, AddrLeft
<1>4. req # <<>> => req[1] \in Requests /\ req[1].len \in Nat
  BY AdapterAssumption DEF Requests
<1>5. PICK p \in {0, 1} : passes <=> p = 1
  OBVIOUS
<1>6. PICK base \in Nat : base = RemWords - p
  BY <1>3, <1>5 DEF RemWords, Passes
<1>7. loads => base = 0
  BY <1>3, <1>5, <1>6 DEF LoadsRem, LastPasses, Passes, RemWords
<1>8. PICK total \in Int : total = lite_beats + AddrLeft - p
  BY <1>3
<1>9. Counted(req_fifo, base, total)
  <2>1. RemWords + (-p) = base /\ lite_beats + AddrLeft + (-p) = total /\ -p \in Int
        /\ lite_beats + AddrLeft \in Int
    BY <1>3, <1>6, <1>8
  <2>2. PICK c \in Int, t \in Int : c = -p /\ t = lite_beats + AddrLeft
    <3>1. \E c \in Int : c = -p
      BY <2>1
    <3>2. \E t \in Int : t = lite_beats + AddrLeft
      BY <2>1
    <3> QED
      BY <3>1, <3>2
  <2>3. PICK b \in Int : b = RemWords
    BY <1>3
  <2>4. Counted(req_fifo, b, t)
    BY <1>3, <2>2, <2>3
  <2>5. Counted(req_fifo, b + c, t + c)
    BY <1>3, <2>4, CountsShift
  <2> QED
    BY <2>1, <2>2, <2>3, <2>5
\* what is taken out of the queue is in rem then
<1>10. /\ rem' = <<>> \/ \E x \in [id : Ids, rem : Nat] : rem' = <<x>>
       /\ popped \in Seq(Requests) /\ Counted(popped, RemWords', total)
  <2>1. CASE loads /\ vld
    <3>1. req_fifo # <<>> /\ Head(req_fifo) \in Requests /\ Tail(req_fifo) \in Seq(Requests)
      BY <1>2, <1>3, <2>1
    <3>0. \A h \in Requests : h.len \in Nat /\ h.id \in Ids
      BY AdapterAssumption DEF Requests
    <3>2. PICK h \in Requests : h = Head(req_fifo) /\ h.len \in Nat /\ h.id \in Ids
      BY <3>0, <3>1
    <3>3. PICK x \in [id : Ids, rem : Nat] : x = [id |-> h.id, rem |-> h.len] /\ x.rem = h.len
      <4>1. PICK x : x = [id |-> h.id, rem |-> h.len]
        OBVIOUS
      <4>2. x \in [id : Ids, rem : Nat] /\ x.rem = h.len
        BY <3>2, <4>1
      <4> QED
        BY <4>1, <4>2
    <3>4. rem' = <<x>>
      BY <1>2, <2>1, <3>2, <3>3 DEF NextRem
    <3>5. RemWords' = h.len + 1
      BY <3>3, <3>4 DEF RemWords
    <3>6. Counted(Tail(req_fifo), base + h.len + 1, total)
      BY <1>3, <1>9, <3>1, <3>2, CountsTail
    <3>7. base + h.len + 1 = RemWords'
      BY <1>7, <2>1, <3>2, <3>5
    <3> QED
      BY <2>1, <3>1, <3>4, <3>6, <3>7
  <2>2. CASE loads /\ ~vld
    <3>1. rem' = <<>> /\ RemWords' = 0
      BY <1>2, <2>2 DEF NextRem, RemWords
    <3> QED
      BY <1>3, <1>7, <1>9, <2>2, <3>1
  <2>3. CASE ~loads /\ passes
    <3>1. PICK x \in [id : Ids, rem : Nat] : rem = <<x>>
      BY <2>3 DEF LiteInv, Passes
    <3>2. rem[1] = x /\ x.rem # 0
      BY <2>3, <3>1 DEF LoadsRem, LastPasses
    <3>3. rem' = <<[rem[1] EXCEPT !.rem = @ - 1]>>
      BY <1>2, <2>3 DEF NextRem
    <3>4. PICK y \in [id : Ids, rem : Nat] : y = [x EXCEPT !.rem = @ - 1] /\ y.rem = x.rem - 1
      <4>1. x.rem # 0
        BY <3>2
      <4>2. PICK y : y = [x EXCEPT !.rem = @ - 1]
        OBVIOUS
      <4>3. y \in [id : Ids, rem : Nat] /\ y.rem = x.rem - 1
        BY <4>1, <4>2
      <4> QED
        BY <4>2, <4>3
    <3>5. rem' = <<y>> /\ rem' # <<>> /\ rem'[1] = y
      BY <3>2, <3>3, <3>4
    <3>6. RemWords' = base
      BY <1>5, <1>6, <2>3, <3>1, <3>2, <3>4, <3>5 DEF RemWords
    <3> QED
      BY <1>3, <1>9, <2>3, <3>5, <3>6
  <2>4. CASE ~loads /\ ~passes
    <3>1. rem' = rem /\ RemWords' = RemWords /\ p = 0
      BY <1>2, <1>5, <2>4 DEF NextRem, RemWords
    <3>2. RemWords' = base
      BY <1>3, <1>6, <3>1
    <3> QED
      BY <1>3, <1>9, <2>4, <3>1, <3>2 DEF LiteInv
  <2> QED
    BY <2>1, <2>2, <2>3, <2>4
\* the beats that follow the first one of a request are in len_rem
<1>11. /\ len_rem' = <<>> \/ \E n \in Nat : len_rem' = <<n>>
       /\ lite_beats' \in Int
       /\ lite_beats' + AddrLeft' = total + (IF starts THEN req[1].len + 1 ELSE 0)
  <2>1. CASE goes_on
    <3>1. ~starts /\ len_rem' = IF len_rem[1] = 0 THEN <<>> ELSE <<len_rem[1] - 1>>
      BY <1>2, <2>1 DEF Starts, NextLenRem
    <3>2. lite_beats' = lite_beats + 1 - p /\ AddrLeft = len_rem[1] + 1
      BY <1>2, <1>3, <1>5, <2>1 DEF AddrLeft
    <3>3. AddrLeft' = len_rem[1]
      BY <1>3, <2>1, <3>1 DEF AddrLeft
    <3>4. lite_beats' + AddrLeft' = total /\ lite_beats' \in Int
      <4>1. len_rem[1] \in Nat
        BY <1>3, <2>1
      <4>2. AddrLeft = len_rem[1] + 1 /\ AddrLeft' = len_rem[1] /\ lite_beats \in Int
            /\ total = lite_beats + AddrLeft - p /\ lite_beats' = lite_beats + 1 - p
        BY <1>3, <1>8, <3>2, <3>3
      <4> QED
        BY <4>1, <4>2
    <3>5. len_rem[1] # 0 => len_rem[1] - 1 \in Nat
      BY <1>3, <2>1
    <3> QED
      BY <3>1, <3>4, <3>5
  <2>2. CASE ~goes_on /\ starts
    <3>1. AddrLeft = 0 /\ req # <<>>
      BY <2>2 DEF Starts, AddrLeft
    <3>2. len_rem' = IF req[1].len # 0 THEN <<req[1].len - 1>> ELSE <<>>
      BY <1>2, <2>2 DEF NextLenRem, Starts
    <3>3. AddrLeft' = req[1].len
      BY <1>4, <3>1, <3>2 DEF AddrLeft
    <3>4. lite_beats' = lite_beats + 1 - p
      BY <1>2, <1>3, <1>5, <2>2
    <3>5. lite_beats' + AddrLeft' = total + (req[1].len + 1) /\ lite_beats' \in Int
      <4>1. req[1].len \in Nat
        BY <1>4, <3>1
      <4> QED
        BY <1>3, <1>8, <3>1, <3>3, <3>4, <4>1
    <3>6. req[1].len # 0 => req[1].len - 1 \in Nat
      BY <1>4, <3>1
    <3> QED
      BY <2>2, <3>2, <3>5, <3>6
  <2>3. CASE ~goes_on /\ ~starts
    <3>1. len_rem' = len_rem /\ AddrLeft' = AddrLeft
      BY <1>2, <2>3 DEF NextLenRem, AddrLeft
    <3>2. lite_beats' = lite_beats - p
      BY <1>2, <1>3, <1>5, <2>3
    <3>3. lite_beats' + AddrLeft' = total
      BY <1>3, <1>8, <3>1, <3>2
    <3> QED
      BY <1>3, <2>3, <3>1, <3>2, <3>3 DEF LiteInv
  <2> QED
    BY <2>1, <2>2, <2>3
<1>12. req_fifo' \in Seq(Requests) /\ Counted(req_fifo', RemWords', lite_beats' + AddrLeft')
  <2>1. CASE starts
    <3>1. req # <<>>
      BY <2>1 DEF Starts
    <3>2. PICK r \in Requests : r = req[1] /\ r.len \in Nat
      BY <1>4, <3>1
    <3>3. PICK s \in Seq(Requests) : s = popped
      BY <1>10
    <3>4. req_fifo' = Append(s, r)
      BY <1>2, <2>1, <3>2, <3>3
    <3>5. Counted(Append(s, r), RemWords', total + r.len + 1)
      BY <1>10, <3>3, CountsAppend
    <3>6. lite_beats' + AddrLeft' = total + r.len + 1
      BY <1>11, <2>1, <3>2
    <3> QED
      BY <3>4, <3>5, <3>6
  <2>2. CASE ~starts
    <3>1. req_fifo' = popped /\ lite_beats' + AddrLeft' = total
      BY <1>2, <1>11, <2>2
    <3> QED
      BY <1>10, <3>1
  <2> QED
    BY <2>1, <2>2
<1> QED
  BY <1>10, <1>11, <1>12 DEF LiteInv

LEMMA LiteStarts ==
  ASSUME LiteInit
  PROVE  LiteInv
<1>1. req_fifo = <<>> /\ len_rem = <<>> /\ rem = <<>> /\ lite_beats = 0 /\ RemWords = 0 /\ AddrLeft = 0
  BY DEF LiteInit, RemWords, AddrLeft
<1> DEFINE f == [i \in 0 .. 0 |-> 0]
<1>2. Counts(f, <<>>, 0) /\ f[Len(<<>>)] = 0
  BY DEF Counts
<1>3. Counted(<<>>, 0, 0 + 0)
  BY <1>2 DEF Counted
<1> QED
  BY <1>1, <1>3 DEF LiteInv

LEMMA LiteStutters ==
  ASSUME LiteInv, UNCHANGED liteVars
  PROVE  LiteInv'
BY DEF LiteInv, liteVars, RemWords, AddrLeft

\* The words of the queue, put after those of r.
WordsTable(g, n, q, r) ==
    g = [i \in 0 .. n |-> IF i > 0 THEN g[i - 1] \o WordsOf(q[i]) ELSE r]

LEMMA WordsTableExists ==
  ASSUME NEW q, NEW r
  PROVE  \A n \in Nat : \E g : WordsTable(g, n, q, r)
<1> DEFINE Bad == {n \in Nat : ~ \E g : WordsTable(g, n, q, r)}
<1> SUFFICES ASSUME Bad # {} PROVE FALSE
  OBVIOUS
<1>1. PICK n \in Bad : \A v \in Bad : n <= v
  BY LeastExists
<1>2. CASE n = 0
  <2> DEFINE g == [i \in 0 .. 0 |-> r]
  <2>1. WordsTable(g, 0, q, r)
    BY DEF WordsTable
  <2> QED BY <1>2, <2>1
<1>3. CASE n > 0
  <2>1. n - 1 \in Nat /\ n - 1 \notin Bad
    BY <1>1, <1>3
  <2>2. PICK g : WordsTable(g, n - 1, q, r)
    BY <2>1
  <2> DEFINE h == [i \in 0 .. n |-> IF i = n THEN g[n - 1] \o WordsOf(q[n]) ELSE g[i]]
  <2>3. \A i \in 0 .. n - 1 : h[i] = g[i]
    OBVIOUS
  <2>4. \A i \in 0 .. n - 1 : g[i] = IF i > 0 THEN g[i - 1] \o WordsOf(q[i]) ELSE r
    BY <2>2 DEF WordsTable
  <2>5. ASSUME NEW i \in 0 .. n PROVE h[i] = IF i > 0 THEN h[i - 1] \o WordsOf(q[i]) ELSE r
    BY <1>3, <2>3, <2>4
  <2>6. WordsTable(h, n, q, r)
    BY <2>5 DEF WordsTable
  <2> QED BY <2>6
<1> QED BY <1>1, <1>2, <1>3

LiteWords == [id : Ids, last : BOOLEAN]

LEMMA WordsOfIs ==
  ASSUME NEW req, req.id \in Ids, req.len \in Nat
  PROVE  WordsOf(req) \in Seq(LiteWords) /\ Len(WordsOf(req)) = req.len + 1
<1>1. \A i \in 1 .. req.len + 1 : [id |-> req.id, last |-> i = req.len + 1] \in LiteWords
  BY DEF LiteWords
<1>2. WordsOf(req) \in [1 .. req.len + 1 -> LiteWords]
  BY <1>1 DEF WordsOf
<1>3. req.len + 1 \in Nat
  OBVIOUS
<1> QED
  BY <1>2, <1>3

LEMMA LiteShows ==
  ASSUME LiteInv
  PROVE  BeatsMatchBursts
<1> DEFINE r == IF rem = <<>> THEN <<>> ELSE WordsOf([id |-> rem[1].id, len |-> rem[1].rem])
           n == Len(req_fifo)
<1>1. n \in Nat /\ req_fifo \in Seq(Requests)
  BY DEF LiteInv
<1>2. PICK g : WordsTable(g, n, req_fifo, r)
  BY <1>1, WordsTableExists
<1>3. PICK w : w = CHOOSE h : WordsTable(h, n, req_fifo, r)
  OBVIOUS
<1>4. WordsTable(w, n, req_fifo, r)
  BY <1>2, <1>3
<1>5. LiteContents = w[n]
  BY <1>3 DEF LiteContents, WordsTable
<1>6. PICK f : Counts(f, req_fifo, RemWords) /\ f[n] = lite_beats + AddrLeft
  BY DEF LiteInv, Counted
<1>7. r \in Seq(LiteWords) /\ Len(r) = RemWords
  <2>1. CASE rem = <<>>
    <3>1. r = <<>> /\ RemWords = 0 /\ Len(<<>>) = 0 /\ <<>> \in Seq(LiteWords)
      BY <2>1 DEF RemWords
    <3> QED
      BY <3>1
  <2>2. CASE rem # <<>>
    <3>1. PICK x \in [id : Ids, rem : Nat] : rem = <<x>>
      BY <2>2 DEF LiteInv
    <3>2. rem[1] = x /\ x.id \in Ids /\ x.rem \in Nat
      BY <3>1
    <3>3. PICK y : y = [id |-> x.id, len |-> x.rem] /\ y.id \in Ids /\ y.len = x.rem
      <4>1. PICK y : y = [id |-> x.id, len |-> x.rem]
        OBVIOUS
      <4>2. y.id = x.id /\ y.len = x.rem
        BY <4>1
      <4> QED
        BY <3>2, <4>1, <4>2
    <3>4. r = WordsOf(y) /\ RemWords = x.rem + 1
      BY <2>2, <3>2, <3>3 DEF RemWords
    <3> QED
      BY <3>2, <3>3, <3>4, WordsOfIs
  <2> QED
    BY <2>1, <2>2
<1> HIDE DEF r
<1>8. \A i \in 0 .. n : w[i] = IF i > 0 THEN w[i - 1] \o WordsOf(req_fifo[i]) ELSE r
  BY <1>4 DEF WordsTable
<1>9. \A i \in 0 .. n : w[i] \in Seq(LiteWords) /\ Len(w[i]) = f[i]
  <2> DEFINE Bad == {i \in 0 .. n : ~(w[i] \in Seq(LiteWords) /\ Len(w[i]) = f[i])}
  <2> SUFFICES ASSUME Bad # {} PROVE FALSE
    OBVIOUS
  <2>0. Bad \in SUBSET Nat
    BY <1>1
  <2>1. PICK k \in Bad : \A v \in Bad : k <= v
    BY <2>0, LeastExists
  <2>2. k \in 0 .. n
    OBVIOUS
  <2>3. CASE k = 0
    <3>1. w[0] = r /\ f[0] = RemWords
      BY <1>1, <1>6, <1>8 DEF Counts
    <3> QED
      BY <1>7, <2>3, <3>1
  <2>4. CASE k > 0
    <3>1. k - 1 \in 0 .. n /\ k \in 1 .. n /\ k - 1 \notin Bad
      BY <1>1, <2>1, <2>2, <2>4
    <3>2. w[k - 1] \in Seq(LiteWords) /\ Len(w[k - 1]) = f[k - 1]
      BY <3>1
    <3>3. w[k] = w[k - 1] \o WordsOf(req_fifo[k])
      BY <1>8, <2>2, <2>4
    <3>4. f[k] = f[k - 1] + req_fifo[k].len + 1
      BY <1>6, <3>1 DEF Counts
    <3>5. req_fifo[k] \in Requests
      BY <1>1, <3>1
    <3>6. PICK x \in Requests : x = req_fifo[k] /\ x.id \in Ids /\ x.len \in Nat
      BY <3>5, AdapterAssumption DEF Requests
    <3>7. WordsOf(x) \in Seq(LiteWords) /\ Len(WordsOf(x)) = x.len + 1
      BY <3>6, WordsOfIs
    <3>8. PICK a \in Seq(LiteWords), b \in Seq(LiteWords) : a = w[k - 1] /\ b = WordsOf(x)
      BY <3>2, <3>7
    <3>9. a \o b \in Seq(LiteWords) /\ Len(a \o b) = Len(a) + Len(b)
      OBVIOUS
    <3>10. Len(a) + Len(b) = f[k]
      <4>1. f[k - 1] \in Int
        BY <1>6, <3>1 DEF Counts
      <4>2. f[k] = f[k - 1] + x.len + 1
        BY <3>4, <3>6
      <4>3. Len(a) = f[k - 1] /\ Len(b) = x.len + 1
        BY <3>2, <3>7, <3>8
      <4> QED
        BY <3>6, <4>1, <4>2, <4>3
    <3> QED
      BY <2>1, <3>3, <3>6, <3>8, <3>9, <3>10
  <2> QED
    BY <1>1, <2>2, <2>3, <2>4
<1> QED
  <2>1. Len(LiteContents) = lite_beats + AddrLeft
    BY <1>1, <1>5, <1>6, <1>9
  <2> QED
    BY <2>1 DEF BeatsMatchBursts, AddrLeft

---------------------------------------------------------------------------
(* The bridge from AXI to Avalon: the words of a burst have their places *)

\* A word of a burst is the last or not.
Marks == BOOLEAN

ReadsPending == IF addr_tmp = <<>> \/ IsWrite THEN 0 ELSE addr_tmp[1].len + 1

AvalonInv ==
    /\ rw_priority \in {"READ", "WRITE"}
    /\ addr_tmp = <<>> \/ \E a \in [len : Nat, is_w : BOOLEAN] : addr_tmp = <<a>>
    /\ r_data_fifo \in Seq(Marks) /\ avalon_words \in Seq(Marks)
    /\ r_data_fifo_capacity \in Int
    /\ r_data_fifo_capacity + Len(r_data_fifo) + Len(avalon_words) + ReadsPending = R_DATA_FIFO_DEPTH
    /\ w_left = IF IsWrite THEN addr_tmp[1].len + 1 ELSE 0

LEMMA BurstIs ==
  ASSUME NEW n \in Nat
  PROVE  Burst(n) \in Seq(Marks) /\ Len(Burst(n)) = n + 1
<1>1. \A i \in 1 .. n + 1 : (i = n + 1) \in Marks
  BY DEF Marks
<1>2. Burst(n) \in [1 .. n + 1 -> Marks]
  BY <1>1 DEF Burst
<1> QED
  BY <1>2

\* The length of what is in the address register goes down by one.
LEMMA LenGoesDown ==
  ASSUME NEW a \in [len : Nat, is_w : BOOLEAN], a.len # 0
  PROVE  /\ [a EXCEPT !.len = @ - 1] \in [len : Nat, is_w : BOOLEAN]
         /\ [a EXCEPT !.len = @ - 1].len = a.len - 1
         /\ [a EXCEPT !.len = @ - 1].is_w = a.is_w
OBVIOUS

\* The address register in a clock: what was in it goes on, and what it loads was accepted.
LEMMA AddrMoves ==
  ASSUME AvalonInv, NEW ar \in Lengths, NEW aw \in Lengths, NEW w_vld \in BOOLEAN, NEW b_rd \in BOOLEAN,
         NEW wait \in BOOLEAN, ~AR_STALLS, WriteMayCome(ar, aw, wait, w_vld, b_rd),
         addr_tmp' = NextAddr(ar, aw, wait, w_vld, b_rd),
         w_left' = IF aw # <<>> /\ AwReady(ar, wait, w_vld, b_rd) THEN aw[1] + 1
                   ELSE IF WordPasses(wait, w_vld, b_rd) /\ w_left > 0 THEN w_left - 1 ELSE w_left
  PROVE  /\ addr_tmp' = <<>> \/ \E a \in [len : Nat, is_w : BOOLEAN] : addr_tmp' = <<a>>
         /\ w_left' = IF IsWrite' THEN addr_tmp'[1].len + 1 ELSE 0
         /\ ReadsPending' =
               (IF ArEn(ar, aw, wait, w_vld, b_rd) THEN ar[1] + 1 ELSE 0)
               + (IF addr_tmp # <<>> /\ ~IsWrite /\ ~wait THEN 0 ELSE ReadsPending)
         /\ ArEn(ar, aw, wait, w_vld, b_rd) => ar # <<>>
<1> DEFINE Shape == addr_tmp' = <<>> \/ \E a \in [len : Nat, is_w : BOOLEAN] : addr_tmp' = <<a>>
           Left == w_left' = IF IsWrite' THEN addr_tmp'[1].len + 1 ELSE 0
           en == ArEn(ar, aw, wait, w_vld, b_rd)
           loads == LoadsAw(ar, aw, wait, w_vld, b_rd)
           passes == WordPasses(wait, w_vld, b_rd)
           idle == WillBeIdle(wait, w_vld, b_rd)
<1>1. /\ en => idle /\ ar # <<>> /\ ~loads /\ ~(aw # <<>> /\ AwReady(ar, wait, w_vld, b_rd))
      /\ loads => idle /\ aw # <<>>
      /\ loads <=> aw # <<>> /\ AwReady(ar, wait, w_vld, b_rd)
  <2>1. rw_priority \in {"READ", "WRITE"}
    BY DEF AvalonInv
  <2>2. en => ~(aw # <<>> /\ AwReady(ar, wait, w_vld, b_rd))
    BY <2>1 DEF ArEn, AwReady
  <2>3. loads => AwReady(ar, wait, w_vld, b_rd)
    BY DEF LoadsAw, AwReady, WriteMayCome
  <2> QED
    BY <2>2, <2>3 DEF ArEn, LoadsAw, AwReady
<1>2. /\ ar # <<>> => ar[1] \in Nat /\ ar = <<ar[1]>>
      /\ aw # <<>> => aw[1] \in Nat /\ aw = <<aw[1]>>
  BY AdapterAssumption DEF Lengths
<1>3. /\ passes => IsWrite /\ ~wait
      /\ idle => addr_tmp = <<>> \/ (~IsWrite /\ ~wait) \/ (IsWrite /\ IsLastWord /\ passes)
      /\ passes /\ ~IsLastWord => ~idle
      /\ IsWrite => addr_tmp # <<>> /\ addr_tmp[1].is_w
  BY DEF WordPasses, WillBeIdle, IsWrite
<1>4. /\ IsWrite \in BOOLEAN /\ (IsWrite => addr_tmp[1].len \in Nat /\ w_left = addr_tmp[1].len + 1)
      /\ ~IsWrite => w_left = 0
      /\ addr_tmp # <<>> => addr_tmp[1].len \in Nat
  BY DEF AvalonInv, IsWrite
<1>5. idle => ReadsPending = IF addr_tmp # <<>> /\ ~IsWrite /\ ~wait THEN ReadsPending ELSE 0
  BY <1>3 DEF ReadsPending
<1>6. CASE en
  <2>1. addr_tmp' = <<[len |-> ar[1], is_w |-> FALSE]>>
    BY <1>6 DEF NextAddr
  <2>2. IsWrite' = FALSE /\ addr_tmp' # <<>> /\ addr_tmp'[1].len = ar[1]
    BY <2>1 DEF IsWrite
  <2>3. w_left' = 0
    BY <1>1, <1>3, <1>4, <1>6 DEF IsLastWord
  <2>4. ReadsPending' = ar[1] + 1
    BY <2>2 DEF ReadsPending
  <2>5. ReadsPending = 0 \/ (addr_tmp # <<>> /\ ~IsWrite /\ ~wait)
    BY <1>1, <1>3, <1>6 DEF ReadsPending
  <2>6. \E a \in [len : Nat, is_w : BOOLEAN] : addr_tmp' = <<a>>
    BY <1>1, <1>2, <1>6, <2>1
  <2>7. ar[1] + 1 \in Nat /\ ReadsPending' = ar[1] + 1 + (IF addr_tmp # <<>> /\ ~IsWrite /\ ~wait THEN 0 ELSE ReadsPending)
    BY <1>1, <1>2, <1>6, <2>4, <2>5
  <2> QED
    BY <1>1, <1>6, <2>2, <2>3, <2>6, <2>7
<1>7. CASE loads
  <2>1. addr_tmp' = <<[len |-> aw[1], is_w |-> TRUE]>>
    BY <1>1, <1>7 DEF NextAddr
  <2>2. IsWrite' = TRUE /\ addr_tmp' # <<>> /\ addr_tmp'[1].len = aw[1]
    BY <2>1 DEF IsWrite
  <2>3. w_left' = aw[1] + 1
    BY <1>1, <1>7
  <2>4. ReadsPending' = 0
    BY <2>2 DEF ReadsPending
  <2>5. ReadsPending = 0 \/ (addr_tmp # <<>> /\ ~IsWrite /\ ~wait)
    BY <1>1, <1>3, <1>7 DEF ReadsPending
  <2>6. \E a \in [len : Nat, is_w : BOOLEAN] : addr_tmp' = <<a>>
    BY <1>1, <1>2, <1>7, <2>1
  <2>7. ~en
    BY <1>1, <1>7
  <2> QED
    BY <2>2, <2>3, <2>4, <2>5, <2>6, <2>7
<1>8. CASE ~en /\ ~loads /\ passes /\ ~IsLastWord
  <2>1. PICK a \in [len : Nat, is_w : BOOLEAN] : addr_tmp = <<a>>
    BY <1>3, <1>8 DEF AvalonInv
  <2>2. addr_tmp[1] = a /\ a.len # 0 /\ a.is_w
    BY <1>3, <1>8, <2>1 DEF IsLastWord
  <2>3. PICK b \in [len : Nat, is_w : BOOLEAN] :
           /\ b = [a EXCEPT !.len = @ - 1]
           /\ b.len = a.len - 1 /\ b.is_w = a.is_w
    BY <2>2, LenGoesDown
  <2>4. addr_tmp' = <<b>>
    <3>1. addr_tmp' = <<[addr_tmp[1] EXCEPT !.len = @ - 1]>>
      BY <1>8 DEF NextAddr
    <3> QED
      BY <2>2, <2>3, <3>1
  <2>5. addr_tmp' # <<>> /\ addr_tmp'[1] = b
    BY <2>4
  <2>6. IsWrite' = TRUE /\ IsWrite
    BY <1>3, <1>8, <2>2, <2>3, <2>5 DEF IsWrite
  <2>7. w_left' = b.len + 1
    <3>1. w_left = a.len + 1 /\ w_left > 0
      BY <1>4, <2>2, <2>6
    <3> QED
      BY <1>1, <1>8, <2>3, <3>1
  <2>8. ReadsPending = 0 /\ ReadsPending' = 0
    BY <2>6 DEF ReadsPending
  <2> QED
    BY <1>8, <2>4, <2>5, <2>6, <2>7, <2>8
<1>9. CASE ~en /\ ~loads /\ ~(passes /\ ~IsLastWord) /\ ~wait /\ (IsWrite => w_vld /\ b_rd)
  <2>1. addr_tmp' = <<>>
    BY <1>9 DEF NextAddr
  <2>2. IsWrite' = FALSE /\ ReadsPending' = 0
    BY <2>1 DEF IsWrite, ReadsPending
  <2>3. IsWrite => passes /\ IsLastWord
    BY <1>9 DEF WordPasses
  <2>4. w_left' = 0
    BY <1>1, <1>3, <1>4, <1>9, <2>3 DEF IsLastWord
  <2>5. ReadsPending = 0 \/ (addr_tmp # <<>> /\ ~IsWrite /\ ~wait)
    BY <1>9 DEF ReadsPending
  <2> QED
    BY <1>9, <2>1, <2>2, <2>4, <2>5
<1>10. CASE ~en /\ ~loads /\ ~(passes /\ ~IsLastWord) /\ ~(~wait /\ (IsWrite => w_vld /\ b_rd))
  <2>1. addr_tmp' = addr_tmp
    BY <1>10 DEF NextAddr
  <2>2. IsWrite' = IsWrite /\ ReadsPending' = ReadsPending
    BY <2>1 DEF IsWrite, ReadsPending
  <2>3. ~passes
    BY <1>10 DEF WordPasses
  <2>4. w_left' = w_left
    BY <1>1, <1>10, <2>3
  <2>5. ~(addr_tmp # <<>> /\ ~IsWrite /\ ~wait)
    BY <1>10
  <2>6. ReadsPending \in Nat
    BY <1>4 DEF ReadsPending
  <2> QED
    BY <1>4, <1>10, <2>1, <2>2, <2>4, <2>5, <2>6 DEF AvalonInv
<1> QED
  BY <1>1, <1>6, <1>7, <1>8, <1>9, <1>10

LEMMA AvalonKeeps ==
  ASSUME ~AR_STALLS, AvalonInv, NEW r_rd \in BOOLEAN, NEW b_rd \in BOOLEAN, NEW wait \in BOOLEAN,
         AvalonNext(r_rd, b_rd, wait)
  PROVE  AvalonInv'
<1>1. PICK ar \in Lengths, aw \in Lengths, w_vld \in BOOLEAN, sends \in BOOLEAN, size_vld \in BOOLEAN :
         /\ WriteMayCome(ar, aw, wait, w_vld, b_rd)
         /\ AvalonCycle(ar, aw, w_vld, r_rd, b_rd, wait, sends, size_vld)
  BY DEF AvalonNext
<1>2. /\ addr_tmp' = <<>> \/ \E a \in [len : Nat, is_w : BOOLEAN] : addr_tmp' = <<a>>
      /\ w_left' = IF IsWrite' THEN addr_tmp'[1].len + 1 ELSE 0
      /\ ReadsPending' =
            (IF ArEn(ar, aw, wait, w_vld, b_rd) THEN ar[1] + 1 ELSE 0)
            + (IF addr_tmp # <<>> /\ ~IsWrite /\ ~wait THEN 0 ELSE ReadsPending)
      /\ ArEn(ar, aw, wait, w_vld, b_rd) => ar # <<>>
  BY <1>1, AddrMoves DEF AvalonCycle
<1> DEFINE ack == r_data_fifo # <<>> /\ word_cntr # <<>> /\ r_rd
           en == ArEn(ar, aw, wait, w_vld, b_rd)
           reads == addr_tmp # <<>> /\ ~IsWrite /\ ~wait
           data == IF ack THEN Tail(r_data_fifo) ELSE r_data_fifo
           sent_on == IF sends THEN Tail(avalon_words) ELSE avalon_words
           new == IF reads THEN Burst(addr_tmp[1].len) ELSE <<>>
<1>3. /\ r_data_fifo' = IF sends THEN Append(data, Head(avalon_words)) ELSE data
      /\ avalon_words' = sent_on \o new
      /\ sends => avalon_words # <<>>
      /\ r_data_fifo_capacity' = NextCapacity(ack, en, IF ar = <<>> THEN 0 ELSE ar[1])
      /\ rw_priority' = rw_priority
  BY <1>1 DEF AvalonCycle
<1>4. PICK a \in {0, 1}, s \in {0, 1}, g \in Nat : (ack <=> a = 1) /\ (sends <=> s = 1)
                                        /\ g = IF en THEN ar[1] + 1 ELSE 0
  <2>1. ar # <<>> => ar[1] \in Nat
    BY AdapterAssumption DEF Lengths
  <2>2. (IF en THEN ar[1] + 1 ELSE 0) \in Nat
    BY <1>2, <2>1
  <2> QED
    BY <2>2
<1>5. /\ r_data_fifo \in Seq(Marks) /\ avalon_words \in Seq(Marks)
      /\ addr_tmp # <<>> => addr_tmp[1].len \in Nat
      /\ r_data_fifo_capacity \in Int
      /\ r_data_fifo_capacity + Len(r_data_fifo) + Len(avalon_words) + ReadsPending = R_DATA_FIFO_DEPTH
  BY DEF AvalonInv
<1>6. data \in Seq(Marks) /\ Len(data) = Len(r_data_fifo) - a
  <2>1. CASE ack
    <3>1. Tail(r_data_fifo) \in Seq(Marks) /\ Len(Tail(r_data_fifo)) = Len(r_data_fifo) - 1
      BY <1>5, <2>1
    <3>2. a = 1 /\ data = Tail(r_data_fifo)
      BY <1>4, <2>1
    <3> QED
      BY <3>1, <3>2
  <2>2. CASE ~ack
    <3>1. a = 0 /\ data = r_data_fifo
      BY <1>4, <2>2
    <3> QED
      BY <1>5, <3>1
  <2> QED
    BY <2>1, <2>2
<1>7. sent_on \in Seq(Marks) /\ Len(sent_on) = Len(avalon_words) - s
  <2>1. CASE sends
    BY <1>3, <1>4, <1>5, <2>1
  <2>2. CASE ~sends
    BY <1>4, <1>5, <2>2
  <2> QED
    BY <2>1, <2>2
<1>8. r_data_fifo' \in Seq(Marks) /\ Len(r_data_fifo') = Len(r_data_fifo) - a + s
  <2>1. CASE sends
    <3>1. Head(avalon_words) \in Marks
      BY <1>3, <1>5, <2>1
    <3>2. PICK h \in Marks : h = Head(avalon_words)
      BY <3>1
    <3>3. PICK x \in Seq(Marks) : x = data
      BY <1>6
    <3>4. r_data_fifo' = Append(x, h)
      BY <1>3, <2>1, <3>2, <3>3
    <3> QED
      BY <1>4, <1>5, <1>6, <2>1, <3>3, <3>4
  <2>2. CASE ~sends
    <3>1. r_data_fifo' = data /\ s = 0
      BY <1>3, <1>4, <2>2
    <3> QED
      BY <1>5, <1>6, <3>1
  <2> QED
    BY <2>1, <2>2
<1>9. new \in Seq(Marks) /\ Len(new) = IF reads THEN addr_tmp[1].len + 1 ELSE 0
  <2>1. CASE reads
    <3>1. addr_tmp[1].len \in Nat
      BY <1>5, <2>1
    <3> QED
      BY <2>1, <3>1, BurstIs
  <2>2. CASE ~reads
    BY <2>2
  <2> QED
    BY <2>1, <2>2
<1>10. avalon_words' \in Seq(Marks) /\ Len(avalon_words') = Len(avalon_words) - s + Len(new)
  <2>1. PICK x \in Seq(Marks), y \in Seq(Marks) : x = sent_on /\ y = new
    BY <1>7, <1>9
  <2>2. avalon_words' = x \o y
    BY <1>3, <2>1
  <2>3. x \o y \in Seq(Marks) /\ Len(x \o y) = Len(x) + Len(y)
    BY <2>1
  <2> QED
    BY <1>7, <2>1, <2>2, <2>3
<1>11. r_data_fifo_capacity' = r_data_fifo_capacity + a - g
  <2>1. en => ar # <<>> /\ ar[1] \in Nat
    BY <1>2, AdapterAssumption DEF Lengths
  <2>2. r_data_fifo_capacity \in Int
    BY <1>5
  <2>3. CASE ack /\ en
    BY <1>3, <1>4, <2>1, <2>2, <2>3 DEF NextCapacity
  <2>4. CASE ack /\ ~en
    BY <1>3, <1>4, <2>2, <2>4 DEF NextCapacity
  <2>5. CASE ~ack /\ en
    BY <1>3, <1>4, <2>1, <2>2, <2>5 DEF NextCapacity
  <2>6. CASE ~ack /\ ~en
    BY <1>3, <1>4, <2>2, <2>6 DEF NextCapacity
  <2> QED
    BY <2>3, <2>4, <2>5, <2>6
<1>12. ReadsPending \in Nat /\ ReadsPending' = g + ReadsPending - Len(new)
  <2>1. ReadsPending = IF addr_tmp = <<>> \/ IsWrite THEN 0 ELSE addr_tmp[1].len + 1
    BY DEF ReadsPending
  <2>2. ReadsPending \in Nat
    BY <1>5, <2>1
  <2>3. ReadsPending' = g + (IF reads THEN 0 ELSE ReadsPending)
    BY <1>2, <1>4
  <2>4. Len(new) = IF reads THEN ReadsPending ELSE 0
    BY <1>9, <2>1
  <2>5. CASE reads
    BY <2>2, <2>3, <2>4, <2>5
  <2>6. CASE ~reads
    <3>1. Len(new) = 0 /\ ReadsPending' = g + ReadsPending
      BY <2>3, <2>4, <2>6
    <3> QED
      BY <1>4, <2>2, <3>1
  <2> QED
    BY <2>5, <2>6
<1>13. r_data_fifo_capacity' + Len(r_data_fifo') + Len(avalon_words') + ReadsPending' = R_DATA_FIFO_DEPTH
       /\ r_data_fifo_capacity' \in Int
  <2>1. Len(r_data_fifo) \in Nat /\ Len(avalon_words) \in Nat /\ Len(new) \in Nat
    BY <1>5, <1>9
  <2>2. PICK x \in Nat, y \in Nat, z \in Nat, v \in Nat : x = Len(r_data_fifo) /\ y = Len(avalon_words)
                                               /\ z = Len(new) /\ v = ReadsPending
    BY <1>12, <2>1
  <2>3. /\ r_data_fifo_capacity + x + y + v = R_DATA_FIFO_DEPTH
        /\ Len(r_data_fifo') = x - a + s /\ Len(avalon_words') = y - s + z
        /\ r_data_fifo_capacity' = r_data_fifo_capacity + a - g /\ ReadsPending' = g + v - z
    BY <1>5, <1>8, <1>10, <1>11, <1>12, <2>2
  <2> HIDE DEF new
  <2> QED
    BY <1>5, <2>3, AdapterAssumption
<1> QED
  <2>1. rw_priority' \in {"READ", "WRITE"}
    BY <1>3 DEF AvalonInv
  <2> QED
    BY <1>2, <1>8, <1>10, <1>13, <2>1 DEF AvalonInv

LEMMA AvalonStarts ==
  ASSUME AvalonInit
  PROVE  AvalonInv
BY AdapterAssumption DEF AvalonInit, AvalonInv, IsWrite, ReadsPending

LEMMA AvalonStutters ==
  ASSUME AvalonInv, UNCHANGED avalonVars
  PROVE  AvalonInv'
BY DEF AvalonInv, avalonVars, IsWrite, ReadsPending

LEMMA AvalonShows ==
  ASSUME AvalonInv
  PROVE  AvalonBurstsMatch
<1>1. PICK pending \in Seq(Marks) :
         /\ pending = IF addr_tmp = <<>> \/ IsWrite THEN <<>> ELSE Burst(addr_tmp[1].len)
         /\ Len(pending) = ReadsPending
  <2>1. addr_tmp # <<>> => addr_tmp[1].len \in Nat
    BY DEF AvalonInv
  <2>2. CASE addr_tmp = <<>> \/ IsWrite
    <3>1. Len(<<>>) = 0 /\ <<>> \in Seq(Marks)
      OBVIOUS
    <3>2. ReadsPending = 0
      BY <2>2 DEF ReadsPending
    <3>3. \E x \in Seq(Marks) : x = <<>> /\ Len(x) = 0
      BY <3>1
    <3> QED
      BY <2>2, <3>2, <3>3
  <2>3. CASE ~(addr_tmp = <<>> \/ IsWrite)
    BY <2>1, <2>3, BurstIs DEF ReadsPending
  <2> QED
    BY <2>2, <2>3
<1>2. AvalonContents = r_data_fifo \o avalon_words \o pending
  BY <1>1 DEF AvalonContents
<1>3. Len(AvalonContents) = Len(r_data_fifo) + Len(avalon_words) + ReadsPending
  <2>1. r_data_fifo \in Seq(Marks) /\ avalon_words \in Seq(Marks)
    BY DEF AvalonInv
  <2>2. /\ r_data_fifo \o avalon_words \in Seq(Marks)
        /\ Len(r_data_fifo \o avalon_words) = Len(r_data_fifo) + Len(avalon_words)
    BY <2>1
  <2>3. PICK x \in Seq(Marks) : x = r_data_fifo \o avalon_words
    BY <2>2
  <2>4. Len(x \o pending) = Len(x) + Len(pending)
    OBVIOUS
  <2> QED
    BY <1>1, <1>2, <2>2, <2>3, <2>4
<1>4. Len(r_data_fifo) \in Nat /\ Len(avalon_words) \in Nat /\ ReadsPending \in Nat
  BY <1>1 DEF AvalonInv
<1> QED
  BY <1>3, <1>4 DEF AvalonInv, AvalonBurstsMatch

---------------------------------------------------------------------------
(* The reorder buffer: its words are numbered from the one that is due *)

\* The word with the number n after d.
Num(d, n) == (d + n) % (2 * ID_COUNT)
Window == 0 .. ID_COUNT - 1
Read == Len(read_words)

ReorderInv ==
    /\ due \in 0 .. 2 * ID_COUNT - 1 /\ out_cntr = IdOf(Num(due, Read))
    /\ read_words \in Seq(Nat) /\ Read <= ID_COUNT
    /\ \A i \in 1 .. Read : read_words[i] = Num(due, i - 1)
    /\ DOMAIN storage = Window
    /\ dataIn_reg = <<>> \/ \E n \in Window : n >= Read /\ dataIn_reg = <<Num(due, n)>>
    /\ \A n \in Window :
          /\ IdOf(Num(due, n)) \in item_occ =>
                n >= Read /\ storage[IdOf(Num(due, n))] = Num(due, n)
                /\ dataIn_reg # <<Num(due, n)>>
          /\ Num(due, n) \in sent <=>
                n < Read \/ dataIn_reg = <<Num(due, n)>> \/ IdOf(Num(due, n)) \in item_occ
    /\ \A w \in sent : \E n \in Window : w = Num(due, n)

LEMMA NumIs ==
  ASSUME NEW d \in 0 .. 2 * ID_COUNT - 1, NEW n \in 0 .. 2 * ID_COUNT
  PROVE  /\ Num(d, n) = IF d + n >= 2 * ID_COUNT THEN d + n - 2 * ID_COUNT ELSE d + n
         /\ Num(d, n) \in 0 .. 2 * ID_COUNT - 1
<1>1. PICK m \in Nat \ {0} : m = 2 * ID_COUNT
  BY AdapterAssumption
<1>2. d + n \in 0 .. 2 * m - 1
  BY <1>1, AdapterAssumption
<1>3. PICK x \in 0 .. 2 * m - 1 : x = d + n
  BY <1>2
<1>4. x % m = IF x >= m THEN x - m ELSE x
  BY ModuloOnce
<1> QED
  BY <1>1, <1>3, <1>4, AdapterAssumption DEF Num

LEMMA IdIs ==
  ASSUME NEW w \in 0 .. 2 * ID_COUNT - 1
  PROVE  IdOf(w) = (IF w >= ID_COUNT THEN w - ID_COUNT ELSE w) /\ IdOf(w) \in Window
<1>1. w % ID_COUNT = IF w >= ID_COUNT THEN w - ID_COUNT ELSE w
  BY AdapterAssumption, ModuloOnce
<1> QED
  BY <1>1, AdapterAssumption DEF IdOf, Window

LEMMA IdsDiffer ==
  ASSUME NEW d \in 0 .. 2 * ID_COUNT - 1, NEW n \in 0 .. ID_COUNT, NEW p \in 0 .. ID_COUNT, n < p
  PROVE  /\ Num(d, n) # Num(d, p)
         /\ (IdOf(Num(d, n)) = IdOf(Num(d, p))) => n = 0 /\ p = ID_COUNT
<1>1. n \in 0 .. 2 * ID_COUNT /\ p \in 0 .. 2 * ID_COUNT
  BY AdapterAssumption
<1>2. PICK a \in 0 .. 2 * ID_COUNT - 1, b \in 0 .. 2 * ID_COUNT - 1 : a = Num(d, n) /\ b = Num(d, p)
  BY <1>1, NumIs
<1>3. /\ a = IF d + n >= 2 * ID_COUNT THEN d + n - 2 * ID_COUNT ELSE d + n
      /\ b = IF d + p >= 2 * ID_COUNT THEN d + p - 2 * ID_COUNT ELSE d + p
  BY <1>1, <1>2, NumIs, AdapterAssumption
<1>4. /\ IdOf(a) = IF a >= ID_COUNT THEN a - ID_COUNT ELSE a
      /\ IdOf(b) = IF b >= ID_COUNT THEN b - ID_COUNT ELSE b
  BY <1>2, IdIs
<1> QED
  BY <1>2, <1>3, <1>4, AdapterAssumption

LEMMA Shift ==
  ASSUME NEW d \in 0 .. 2 * ID_COUNT - 1, NEW n \in 0 .. ID_COUNT - 1
  PROVE  /\ Num(d, 1) \in 0 .. 2 * ID_COUNT - 1 /\ Num(Num(d, 1), n) = Num(d, n + 1)
         /\ Num(d, 0) = d
         /\ (IdOf(Num(d, n)) + 1) % ID_COUNT = IdOf(Num(d, n + 1))
<1>1. n \in 0 .. 2 * ID_COUNT /\ n + 1 \in 0 .. 2 * ID_COUNT /\ 1 \in 0 .. 2 * ID_COUNT
      /\ 0 \in 0 .. 2 * ID_COUNT
  BY AdapterAssumption
<1>2. PICK a \in 0 .. 2 * ID_COUNT - 1, b \in 0 .. 2 * ID_COUNT - 1, c \in 0 .. 2 * ID_COUNT - 1 :
         a = Num(d, n) /\ b = Num(d, n + 1) /\ c = Num(d, 1)
  BY <1>1, NumIs
<1>3. /\ a = IF d + n >= 2 * ID_COUNT THEN d + n - 2 * ID_COUNT ELSE d + n
      /\ b = IF d + (n + 1) >= 2 * ID_COUNT THEN d + (n + 1) - 2 * ID_COUNT ELSE d + (n + 1)
      /\ c = IF d + 1 >= 2 * ID_COUNT THEN d + 1 - 2 * ID_COUNT ELSE d + 1
      /\ Num(d, 0) = d
  <2>1. a = IF d + n >= 2 * ID_COUNT THEN d + n - 2 * ID_COUNT ELSE d + n
    BY <1>1, <1>2, NumIs
  <2>2. b = IF d + (n + 1) >= 2 * ID_COUNT THEN d + (n + 1) - 2 * ID_COUNT ELSE d + (n + 1)
    <3>1. PICK s \in 0 .. 2 * ID_COUNT : s = n + 1
      BY <1>1
    <3>2. Num(d, s) = IF d + s >= 2 * ID_COUNT THEN d + s - 2 * ID_COUNT ELSE d + s
      BY NumIs
    <3> QED
      BY <1>2, <3>1, <3>2
  <2>3. c = IF d + 1 >= 2 * ID_COUNT THEN d + 1 - 2 * ID_COUNT ELSE d + 1
    BY <1>1, <1>2, NumIs
  <2>4. Num(d, 0) = d
    <3>1. Num(d, 0) = IF d + 0 >= 2 * ID_COUNT THEN d + 0 - 2 * ID_COUNT ELSE d + 0
      BY <1>1, NumIs
    <3>2. d + 0 = d /\ ~(d >= 2 * ID_COUNT)
      BY AdapterAssumption
    <3> QED
      BY <3>1, <3>2
  <2> QED
    BY <2>1, <2>2, <2>3, <2>4
<1>4. Num(c, n) = IF c + n >= 2 * ID_COUNT THEN c + n - 2 * ID_COUNT ELSE c + n
  BY <1>1, NumIs, AdapterAssumption
<1>5. Num(c, n) = b
  BY <1>3, <1>4, AdapterAssumption
<1>6. /\ IdOf(a) = IF a >= ID_COUNT THEN a - ID_COUNT ELSE a
      /\ IdOf(b) = IF b >= ID_COUNT THEN b - ID_COUNT ELSE b
      /\ IdOf(a) \in Window
  BY <1>2, IdIs
<1>7. (IdOf(a) + 1) % ID_COUNT = IF IdOf(a) + 1 >= ID_COUNT THEN IdOf(a) + 1 - ID_COUNT
                                 ELSE IdOf(a) + 1
  <2>1. PICK i \in Window : i = IdOf(a)
    BY <1>6
  <2>3. PICK x \in 0 .. 2 * ID_COUNT - 1 : x = i + 1
    BY AdapterAssumption DEF Window
  <2>2. x % ID_COUNT = IF x >= ID_COUNT THEN x - ID_COUNT ELSE x
    BY AdapterAssumption, ModuloOnce
  <2>4. (i + 1) % ID_COUNT = IF i + 1 >= ID_COUNT THEN i + 1 - ID_COUNT ELSE i + 1
    BY <2>2, <2>3, AdapterAssumption DEF Window
  <2> QED
    BY <2>1, <2>4
<1>8. (IdOf(a) + 1) % ID_COUNT = IdOf(b)
  BY <1>3, <1>6, <1>7, AdapterAssumption
<1> QED
  BY <1>2, <1>3, <1>5, <1>8

\* What leaves and what is read in a clock.
LEMMA ClockKeeps ==
  ASSUME ReorderInv, NEW addr_rd \in BOOLEAN, NEW leaves \in BOOLEAN, NEW p \in Window, NEW offers \in BOOLEAN,
         NEW in, in = IF offers THEN <<Num(due, p)>> ELSE <<>>,
         offers => Num(due, p) \notin sent,
         ReorderCycle(in, addr_rd, leaves)
  PROVE  ReorderInv'
<1> DEFINE reads == addr_rd /\ out_cntr \in item_occ
<1>0. PICK e \in {0, 1}, r \in {0, 1} : (leaves <=> e = 1) /\ (reads <=> r = 1)
  OBVIOUS
<1>1. /\ due \in 0 .. 2 * ID_COUNT - 1 /\ out_cntr = IdOf(Num(due, Read))
      /\ read_words \in Seq(Nat) /\ Read \in 0 .. ID_COUNT
      /\ \A i \in 1 .. Read : read_words[i] = Num(due, i - 1)
      /\ DOMAIN storage = Window
  BY AdapterAssumption DEF ReorderInv, Read
<1>2. PICK k \in 0 .. ID_COUNT, d \in 0 .. 2 * ID_COUNT - 1 : k = Read /\ d = due
  BY <1>1
<1>3. reads => k < ID_COUNT /\ storage[out_cntr] = Num(d, k) /\ dataIn_reg # <<Num(d, k)>>
               /\ IdOf(Num(d, k)) \in item_occ
  <2>1. SUFFICES ASSUME reads
                 PROVE  k < ID_COUNT /\ storage[out_cntr] = Num(d, k) /\ dataIn_reg # <<Num(d, k)>>
                        /\ IdOf(Num(d, k)) \in item_occ
    OBVIOUS
  <2>2. IdOf(Num(d, k)) \in item_occ /\ out_cntr = IdOf(Num(d, k))
    BY <1>1, <1>2, <2>1
  <2>3. CASE k < ID_COUNT
    <3>1. k \in Window
      BY <2>3, AdapterAssumption DEF Window
    <3> QED
      BY <1>2, <2>2, <2>3, <3>1 DEF ReorderInv
  <2>4. CASE k = ID_COUNT
    <3>1. 0 \in 0 .. ID_COUNT - 1 /\ ID_COUNT \in 0 .. ID_COUNT /\ 0 \in 0 .. ID_COUNT /\ 0 < ID_COUNT
      BY AdapterAssumption
    <3>2. IdOf(Num(d, 0)) = IdOf(Num(d, ID_COUNT))
      <4>1. PICK w \in 0 .. 2 * ID_COUNT - 1, v \in 0 .. 2 * ID_COUNT - 1 : w = Num(d, 0) /\ v = Num(d, ID_COUNT)
        <5>1. 0 \in 0 .. 2 * ID_COUNT /\ ID_COUNT \in 0 .. 2 * ID_COUNT
          BY AdapterAssumption
        <5> QED
          BY <5>1, NumIs
      <4>2. w = d
        BY <3>1, <4>1, Shift
      <4>3. v = IF d + ID_COUNT >= 2 * ID_COUNT THEN d + ID_COUNT - 2 * ID_COUNT ELSE d + ID_COUNT
        <5>1. ID_COUNT \in 0 .. 2 * ID_COUNT
          BY AdapterAssumption
        <5> QED
          BY <4>1, <5>1, NumIs
      <4>4. /\ IdOf(w) = IF w >= ID_COUNT THEN w - ID_COUNT ELSE w
            /\ IdOf(v) = IF v >= ID_COUNT THEN v - ID_COUNT ELSE v
        BY IdIs
      <4> QED
        BY <4>1, <4>2, <4>3, <4>4, AdapterAssumption
    <3>3. 0 >= Read
      BY <1>2, <2>2, <2>4, <3>1, <3>2 DEF ReorderInv, Window
    <3> QED
      BY <1>2, <2>4, <3>1, <3>3
  <2>5. k < ID_COUNT \/ k = ID_COUNT
    BY AdapterAssumption
  <2> QED
    BY <2>3, <2>4, <2>5
<1>4. leaves => k > 0
  BY <1>1, <1>2 DEF ReorderCycle, Read
<1>5. PICK v \in Nat : v = Num(d, k)
  <2>1. k \in 0 .. 2 * ID_COUNT
    BY AdapterAssumption
  <2> QED
    BY <2>1, NumIs, AdapterAssumption
<1>6. /\ due' = Num(d, e) /\ due' \in 0 .. 2 * ID_COUNT - 1
      /\ \A n \in Window : Num(due', n) = Num(d, n + e) /\ n + e \in 0 .. ID_COUNT
  <2>1. 0 \in 0 .. ID_COUNT - 1
    BY AdapterAssumption
  <2>2. due' = IF leaves THEN Num(d, 1) ELSE d
    BY <1>2 DEF ReorderCycle, Numbered, Num
  <2>3. \A n \in Window : n + 1 \in 0 .. ID_COUNT /\ n + 0 = n /\ n \in 0 .. ID_COUNT
    BY AdapterAssumption DEF Window
  <2>4. \A n \in Window : Num(Num(d, 1), n) = Num(d, n + 1)
    BY Shift DEF Window
  <2>5. Num(d, 0) = d /\ Num(d, 1) \in 0 .. 2 * ID_COUNT - 1
    BY <2>1, Shift
  <2>6. CASE leaves
    BY <1>0, <2>2, <2>3, <2>4, <2>5, <2>6
  <2>7. CASE ~leaves
    BY <1>0, <2>2, <2>3, <2>5, <2>7
  <2> QED
    BY <2>6, <2>7
<1>7. /\ read_words' \in Seq(Nat) /\ Len(read_words') = k - e + r
      /\ \A i \in 1 .. k - e + r : read_words'[i] = Num(d, i - 1 + e)
  <2>1. PICK left \in Seq(Nat) : /\ left = IF leaves THEN Tail(read_words) ELSE read_words
                                 /\ Len(left) = k - e
                                 /\ \A i \in 1 .. k - e : left[i] = Num(d, i - 1 + e)
    <3>1. CASE leaves
      <4>1. Tail(read_words) \in Seq(Nat) /\ Len(Tail(read_words)) = k - 1
            /\ \A i \in 1 .. k - 1 : Tail(read_words)[i] = read_words[i + 1]
        BY <1>1, <1>2, <1>4, <3>1 DEF Read
      <4>2. \A i \in 1 .. k - 1 : i + 1 \in 1 .. k /\ (i + 1) - 1 = i - 1 + 1
        OBVIOUS
      <4>3. \A i \in 1 .. k - 1 : Tail(read_words)[i] = Num(d, i - 1 + 1)
        BY <1>1, <1>2, <4>1, <4>2
      <4> QED
        BY <1>0, <3>1, <4>1, <4>3
    <3>2. CASE ~leaves
      <4>1. k - 0 = k /\ \A i \in 1 .. k : i - 1 + 0 = i - 1
        OBVIOUS
      <4> QED
        BY <1>0, <1>1, <1>2, <3>2, <4>1 DEF Read
    <3> QED
      BY <3>1, <3>2
  <2>2. read_words' = IF reads THEN Append(left, v) ELSE left
    BY <1>3, <1>5, <2>1 DEF ReorderCycle
  <2>3. CASE reads
    <3>1. Append(left, v) \in Seq(Nat) /\ Len(Append(left, v)) = k - e + 1
          /\ \A i \in 1 .. k - e + 1 : Append(left, v)[i] = IF i = k - e + 1 THEN v ELSE left[i]
      BY <2>1, SMTT(30)
    <3>2. \A i \in 1 .. k - e + 1 : i # k - e + 1 => i \in 1 .. k - e
      OBVIOUS
    <3>3. (k - e + 1) - 1 + e = k
      OBVIOUS
    <3>4. r = 1 /\ read_words' = Append(left, v)
      BY <1>0, <2>2, <2>3
    <3>5. \A i \in 1 .. k - e + 1 : Append(left, v)[i] = Num(d, i - 1 + e)
      BY <1>5, <2>1, <3>1, <3>2, <3>3
    <3> QED
      BY <3>1, <3>4, <3>5
  <2>4. CASE ~reads
    <3>1. r = 0 /\ k - e + 0 = k - e
      BY <1>0, <2>4
    <3> QED
      BY <2>1, <2>2, <2>4, <3>1
  <2> QED
    BY <2>3, <2>4
<1>8. /\ \A n, m \in 0 .. ID_COUNT : Num(d, n) = Num(d, m) => n = m
      /\ \A n, m \in Window : IdOf(Num(d, n)) = IdOf(Num(d, m)) => n = m
      /\ \A n \in Window : IdOf(Num(d, ID_COUNT)) = IdOf(Num(d, n)) => n = 0
      /\ \A n \in Window : n \in 0 .. ID_COUNT
      /\ \A n \in Window : IdOf(Num(d, n)) \in Window
  <2>1. \A n \in Window : n \in 0 .. ID_COUNT /\ n < ID_COUNT /\ n \in 0 .. 2 * ID_COUNT
    BY AdapterAssumption DEF Window
  <2>2. ASSUME NEW n \in 0 .. ID_COUNT, NEW m \in 0 .. ID_COUNT, n # m
        PROVE  /\ Num(d, n) # Num(d, m)
               /\ IdOf(Num(d, n)) = IdOf(Num(d, m)) => (n = 0 /\ m = ID_COUNT) \/ (m = 0 /\ n = ID_COUNT)
    <3>1. CASE n < m
      BY <3>1, IdsDiffer
    <3>2. CASE m < n
      BY <3>2, IdsDiffer
    <3>3. n < m \/ m < n
      BY <2>2, AdapterAssumption
    <3> QED
      BY <3>1, <3>2, <3>3
  <2>3. \A n \in Window : IdOf(Num(d, n)) \in Window
    BY <2>1, NumIs, IdIs
  <2>4. \A n \in Window : IdOf(Num(d, ID_COUNT)) = IdOf(Num(d, n)) => n = 0
    <3>1. ID_COUNT \in 0 .. ID_COUNT /\ ID_COUNT # 0
      BY AdapterAssumption
    <3> QED
      BY <2>1, <2>2, <3>1
  <2> QED
    BY <2>1, <2>2, <2>3, <2>4
<1>9. /\ dataIn_reg = <<>> \/ \E n \in Window : n >= k /\ dataIn_reg = <<Num(d, n)>>
      /\ \A n \in Window :
            /\ IdOf(Num(d, n)) \in item_occ =>
                  n >= k /\ storage[IdOf(Num(d, n))] = Num(d, n) /\ dataIn_reg # <<Num(d, n)>>
            /\ Num(d, n) \in sent <=>
                  n < k \/ dataIn_reg = <<Num(d, n)>> \/ IdOf(Num(d, n)) \in item_occ
      /\ \A w \in sent : \E n \in Window : w = Num(d, n)
  BY <1>2 DEF ReorderInv
<1>10. /\ dataIn_reg # <<>> => Occupies
       /\ \A n \in Window : dataIn_reg = <<Num(d, n)>> => dataIn_reg # <<>> /\ dataIn_reg[1] = Num(d, n)
  BY <1>9 DEF Occupies
<1>11. /\ dataIn_reg' = in /\ (in # <<>> <=> offers) /\ storage' = Stored
       /\ item_occ' = (item_occ \cup (IF dataIn_reg # <<>> THEN {IdOf(dataIn_reg[1])} ELSE {}))
                      \ (IF reads THEN {out_cntr} ELSE {})
       /\ out_cntr' = IF reads THEN (out_cntr + 1) % ID_COUNT ELSE out_cntr
       /\ sent' = (sent \cup (IF offers THEN {Num(d, p)} ELSE {})) \ (IF leaves THEN {d} ELSE {})
  <2>1. in # <<>> <=> offers
    OBVIOUS
  <2>2. Occupies => dataIn_reg # <<>>
    BY DEF Occupies
  <2>3. offers => in[1] = Num(d, p)
    BY <1>2
  <2> QED
    BY <1>2, <1>10, <2>1, <2>2, <2>3 DEF ReorderCycle
<1>12. offers => p >= k /\ dataIn_reg # <<Num(d, p)>> /\ IdOf(Num(d, p)) \notin item_occ
  <2>1. offers => Num(d, p) \notin sent
    BY <1>2
  <2>2. p \in Nat /\ (~(p < k) => p >= k)
    BY DEF Window
  <2> QED
    BY <1>9, <2>1, <2>2
<1>13. \A m \in Window :
          /\ IdOf(Num(d, m)) \in item_occ' <=>
                (IdOf(Num(d, m)) \in item_occ \/ dataIn_reg = <<Num(d, m)>>) /\ ~(reads /\ m = k)
          /\ dataIn_reg' = <<Num(d, m)>> <=> offers /\ m = p
          /\ Num(d, m) \in sent' <=>
                (Num(d, m) \in sent \/ (offers /\ m = p)) /\ ~(leaves /\ m = 0)
  <2> SUFFICES ASSUME NEW m \in Window
               PROVE  /\ IdOf(Num(d, m)) \in item_occ' <=>
                            (IdOf(Num(d, m)) \in item_occ \/ dataIn_reg = <<Num(d, m)>>) /\ ~(reads /\ m = k)
                      /\ dataIn_reg' = <<Num(d, m)>> <=> offers /\ m = p
                      /\ Num(d, m) \in sent' <=>
                            (Num(d, m) \in sent \/ (offers /\ m = p)) /\ ~(leaves /\ m = 0)
    OBVIOUS
  <2>1. dataIn_reg # <<>> /\ IdOf(dataIn_reg[1]) = IdOf(Num(d, m)) <=> dataIn_reg = <<Num(d, m)>>
    <3>1. CASE dataIn_reg = <<>>
      BY <3>1, <1>10
    <3>2. ASSUME NEW n \in Window, dataIn_reg = <<Num(d, n)>>
          PROVE  IdOf(dataIn_reg[1]) = IdOf(Num(d, m)) <=> dataIn_reg = <<Num(d, m)>>
      <4>1. dataIn_reg[1] = Num(d, n)
        BY <3>2
      <4>2. IdOf(Num(d, n)) = IdOf(Num(d, m)) => n = m
        BY <1>8
      <4>3. <<Num(d, n)>> = <<Num(d, m)>> => Num(d, n) = Num(d, m)
        OBVIOUS
      <4> QED
        BY <3>2, <4>1, <4>2, <4>3
    <3> QED
      BY <1>9, <1>10, <3>1, <3>2
  <2>2. reads => (IdOf(Num(d, m)) = out_cntr <=> m = k)
    <3>1. reads => k \in Window
      BY <1>3, AdapterAssumption DEF Window
    <3> QED
      BY <1>1, <1>2, <1>8, <3>1
  <2>3. IdOf(Num(d, m)) \in item_occ' <=>
           (IdOf(Num(d, m)) \in item_occ \/ dataIn_reg = <<Num(d, m)>>) /\ ~(reads /\ m = k)
    BY <1>11, <2>1, <2>2
  <2>4. Num(d, p) = Num(d, m) <=> p = m
    BY <1>8
  <2>5. dataIn_reg' = <<Num(d, m)>> <=> offers /\ m = p
    <3>1. <<Num(d, p)>> = <<Num(d, m)>> => Num(d, p) = Num(d, m)
      OBVIOUS
    <3>2. <<>> # <<Num(d, m)>>
      OBVIOUS
    <3> QED
      BY <1>2, <1>11, <2>4, <3>1, <3>2
  <2>6. d = Num(d, m) <=> m = 0
    <3>1. Num(d, 0) = d /\ 0 \in Window
      BY Shift, AdapterAssumption DEF Window
    <3> QED
      BY <1>8, <3>1
  <2>7. Num(d, m) \in sent' <=>
           (Num(d, m) \in sent \/ (offers /\ m = p)) /\ ~(leaves /\ m = 0)
    BY <1>11, <2>4, <2>6
  <2> QED
    BY <2>3, <2>5, <2>7
<1>14. /\ leaves => IdOf(Num(d, ID_COUNT)) \notin item_occ'
       /\ dataIn_reg' # <<Num(d, ID_COUNT)>> /\ Num(d, ID_COUNT) \notin sent'
  <2>1. ID_COUNT \in 0 .. ID_COUNT /\ ID_COUNT \notin Window
    BY AdapterAssumption DEF Window
  <2>2. \A n \in Window : Num(d, n) # Num(d, ID_COUNT)
    BY <1>8, <2>1
  <2>3. Num(d, ID_COUNT) \notin sent'
    BY <1>9, <1>11, <2>2
  <2>4. dataIn_reg' # <<Num(d, ID_COUNT)>>
    <3>1. <<Num(d, p)>> = <<Num(d, ID_COUNT)>> => Num(d, p) = Num(d, ID_COUNT)
      OBVIOUS
    <3>2. <<>> # <<Num(d, ID_COUNT)>>
      OBVIOUS
    <3> QED
      BY <1>2, <1>11, <2>2, <3>1, <3>2
  <2>5. ASSUME leaves, IdOf(Num(d, ID_COUNT)) \in item_occ'
        PROVE  FALSE
    <3>1. PICK n \in Window : IdOf(Num(d, n)) = IdOf(Num(d, ID_COUNT)) /\ n = 0
      <4>1. 0 \in Window
        BY AdapterAssumption DEF Window
      <4>2. IdOf(Num(d, 0)) = IdOf(Num(d, ID_COUNT))
        <5>1. PICK w \in 0 .. 2 * ID_COUNT - 1, u \in 0 .. 2 * ID_COUNT - 1 : w = Num(d, 0) /\ u = Num(d, ID_COUNT)
          <6>1. 0 \in 0 .. 2 * ID_COUNT /\ ID_COUNT \in 0 .. 2 * ID_COUNT
            BY AdapterAssumption
          <6> QED
            BY <6>1, NumIs
        <5>2. w = d
          BY <4>1, <5>1, Shift DEF Window
        <5>3. u = IF d + ID_COUNT >= 2 * ID_COUNT THEN d + ID_COUNT - 2 * ID_COUNT ELSE d + ID_COUNT
          <6>1. ID_COUNT \in 0 .. 2 * ID_COUNT
            BY AdapterAssumption
          <6> QED
            BY <5>1, <6>1, NumIs
        <5>4. /\ IdOf(w) = IF w >= ID_COUNT THEN w - ID_COUNT ELSE w
              /\ IdOf(u) = IF u >= ID_COUNT THEN u - ID_COUNT ELSE u
          BY IdIs
        <5> QED
          BY <5>1, <5>2, <5>3, <5>4, AdapterAssumption
      <4> QED
        BY <4>1, <4>2
    <3>2. IdOf(Num(d, n)) \in item_occ \/ dataIn_reg = <<Num(d, n)>>
      BY <1>13, <2>5, <3>1
    <3>3. ~(n >= k)
      BY <1>4, <2>5, <3>1
    <3>4. \A q \in Window : <<Num(d, n)>> = <<Num(d, q)>> => n = q
      BY <1>8
    <3> QED
      BY <1>9, <1>10, <3>2, <3>3, <3>4
  <2> QED
    BY <2>3, <2>4, <2>5
<1>15. PICK q \in 0 .. ID_COUNT : q = k - e + r /\ q = Len(read_words')
  <2>1. k - e + r \in 0 .. ID_COUNT
    <3>1. leaves => k > 0
      BY <1>4
    <3>2. reads => k < ID_COUNT
      BY <1>3
    <3> QED
      BY <1>0, <3>1, <3>2, AdapterAssumption
  <2> QED
    BY <1>7, <2>1
<1>16. out_cntr' = IdOf(Num(due', q))
  <2>1. out_cntr' = IdOf(Num(d, k + r))
    <3>1. CASE reads
      <4>1. k \in 0 .. ID_COUNT - 1
        BY <1>3, <3>1, AdapterAssumption
      <4>2. (IdOf(Num(d, k)) + 1) % ID_COUNT = IdOf(Num(d, k + 1))
        BY <4>1, Shift
      <4> QED
        BY <1>0, <1>1, <1>2, <1>11, <3>1, <4>2
    <3>2. CASE ~reads
      <4>1. k + 0 = k
        OBVIOUS
      <4> QED
        BY <1>0, <1>1, <1>2, <1>11, <3>2, <4>1
    <3> QED
      BY <3>1, <3>2
  <2>2. CASE q \in Window
    <3>1. q + e = k + r
      BY <1>15
    <3> QED
      BY <1>6, <2>1, <2>2, <3>1
  <2>3. CASE q = ID_COUNT
    \* everything of the window is on its way through the reader
    <3>1. e = 0 /\ q = k + r
      <4>1. ~(k = ID_COUNT /\ r = 1)
        BY <1>0, <1>3, AdapterAssumption
      <4> QED
        BY <1>15, <2>3, <4>1, AdapterAssumption
    <3>2. due' = d
      <4>1. Num(d, 0) = d
        BY Shift, AdapterAssumption
      <4> QED
        BY <1>6, <3>1, <4>1
    <3> QED
      BY <2>1, <3>1, <3>2
  <2>4. q \in Window \/ q = ID_COUNT
    BY AdapterAssumption DEF Window
  <2> QED
    BY <2>2, <2>3, <2>4
<1>17. \A i \in 1 .. q : read_words'[i] = Num(due', i - 1)
  <2>1. \A i \in 1 .. q : i - 1 \in Window /\ i \in 1 .. k - e + r
    BY <1>15, AdapterAssumption DEF Window
  <2> QED
    BY <1>6, <1>7, <2>1
<1>18. DOMAIN storage' = Window
  BY <1>1, <1>11 DEF Stored
<1>19. \A n \in Window : n + e \in Window \/ (e = 1 /\ n + e = ID_COUNT /\ n + 1 = ID_COUNT)
  BY AdapterAssumption DEF Window
<1>20. dataIn_reg' = <<>> \/ \E n \in Window : n >= q /\ dataIn_reg' = <<Num(due', n)>>
  <2>1. CASE offers
    <3>1. (p >= k /\ p # k) \/ (p >= k /\ ~reads)
      <4>1. reads => p # k
        BY <1>3, <1>12, <2>1
      <4> QED
        BY <1>12, <2>1, <4>1
    <3>2. p - e \in Window /\ p - e >= q
      <4>1. p \in 0 .. ID_COUNT - 1 /\ p >= k
        BY <1>12, <2>1 DEF Window
      <4>2. r = 1 => p # k
        BY <1>0, <3>1
      <4>3. e = 1 => k > 0
        BY <1>0, <1>4
      <4> QED
        BY <1>15, <4>1, <4>2, <4>3, AdapterAssumption DEF Window
    <3>3. Num(due', p - e) = Num(d, p)
      <4>1. (p - e) + e = p
        BY DEF Window
      <4> QED
        BY <1>6, <3>2, <4>1
    <3>4. dataIn_reg' = <<Num(d, p)>>
      BY <1>2, <1>11, <2>1
    <3> QED
      BY <3>2, <3>3, <3>4
  <2>2. CASE ~offers
    BY <1>11, <2>2
  <2> QED
    BY <2>1, <2>2
<1>21. ASSUME NEW n \in Window
       PROVE  /\ IdOf(Num(due', n)) \in item_occ' =>
                    n >= q /\ storage'[IdOf(Num(due', n))] = Num(due', n)
                    /\ dataIn_reg' # <<Num(due', n)>>
              /\ Num(due', n) \in sent' <=>
                    n < q \/ dataIn_reg' = <<Num(due', n)>> \/ IdOf(Num(due', n)) \in item_occ'
  <2>0. Num(due', n) = Num(d, n + e) /\ n \in 0 .. ID_COUNT - 1
    BY <1>6, <1>21 DEF Window
  <2>1. CASE n + e = ID_COUNT /\ e = 1
    <3>1. leaves
      BY <1>0, <2>1
    <3>2. ~(n < q)
      <4>1. n = ID_COUNT - 1 /\ q = k - 1 + r
        BY <1>15, <2>0, <2>1, AdapterAssumption
      <4>2. k - 1 + r <= ID_COUNT - 1
        BY <1>0, <1>3, AdapterAssumption
      <4> QED
        BY <4>1, <4>2, AdapterAssumption
    <3> QED
      BY <1>14, <2>0, <2>1, <3>1, <3>2
  <2>2. CASE n + e \in Window
    <3>1. PICK m \in Window : m = n + e
      BY <2>2
    <3>2. m >= k /\ ~(reads /\ m = k) => n >= q
      <4>1. m \in Nat
        BY DEF Window
      <4> QED
        BY <1>0, <1>15, <2>0, <3>1, <4>1
    <3>3. n < q <=> m < k \/ (reads /\ m = k)
      <4>1. m \in Nat
        BY DEF Window
      <4>2. reads <=> r = 1
        BY <1>0
      <4> QED
        BY <1>0, <1>15, <2>0, <3>1, <4>1, <4>2
    <3>4. leaves /\ m = 0 => FALSE
      BY <1>0, <2>0, <3>1
    <3>5. IdOf(Num(d, m)) \in item_occ' => storage'[IdOf(Num(d, m))] = Num(d, m) /\ dataIn_reg' # <<Num(d, m)>>
                                           /\ m >= k /\ ~(reads /\ m = k)
      <4>1. SUFFICES ASSUME IdOf(Num(d, m)) \in item_occ'
                     PROVE  storage'[IdOf(Num(d, m))] = Num(d, m) /\ dataIn_reg' # <<Num(d, m)>>
                            /\ m >= k /\ ~(reads /\ m = k)
        OBVIOUS
      <4>2. (IdOf(Num(d, m)) \in item_occ \/ dataIn_reg = <<Num(d, m)>>) /\ ~(reads /\ m = k)
        BY <1>13, <4>1
      <4>3. dataIn_reg' # <<Num(d, m)>>
        <5>1. offers /\ m = p => FALSE
          BY <1>12, <4>2
        <5> QED
          BY <1>13, <5>1
      <4>4. ASSUME dataIn_reg = <<Num(d, m)>>
            PROVE  storage'[IdOf(Num(d, m))] = Num(d, m) /\ m >= k
        <5>1. dataIn_reg # <<>> /\ dataIn_reg[1] = Num(d, m)
          BY <1>10, <4>4
        <5>2. storage' = [storage EXCEPT ![IdOf(Num(d, m))] = Num(d, m)]
          BY <1>11, <5>1 DEF Stored
        <5>3. IdOf(Num(d, m)) \in DOMAIN storage
          BY <1>1, <1>8
        <5>4. \A j \in Window : <<Num(d, j)>> = <<Num(d, m)>> => j = m
          BY <1>8
        <5> QED
          BY <1>9, <4>4, <5>1, <5>2, <5>3, <5>4
      <4>5. ASSUME IdOf(Num(d, m)) \in item_occ
            PROVE  storage'[IdOf(Num(d, m))] = Num(d, m) /\ m >= k
        <5>1. storage[IdOf(Num(d, m))] = Num(d, m) /\ m >= k /\ dataIn_reg # <<Num(d, m)>>
          BY <1>9, <4>5
        <5>2. CASE dataIn_reg = <<>>
          BY <1>11, <5>1, <5>2 DEF Stored
        <5>3. ASSUME NEW j \in Window, dataIn_reg = <<Num(d, j)>>
              PROVE  storage'[IdOf(Num(d, m))] = Num(d, m)
          <6>1. dataIn_reg # <<>> /\ dataIn_reg[1] = Num(d, j)
            BY <1>10, <5>3
          <6>2. storage' = [storage EXCEPT ![IdOf(Num(d, j))] = Num(d, j)]
            BY <1>11, <6>1 DEF Stored
          <6>3. j # m
            BY <5>1, <5>3
          <6>4. IdOf(Num(d, j)) # IdOf(Num(d, m))
            BY <1>8, <6>3
          <6>5. IdOf(Num(d, m)) \in DOMAIN storage
            BY <1>1, <1>8
          <6> QED
            BY <5>1, <6>2, <6>4, <6>5
        <5> QED
          BY <1>9, <5>1, <5>2, <5>3
      <4> QED
        BY <4>2, <4>3, <4>4, <4>5
    <3>6. Num(d, m) \in sent' <=>
             (m < k \/ (reads /\ m = k)) \/ dataIn_reg' = <<Num(d, m)>> \/ IdOf(Num(d, m)) \in item_occ'
      <4>1. Num(d, m) \in sent' <=> Num(d, m) \in sent \/ (offers /\ m = p)
        BY <1>13, <3>4
      <4>2. Num(d, m) \in sent <=>
               m < k \/ dataIn_reg = <<Num(d, m)>> \/ IdOf(Num(d, m)) \in item_occ
        BY <1>9
      <4>3. reads /\ m = k => IdOf(Num(d, m)) \in item_occ
        BY <1>3
      <4>4. dataIn_reg' = <<Num(d, m)>> <=> offers /\ m = p
        BY <1>13
      <4>5. IdOf(Num(d, m)) \in item_occ' <=>
                (IdOf(Num(d, m)) \in item_occ \/ dataIn_reg = <<Num(d, m)>>) /\ ~(reads /\ m = k)
        BY <1>13
      <4> QED
        BY <4>1, <4>2, <4>3, <4>4, <4>5
    <3>7. Num(due', n) = Num(d, m)
      BY <2>0, <3>1
    <3> QED
      BY <3>2, <3>3, <3>5, <3>6, <3>7
  <2> QED
    BY <1>19, <2>1, <2>2
<1>22. \A w \in sent' : \E n \in Window : w = Num(due', n)
  <2> SUFFICES ASSUME NEW w \in sent'
               PROVE  \E n \in Window : w = Num(due', n)
    OBVIOUS
  <2>1. PICK m \in Window : w = Num(d, m)
    BY <1>9, <1>11
  <2>2. ~(leaves /\ m = 0)
    BY <1>13, <2>1
  <2>3. m - e \in Window
    BY <1>0, <2>2, AdapterAssumption DEF Window
  <2>4. Num(due', m - e) = Num(d, m)
    <3>1. (m - e) + e = m
      BY DEF Window
    <3> QED
      BY <1>6, <2>3, <3>1
  <2> QED
    BY <2>1, <2>3, <2>4
<1> QED
  <2>1. Read' = q
    BY <1>15 DEF Read
  <2>2. q <= ID_COUNT /\ q \in Nat
    BY AdapterAssumption
  <2> QED
    BY <1>6, <1>7, <1>16, <1>17, <1>18, <1>20, <1>21, <1>22, <2>1, <2>2 DEF ReorderInv, Num

\* Without EARLY_ID the producer offers a word of the window.
LEMMA ReorderKeeps ==
  ASSUME ~EARLY_ID, ReorderInv, NEW addr_rd \in BOOLEAN, NEW leaves \in BOOLEAN,
         ReorderNext(addr_rd, leaves)
  PROVE  ReorderInv'
<1>1. \A n : Numbered(n) = Num(due, n)
  BY DEF Numbered, Num
<1>2. (IF EARLY_ID THEN 2 ELSE 1) * ID_COUNT - 1 = ID_COUNT - 1
  BY AdapterAssumption
<1>3. 0 \in Window
  BY AdapterAssumption DEF Window
<1>4. PICK in \in {<<>>} \cup {<<Num(due, n)>> : n \in Window} :
         (in # <<>> => in[1] \notin sent) /\ ReorderCycle(in, addr_rd, leaves)
  BY <1>1, <1>2 DEF ReorderNext, Window
<1>5. CASE in = <<>>
  <2>1. in = IF FALSE THEN <<Num(due, 0)>> ELSE <<>>
    BY <1>5
  <2> QED
    BY <1>3, <1>4, <2>1, ClockKeeps
<1>6. ASSUME NEW n \in Window, in = <<Num(due, n)>>
      PROVE  ReorderInv'
  <2>1. in = (IF TRUE THEN <<Num(due, n)>> ELSE <<>>) /\ in # <<>> /\ in[1] = Num(due, n)
    BY <1>6
  <2>2. Num(due, n) \notin sent
    BY <1>4, <2>1
  <2> QED
    BY <1>4, <2>1, <2>2, ClockKeeps
<1> QED
  BY <1>4, <1>5, <1>6

LEMMA ReorderStarts ==
  ASSUME ReorderInit
  PROVE  ReorderInv
<1>1. \A n \in Window : n \in 0 .. 2 * ID_COUNT /\ ~(n < 0) /\ <<>> # <<Num(0, n)>>
  BY AdapterAssumption DEF Window
<1>2. 0 \in 0 .. 2 * ID_COUNT - 1 /\ 0 \in 0 .. 2 * ID_COUNT
  BY AdapterAssumption
<1>3. Num(0, 0) = 0 /\ IdOf(0) = 0
  <2>1. Num(0, 0) = IF 0 + 0 >= 2 * ID_COUNT THEN 0 + 0 - 2 * ID_COUNT ELSE 0 + 0
    BY <1>2, NumIs
  <2>2. IdOf(0) = (IF 0 >= ID_COUNT THEN 0 - ID_COUNT ELSE 0)
    BY <1>2, IdIs
  <2> QED
    BY <2>1, <2>2, AdapterAssumption
<1>4. Read = 0 /\ read_words \in Seq(Nat) /\ 0 <= ID_COUNT
  BY AdapterAssumption DEF ReorderInit, Read
<1> QED
  BY <1>1, <1>2, <1>3, <1>4 DEF ReorderInit, ReorderInv, Window

LEMMA ReorderStutters ==
  ASSUME ReorderInv, UNCHANGED reorderVars
  PROVE  ReorderInv'
BY DEF ReorderInv, reorderVars, Read, Num, Window, IdOf

LEMMA ReorderShows ==
  ASSUME ReorderInv
  PROVE  WordsAreReordered
BY DEF ReorderInv, WordsAreReordered, Read, Num, Numbered

---------------------------------------------------------------------------
(* The groups of the crossbar *)

\* The masters of R and those they share a slave with.
Spread(access, R) == R \cup UNION {MastersFor(access, s) : s \in UNION {access[k] : k \in R}}

\* No master outside of R has a slave in common with one in R.
Closed(access, R) ==
    /\ R \subseteq Masters
    /\ \A k \in R, j \in Masters : access[k] \cap access[j] # {} => j \in R

\* g tells what was reached from m in up to n steps.
ReachTable(g, n, access, m) ==
    g = [i \in 0 .. n |-> IF i = 0 THEN {m}
            ELSE g[i - 1] \cup UNION {MastersFor(access, s) : s \in UNION {access[k] : k \in g[i - 1]}}]

LEMMA ReachTableExists ==
  ASSUME NEW access, NEW m
  PROVE  \A n \in Nat : \E g : ReachTable(g, n, access, m)
<1> DEFINE Bad == {n \in Nat : ~ \E g : ReachTable(g, n, access, m)}
<1> SUFFICES ASSUME Bad # {} PROVE FALSE
  OBVIOUS
<1>1. PICK n \in Bad : \A v \in Bad : n <= v
  BY LeastExists
<1>2. CASE n = 0
  <2> DEFINE g == [i \in 0 .. 0 |-> {m}]
  <2>1. ReachTable(g, 0, access, m)
    BY DEF ReachTable
  <2> QED BY <1>2, <2>1
<1>3. CASE n > 0
  <2>1. n - 1 \in Nat /\ n - 1 \notin Bad
    BY <1>1, <1>3
  <2>2. PICK g : ReachTable(g, n - 1, access, m)
    BY <2>1
  <2> DEFINE More(R) == R \cup UNION {MastersFor(access, s) : s \in UNION {access[k] : k \in R}}
             h == [i \in 0 .. n |-> IF i = n THEN More(g[n - 1]) ELSE g[i]]
  <2>3. \A i \in 0 .. n - 1 : h[i] = g[i]
    BY <1>3
  <2>4. \A i \in 0 .. n - 1 : g[i] = IF i = 0 THEN {m} ELSE More(g[i - 1])
    BY <2>2 DEF ReachTable
  <2>6. h = [i \in 0 .. n |-> IF i = 0 THEN {m} ELSE More(h[i - 1])]
    <3>1. ASSUME NEW i \in 0 .. n PROVE h[i] = IF i = 0 THEN {m} ELSE More(h[i - 1])
      <4> HIDE DEF More
      <4>1. CASE i = n
        <5>1. h[i] = More(g[n - 1]) /\ h[n - 1] = g[n - 1] /\ i # 0
          BY <1>3, <2>3, <4>1
        <5> QED BY <4>1, <5>1
      <4>2. CASE i \in 0 .. n - 1
        <5>1. h[i] = g[i] /\ (i # 0 => h[i - 1] = g[i - 1])
          BY <2>3, <4>2
        <5> QED BY <2>4, <4>2, <5>1
      <4>3. i = n \/ i \in 0 .. n - 1
        OBVIOUS
      <4> QED BY <4>1, <4>2, <4>3
    <3> HIDE DEF More
    <3>2. h = [i \in 0 .. n |-> h[i]]
      OBVIOUS
    <3> HIDE DEF h
    <3> QED BY <3>1, <3>2
  <2>7. ReachTable(h, n, access, m)
    BY <2>6 DEF ReachTable
  <2> QED BY <2>7
<1> QED BY <1>1, <1>2, <1>3

LEMMA SpreadStays ==
  ASSUME NEW access \in [Masters -> SUBSET Slaves], NEW R \in SUBSET Masters
  PROVE  /\ R \subseteq Spread(access, R) /\ Spread(access, R) \subseteq Masters
         /\ Closed(access, R) <=> Spread(access, R) = R
         /\ \A Q \in SUBSET Masters : Closed(access, Q) /\ R \subseteq Q => Spread(access, R) \subseteq Q
<1>1. Spread(access, R) = R \cup {j \in Masters : \E k \in R : access[k] \cap access[j] # {}}
  BY DEF Spread, MastersFor
<1>2. ASSUME NEW Q \in SUBSET Masters, Closed(access, Q), R \subseteq Q
      PROVE  Spread(access, R) \subseteq Q
  BY <1>1, <1>2 DEF Closed
<1> QED
  BY <1>1, <1>2 DEF Closed

\* What a master reaches in as many steps as there are masters is closed, and in every
\* closed set that the master is in.
LEMMA GroupIsClosed ==
  ASSUME NEW access \in [Masters -> SUBSET Slaves], NEW m \in Masters
  PROVE  LET ms == SeparableGroup(access, m).masters
         IN  /\ SeparableGroup(access, m) = [masters |-> ms, slaves |-> UNION {access[k] : k \in ms}]
             /\ m \in ms /\ Closed(access, ms)
             /\ \A Q \in SUBSET Masters : Closed(access, Q) /\ m \in Q => ms \subseteq Q
<1> DEFINE c == Cardinality(Masters)
<1>1. c \in Nat
  BY CrossbarAssumption, FS_CardinalityType
<1>2. PICK g : ReachTable(g, c, access, m)
  BY <1>1, ReachTableExists
<1>3. PICK w : w = CHOOSE h : ReachTable(h, c, access, m)
  OBVIOUS
<1>4. ReachTable(w, c, access, m)
  BY <1>2, <1>3
<1>5. SeparableGroup(access, m) = [masters |-> w[c], slaves |-> UNION {access[k] : k \in w[c]}]
  BY <1>3 DEF SeparableGroup, ReachTable
<1>6. \A i \in 0 .. c : w[i] = IF i = 0 THEN {m} ELSE Spread(access, w[i - 1])
  BY <1>4 DEF ReachTable, Spread
<1> HIDE DEF c
<1>7. \A i \in 0 .. c : w[i] \in SUBSET Masters /\ m \in w[i]
                        /\ (Closed(access, w[i]) \/ Cardinality(w[i]) >= i + 1)
                        /\ \A Q \in SUBSET Masters : Closed(access, Q) /\ m \in Q => w[i] \subseteq Q
  <2> DEFINE Good(i) == w[i] \in SUBSET Masters /\ m \in w[i]
                        /\ (Closed(access, w[i]) \/ Cardinality(w[i]) >= i + 1)
                        /\ \A Q \in SUBSET Masters : Closed(access, Q) /\ m \in Q => w[i] \subseteq Q
             Bad == {i \in 0 .. c : ~Good(i)}
  <2> SUFFICES ASSUME Bad # {} PROVE FALSE
    OBVIOUS
  <2>0. Bad \subseteq Nat
    BY <1>1
  <2>1. PICK k \in Bad : \A v \in Bad : k <= v
    <3> HIDE DEF Bad
    <3> QED BY <2>0, LeastExists
  <2>2. k \in 0 .. c /\ k \in Nat /\ ~Good(k)
    BY <2>0
  <2>3. CASE k = 0
    <3>1. w[0] = {m} /\ Cardinality({m}) = 1
      <4>1. 0 \in 0 .. c
        BY <1>1
      <4>2. w[0] = {m}
        BY <1>6, <4>1
      <4> QED
        BY <4>2, FS_Singleton
    <3>2. Good(0)
      BY <3>1
    <3> QED
      BY <2>2, <2>3, <3>2
  <2>4. CASE k > 0
    <3>1. k - 1 \in 0 .. c
      BY <1>1, <2>2, <2>4
    <3>2. Good(k - 1)
      <4>1. k - 1 \notin Bad
        BY <2>1, <2>2, <2>4, <3>1
      <4> HIDE DEF Good
      <4> QED
        BY <3>1, <4>1
    <3>3. PICK R \in SUBSET Masters, S \in SUBSET Masters : R = w[k - 1] /\ S = w[k] /\ S = Spread(access, R)
      <4>1. w[k] = Spread(access, w[k - 1])
        BY <1>6, <2>2, <2>4
      <4> QED
        BY <3>2, <4>1, SpreadStays
    <3>4. R \subseteq S /\ (Closed(access, R) <=> S = R)
      BY <3>3, SpreadStays
    <3>5. \A Q \in SUBSET Masters : Closed(access, Q) /\ m \in Q => S \subseteq Q
      BY <3>2, <3>3, SpreadStays
    <3>6. Closed(access, S) \/ Cardinality(S) >= k + 1
      <4>1. CASE Closed(access, R)
        BY <3>4, <4>1
      <4>2. CASE ~Closed(access, R)
        <5>1. IsFiniteSet(S)
          BY CrossbarAssumption, FS_Subset
        <5>2. /\ Cardinality(R) <= Cardinality(S)
              /\ Cardinality(S) = Cardinality(R) => S = R
              /\ IsFiniteSet(R)
          BY <3>4, <5>1, FS_Subset
        <5>3. Cardinality(R) \in Nat /\ Cardinality(S) \in Nat
          BY <5>1, <5>2, FS_CardinalityType
        <5>4. Cardinality(R) >= (k - 1) + 1
          BY <3>2, <3>3, <4>2
        <5> QED
          BY <2>2, <3>4, <4>2, <5>2, <5>3, <5>4
      <4> QED
        BY <4>1, <4>2
    <3>7. Good(k)
      BY <3>2, <3>3, <3>4, <3>5, <3>6
    <3> QED
      BY <2>2, <3>7
  <2> QED
    BY <2>2, <2>3, <2>4
<1>8. Closed(access, w[c])
  <2>1. IsFiniteSet(w[c]) /\ Cardinality(w[c]) <= c
    BY <1>1, <1>7, CrossbarAssumption, FS_Subset DEF c
  <2>2. Cardinality(w[c]) \in Nat
    BY <2>1, FS_CardinalityType
  <2> QED
    BY <1>1, <1>7, <2>1, <2>2
<1>9. SeparableGroup(access, m).masters = w[c]
  BY <1>5
<1> QED
  BY <1>1, <1>5, <1>7, <1>8, <1>9

\* Two groups are the same or have no slave in common.
LEMMA GroupsAreDisjoint ==
  ASSUME NEW access \in [Masters -> SUBSET Slaves],
         NEW g \in SeparableGroups(access), NEW h \in SeparableGroups(access),
         g.slaves \cap h.slaves # {}
  PROVE  g = h
<1>1. PICK m \in Masters, n \in Masters : g = SeparableGroup(access, m) /\ h = SeparableGroup(access, n)
  BY DEF SeparableGroups
<1>2. PICK M, L : M = g.masters /\ L = h.masters
  OBVIOUS
<1>3. /\ g = [masters |-> M, slaves |-> UNION {access[k] : k \in M}]
      /\ m \in M /\ Closed(access, M)
      /\ \A Q \in SUBSET Masters : Closed(access, Q) /\ m \in Q => M \subseteq Q
  BY <1>1, <1>2, GroupIsClosed
<1>4. /\ h = [masters |-> L, slaves |-> UNION {access[k] : k \in L}]
      /\ n \in L /\ Closed(access, L)
      /\ \A Q \in SUBSET Masters : Closed(access, Q) /\ n \in Q => L \subseteq Q
  BY <1>1, <1>2, GroupIsClosed
<1>5. M \in SUBSET Masters /\ L \in SUBSET Masters
  BY <1>3, <1>4 DEF Closed
<1>6. PICK j : j \in M /\ j \in L
  <2>1. g.slaves = UNION {access[k] : k \in M} /\ h.slaves = UNION {access[k] : k \in L}
    BY <1>3, <1>4
  <2>2. PICK k \in M, i \in L : access[k] \cap access[i] # {}
    BY <2>1
  <2> QED
    BY <1>3, <1>5, <2>2 DEF Closed
\* sharing a slave is symmetric
<1>7. \A Q \in SUBSET Masters : Closed(access, Q) => Closed(access, Masters \ Q)
  BY DEF Closed
<1>9. m \in L
  <2> SUFFICES ASSUME m \notin L PROVE FALSE
    OBVIOUS
  <2>1. PICK Q \in SUBSET Masters : Q = Masters \ L
    OBVIOUS
  <2>2. m \in Masters /\ m \in Q /\ Closed(access, Q)
    BY <1>3, <1>4, <1>5, <1>7, <2>1
  <2>3. M \subseteq Q
    BY <1>3, <2>2
  <2> QED
    BY <1>6, <2>1, <2>3
<1>10. n \in M
  <2> SUFFICES ASSUME n \notin M PROVE FALSE
    OBVIOUS
  <2>1. PICK Q \in SUBSET Masters : Q = Masters \ M
    OBVIOUS
  <2>2. n \in Masters /\ n \in Q /\ Closed(access, Q)
    BY <1>3, <1>4, <1>5, <1>7, <2>1
  <2>3. L \subseteq Q
    BY <1>4, <2>2
  <2> QED
    BY <1>6, <2>1, <2>3
<1>11. M = L
  BY <1>3, <1>4, <1>5, <1>9, <1>10
<1> QED
  BY <1>3, <1>4, <1>11

---------------------------------------------------------------------------
(* The ports of a group *)

Rank(S, s) == Cardinality({k \in S : k < s})

LEMMA RanksDiffer ==
  ASSUME NEW S \in SUBSET Nat, IsFiniteSet(S), NEW s \in S, NEW t \in S, s < t
  PROVE  Rank(S, s) # Rank(S, t)
<1> DEFINE A == {k \in S : k < s}
           B == {k \in S : k < t}
<1>1. A \subseteq B /\ s \in B /\ s \notin A
  <2>1. s \in Nat /\ t \in Nat /\ \A k \in S : k \in Nat
    OBVIOUS
  <2>2. \A k \in S : k < s => k < t
    BY <2>1
  <2>3. ~(s < s)
    BY <2>1
  <2> QED
    BY <2>2, <2>3
<1>2. IsFiniteSet(B)
  BY FS_Subset
<1>3. Cardinality(B) = Cardinality(A) => A = B
  <2> HIDE DEF A, B
  <2> QED BY <1>1, <1>2, FS_Subset
<1>4. A # B
  BY <1>1
<1> QED
  BY <1>3, <1>4 DEF Rank

\* The port of a slave is its place in the order of the slaves of the group, with and
\* without gaps.
LEMMA PortIsRank ==
  ASSUME NEW group, group.slaves \in SUBSET Nat, IsFiniteSet(group.slaves), NEW s \in group.slaves
  PROVE  SubIndex(group, s) = Rank(group.slaves, s)
<1> DEFINE S == group.slaves
           n == Cardinality(S)
<1>1. CASE \A k \in S : k < n
  <2>1. n \in Nat /\ s \in Nat
    <3>1. IsFiniteSet(S) /\ S \subseteq Nat
      OBVIOUS
    <3> QED
      BY <3>1, FS_CardinalityType
  <2>2. IsFiniteSet(0 .. n - 1) /\ Cardinality(0 .. n - 1) = n
    <3>1. PICK c \in Nat : c = n
      BY <2>1
    <3>2. IsFiniteSet(0 .. c - 1) /\ Cardinality(0 .. c - 1) = (IF 0 > c - 1 THEN 0 ELSE (c - 1) - 0 + 1)
      BY FS_Interval
    <3> QED
      BY <3>1, <3>2
  <2>3. S \subseteq 0 .. n - 1
    <3> HIDE DEF n
    <3> QED BY <1>1, <2>1
  <2>4. S = 0 .. n - 1
    BY <2>2, <2>3, FS_Subset
  <2>5. {k \in S : k < s} = 0 .. s - 1
    <3> HIDE DEF S, n
    <3>1. s \in 0 .. n - 1
      BY <2>4 DEF S
    <3> QED BY <2>1, <2>4, <3>1
  <2>6. Cardinality(0 .. s - 1) = s
    BY <2>1, FS_Interval
  <2> QED
    BY <1>1, <2>5, <2>6 DEF SubIndex, Rank
<1>2. CASE ~(\A k \in S : k < n)
  BY <1>2 DEF SubIndex, Rank
<1> QED
  BY <1>1, <1>2

LEMMA RoutesLead ==
  ASSUME NEW access \in Accesses, NEW m \in Masters, NEW s \in access[m]
  PROVE  Routes[access][m][s] = s
<1>1. access \in [Masters -> SUBSET Slaves]
  BY CrossbarAssumption
<1> DEFINE group == SeparableGroup(access, m)
<1>2. group.slaves = UNION {access[k] : k \in group.masters} /\ m \in group.masters /\ group.masters \subseteq Masters
  <2>1. PICK ms : /\ ms = group.masters /\ group = [masters |-> ms, slaves |-> UNION {access[k] : k \in ms}]
                  /\ m \in ms /\ Closed(access, ms)
    BY <1>1, GroupIsClosed
  <2> HIDE DEF group
  <2> QED
    BY <2>1 DEF Closed
<1> HIDE DEF group
<1>3. group.slaves \in SUBSET Nat /\ IsFiniteSet(group.slaves) /\ s \in group.slaves
  <2>1. group.slaves \in SUBSET Slaves /\ s \in group.slaves
    BY <1>1, <1>2
  <2> QED
    BY <2>1, CrossbarAssumption, FS_Subset
<1>4. Routes[access][m][s] = CHOOSE t \in group.slaves : SubIndex(group, t) = Rank(group.slaves, s)
  BY DEF Routes, Rank, group
<1>5. SubIndex(group, s) = Rank(group.slaves, s)
  BY <1>3, PortIsRank
<1>6. ASSUME NEW t \in group.slaves, SubIndex(group, t) = Rank(group.slaves, s)
      PROVE  t = s
  <2>1. Rank(group.slaves, t) = Rank(group.slaves, s)
    BY <1>3, <1>6, PortIsRank
  <2>2. ~(s < t) /\ ~(t < s)
    BY <1>3, <2>1, RanksDiffer
  <2>3. s \in Nat /\ t \in Nat
    BY <1>3
  <2> QED
    BY <2>2, <2>3
<1> QED
  BY <1>3, <1>4, <1>5, <1>6

LEMMA RoutesShow ==
  ASSUME MASTERS \in Accesses
  PROVE  RoutedToItsSlave
<1>1. \A m \in Masters : \A s \in MASTERS[m] : RouteOf(m, s) = s
  BY RoutesLead DEF RouteOf
<1>2. \A g, h \in SeparableGroups(MASTERS) : g # h => g.slaves \cap h.slaves = {}
  <2>1. MASTERS \in [Masters -> SUBSET Slaves]
    BY CrossbarAssumption
  <2> QED
    BY <2>1, GroupsAreDisjoint
<1> QED
  BY <1>1, <1>2 DEF RoutedToItsSlave

---------------------------------------------------------------------------
(* Sums over a queue *)

\* The weights w of what is in the queue q, added to base, make total: f adds them up.
Adds(f, q, w, base) ==
    /\ f \in [0 .. Len(q) -> Int] /\ f[0] = base
    /\ \A i \in 1 .. Len(q) : f[i] = f[i - 1] + w[q[i]]
Weighs(q, w, base, total) == \E f : Adds(f, q, w, base) /\ f[Len(q)] = total

LEMMA WeightOfNone ==
  ASSUME NEW w, NEW base \in Int
  PROVE  Weighs(<<>>, w, base, base)
<1> DEFINE f == [i \in 0 .. 0 |-> base]
<1>1. Adds(f, <<>>, w, base) /\ f[Len(<<>>)] = base
  BY DEF Adds
<1> QED
  BY <1>1 DEF Weighs

LEMMA WeightShifts ==
  ASSUME NEW S, NEW q \in Seq(S), NEW w \in [S -> Int], NEW base \in Int, NEW total \in Int,
         NEW c \in Int, Weighs(q, w, base, total)
  PROVE  Weighs(q, w, base + c, total + c)
<1>1. PICK f : Adds(f, q, w, base) /\ f[Len(q)] = total
  BY DEF Weighs
<1> DEFINE g == [i \in 0 .. Len(q) |-> f[i] + c]
<1>2. Len(q) \in Nat /\ \A i \in 1 .. Len(q) : w[q[i]] \in Int
  <2>1. Len(q) \in Nat /\ \A i \in 1 .. Len(q) : q[i] \in S
    OBVIOUS
  <2> QED
    BY <2>1
<1>3. \A i \in 0 .. Len(q) : f[i] \in Int
  BY <1>1 DEF Adds
<1>4. \A i \in 1 .. Len(q) : i - 1 \in 0 .. Len(q) /\ i \in 0 .. Len(q)
  BY <1>2
<1>5. g \in [0 .. Len(q) -> Int] /\ g[0] = base + c /\ g[Len(q)] = total + c
  BY <1>1, <1>2, <1>3 DEF Adds
<1>6. ASSUME NEW i \in 1 .. Len(q)
      PROVE  g[i] = g[i - 1] + w[q[i]]
  <2>1. f[i] = f[i - 1] + w[q[i]] /\ f[i - 1] \in Int /\ w[q[i]] \in Int
    BY <1>1, <1>2, <1>3, <1>4 DEF Adds
  <2>2. g[i] = f[i] + c /\ g[i - 1] = f[i - 1] + c
    BY <1>4
  <2> QED
    BY <2>1, <2>2
<1> HIDE DEF g
<1> QED
  BY <1>5, <1>6 DEF Weighs, Adds

LEMMA WeightOfTail ==
  ASSUME NEW S, NEW q \in Seq(S), q # <<>>, NEW w \in [S -> Int], NEW base \in Int, NEW total,
         Weighs(q, w, base, total)
  PROVE  Weighs(Tail(q), w, base + w[Head(q)], total)
<1>1. PICK f : Adds(f, q, w, base) /\ f[Len(q)] = total
  BY DEF Weighs
<1>2. PICK n \in Nat : n = Len(q) - 1
  <2>1. Len(q) \in Nat /\ Len(q) # 0
    OBVIOUS
  <2>2. Len(q) - 1 \in Nat
    BY <2>1
  <2> QED
    BY <2>2
<1>3. Len(Tail(q)) = n /\ (\A i \in 1 .. n : Tail(q)[i] = q[i + 1]) /\ Head(q) = q[1] /\ Len(q) = n + 1
  BY <1>2
<1> DEFINE g == [i \in 0 .. n |-> f[i + 1]]
<1>4. \A i \in 0 .. n : i + 1 \in 0 .. Len(q)
  BY <1>3
<1>5. \A i \in 0 .. Len(q) : f[i] \in Int
  BY <1>1 DEF Adds
<1>6. g \in [0 .. n -> Int] /\ g[n] = total
  BY <1>1, <1>3, <1>4, <1>5
<1>7. g[0] = base + w[Head(q)]
  <2>1. g[0] = f[1] /\ 1 \in 1 .. Len(q) /\ f[0] = base
    BY <1>1, <1>3 DEF Adds
  <2>2. f[1] = f[1 - 1] + w[q[1]]
    BY <1>1, <2>1 DEF Adds
  <2> QED
    BY <1>3, <2>1, <2>2
<1>8. ASSUME NEW i \in 1 .. n
      PROVE  g[i] = g[i - 1] + w[Tail(q)[i]]
  <2>1. i + 1 \in 1 .. Len(q) /\ i - 1 \in 0 .. n /\ i \in 0 .. n /\ (i + 1) - 1 = i /\ (i - 1) + 1 = i
    BY <1>3
  <2>2. f[i + 1] = f[i] + w[q[i + 1]]
    BY <1>1, <2>1 DEF Adds
  <2>3. g[i] = f[i + 1] /\ g[i - 1] = f[i]
    BY <2>1
  <2> QED
    BY <1>3, <2>2, <2>3
<1> HIDE DEF g
<1>9. Adds(g, Tail(q), w, base + w[Head(q)]) /\ g[Len(Tail(q))] = total
  BY <1>3, <1>6, <1>7, <1>8 DEF Adds
<1> QED
  BY <1>9 DEF Weighs

LEMMA WeightOfAppend ==
  ASSUME NEW S, NEW q \in Seq(S), NEW r \in S, NEW w \in [S -> Int], NEW base, NEW total \in Int,
         Weighs(q, w, base, total)
  PROVE  Weighs(Append(q, r), w, base, total + w[r])
<1>1. PICK f : Adds(f, q, w, base) /\ f[Len(q)] = total
  BY DEF Weighs
<1>2. PICK n \in Nat : n = Len(q)
  OBVIOUS
<1>3. PICK s \in Seq(S) : s = Append(q, r)
  <2>1. Append(q, r) \in Seq(S)
    BY AppendProperties
  <2> QED
    BY <2>1
<1>4. Len(s) = n + 1 /\ (\A i \in 1 .. n : s[i] = q[i]) /\ s[n + 1] = r /\ w[r] \in Int
  BY <1>2, <1>3
<1> DEFINE g == [i \in 0 .. n + 1 |-> IF i = n + 1 THEN total + w[r] ELSE f[i]]
<1>5. \A i \in 0 .. n + 1 : i = n + 1 \/ (i \in 0 .. n /\ i # n + 1)
  OBVIOUS
<1>6. g \in [0 .. n + 1 -> Int]
  BY <1>1, <1>2, <1>4, <1>5 DEF Adds
<1>7. g[0] = base
  BY <1>1 DEF Adds
<1>8. ASSUME NEW i \in 1 .. n + 1
      PROVE  g[i] = g[i - 1] + w[s[i]]
  <2>1. i - 1 \in 0 .. n /\ i - 1 # n + 1
    OBVIOUS
  <2>2. g[i - 1] = f[i - 1]
    BY <2>1
  <2>3. CASE i = n + 1
    <3>1. g[i] = total + w[r] /\ i - 1 = n
      BY <2>3
    <3> QED
      BY <1>1, <1>2, <1>4, <2>2, <2>3, <3>1
  <2>4. CASE i \in 1 .. n
    <3>1. g[i] = f[i]
      BY <2>4
    <3> QED
      BY <1>1, <1>2, <1>4, <2>2, <2>4, <3>1 DEF Adds
  <2> QED
    BY <1>5, <2>3, <2>4
<1>9. g[n + 1] = total + w[r]
  OBVIOUS
<1> HIDE DEF g
<1>10. Adds(g, s, w, base) /\ g[Len(s)] = total + w[r]
  BY <1>4, <1>6, <1>7, <1>8, <1>9 DEF Adds
<1> QED
  BY <1>3, <1>10 DEF Weighs

\* Weights that are not negative do not make the sum smaller.
LEMMA WeightGrows ==
  ASSUME NEW S, NEW q \in Seq(S), NEW w \in [S -> Nat], NEW base \in Int, NEW total,
         Weighs(q, w, base, total)
  PROVE  total \in Int /\ base <= total
<1>1. PICK f : Adds(f, q, w, base) /\ f[Len(q)] = total
  BY DEF Weighs
<1>2. PICK n \in Nat : n = Len(q)
  OBVIOUS
<1>3. \A i \in 0 .. n : f[i] \in Int
  BY <1>1, <1>2 DEF Adds
<1> DEFINE Bad == {i \in 0 .. n : ~(base <= f[i])}
<1>4. ASSUME Bad # {} PROVE FALSE
  <2>0. Bad \subseteq Nat
    OBVIOUS
  <2>1. PICK k \in Bad : \A v \in Bad : k <= v
    BY <1>4, <2>0, LeastExists
  <2>2. k \in 0 .. n /\ ~(base <= f[k])
    OBVIOUS
  <2>3. k # 0
    BY <1>1, <2>2 DEF Adds
  <2>4. k - 1 \in 0 .. n /\ k \in 1 .. Len(q) /\ k - 1 \notin Bad
    BY <1>2, <2>1, <2>2, <2>3
  <2>5. base <= f[k - 1] /\ f[k - 1] \in Int
    BY <1>3, <2>4
  <2>6. f[k] = f[k - 1] + w[q[k]] /\ w[q[k]] \in Nat
    <3>1. q[k] \in S
      BY <2>4
    <3> QED
      BY <1>1, <2>4, <3>1 DEF Adds
  <2> QED
    BY <2>2, <2>5, <2>6
<1> QED
  <2>1. n \in 0 .. n
    OBVIOUS
  <2> HIDE DEF Bad
  <2>2. n \notin Bad
    BY <1>4
  <2> QED
    BY <1>1, <1>2, <1>3, <2>1, <2>2 DEF Bad

---------------------------------------------------------------------------
(* The crossbar: every order fifo names the requests that are under way *)

Wires == {"r", "w", "b"}

\* The channel of the answers, and the requests of a slave that are not answered.
Answering == IF writes THEN "b" ELSE "r"
Pending(s) == to_answer[s] \o (taken[s] \o aw_reg[s])

AsSeen(m) == [k \in Masters |-> IF k = m THEN 1 ELSE 0]

CrossTypes ==
    /\ MASTERS \in Accesses /\ writes \in BOOLEAN
    /\ addr_reg \in [Masters -> Seq(Slaves)] /\ asked \in [Masters -> Seq(Slaves)]
    /\ to_answer \in [Slaves -> Seq(Masters)]
    /\ taken \in [Slaves -> Seq(Masters)] /\ aw_reg \in [Slaves -> Seq(Masters)]
    /\ order_m_index_for_s \in [Wires -> [Slaves -> Seq(Masters)]]
    /\ order_s_index_for_m \in [Wires -> [Masters -> Seq(Slaves)]]
    /\ mid \in [Wires -> SUBSET (Slaves \X Masters)]

RequestsAreAllowed ==
    /\ \A m \in Masters :
        /\ \A i \in 1 .. Len(asked[m]) : asked[m][i] \in MASTERS[m]
        /\ addr_reg[m] = <<>> \/ \E s \in MASTERS[m] : addr_reg[m] = <<s>>
    /\ \A s \in Slaves :
        /\ \A i \in 1 .. Len(to_answer[s]) : s \in MASTERS[to_answer[s][i]]
        /\ taken[s] = <<>> \/ (writes /\ \E m \in Masters : taken[s] = <<m>> /\ s \in MASTERS[m])
        /\ aw_reg[s] = <<>> \/ (writes /\ \E m \in Masters : aw_reg[s] = <<m>> /\ s \in MASTERS[m])

SlavesInOrder == \A s \in Slaves : OrdersMasters(s) =>
    /\ order_m_index_for_s[Answering][s] = Pending(s)
    /\ writes => order_m_index_for_s["w"][s] = taken[s] \o aw_reg[s]

MastersInOrder == \A m \in Masters : OrdersSlaves(m) =>
    asked[m] = order_s_index_for_m[Answering][m] \o addr_reg[m]

AllCounted == \A m \in Masters : ~OrdersSlaves(m) => \A s \in MASTERS[m] :
    Weighs(Pending(s), AsSeen(m), 0, Len(asked[m]) - Len(addr_reg[m]))

PacketsPass == \A c \in Channels : \A p \in mid[c] : FromSlave(c, p[1], p[2])

CrossInv == CrossTypes /\ RequestsAreAllowed /\ SlavesInOrder /\ MastersInOrder
            /\ AllCounted /\ PacketsPass

LEMMA TwoIsMore ==
  ASSUME NEW S, IsFiniteSet(S), NEW x \in S, NEW y \in S, ~(Cardinality(S) > 1)
  PROVE  x = y
<1> SUFFICES ASSUME x # y PROVE FALSE
  OBVIOUS
<1>1. {x, y} \subseteq S /\ Cardinality({x, y}) <= Cardinality(S)
  BY FS_Subset
<1>2. Cardinality({x, y}) = 2
  <2>1. IsFiniteSet({x}) /\ Cardinality({x}) = 1
    BY FS_Singleton
  <2>2. Cardinality({x} \cup {y}) = 2
    BY <2>1, FS_AddElement
  <2>3. {x} \cup {y} = {x, y}
    OBVIOUS
  <2> QED
    BY <2>2, <2>3
<1>3. Cardinality(S) \in Nat
  BY FS_CardinalityType
<1> QED
  BY <1>1, <1>2, <1>3

\* Where there is no fifo there is no choice.
LEMMA NoChoice ==
  ASSUME CrossTypes
  PROVE  /\ MASTERS \in [Masters -> SUBSET Slaves]
         /\ \A s \in Slaves, k, m \in Masters :
                ~OrdersMasters(s) /\ s \in MASTERS[k] /\ s \in MASTERS[m] => k = m
         /\ \A m \in Masters : \A s, t \in MASTERS[m] : ~OrdersSlaves(m) => s = t
<1>1. MASTERS \in [Masters -> SUBSET Slaves]
  BY CrossbarAssumption DEF CrossTypes
<1>2. ASSUME NEW s \in Slaves, NEW k \in Masters, NEW m \in Masters,
             ~OrdersMasters(s), s \in MASTERS[k], s \in MASTERS[m]
      PROVE  k = m
  <2>1. PICK S : S = MastersFor(MASTERS, s)
    OBVIOUS
  <2>2. k \in S /\ m \in S /\ S \subseteq Masters
    BY <1>2, <2>1 DEF MastersFor
  <2>3. IsFiniteSet(S) /\ ~(Cardinality(S) > 1)
    BY <1>2, <2>1, <2>2, CrossbarAssumption, FS_Subset DEF OrdersMasters
  <2> QED
    BY <2>2, <2>3, TwoIsMore
<1>3. ASSUME NEW m \in Masters, NEW s \in MASTERS[m], NEW t \in MASTERS[m], ~OrdersSlaves(m)
      PROVE  s = t
  <2>1. IsFiniteSet(MASTERS[m]) /\ ~(Cardinality(MASTERS[m]) > 1)
    BY <1>1, <1>3, CrossbarAssumption, FS_Subset DEF OrdersSlaves
  <2> QED
    BY <2>1, TwoIsMore
<1> QED
  BY <1>1, <1>2, <1>3

LEMMA QueueJoins ==
  ASSUME NEW S, NEW p \in Seq(S), NEW q \in Seq(S)
  PROVE  p \o q \in Seq(S) /\ p \o <<>> = p /\ <<>> \o p = p
BY ConcatProperties, ConcatEmptySeq

LEMMA QueueHeads ==
  ASSUME NEW S, NEW p \in Seq(S), NEW q \in Seq(S), p # <<>>
  PROVE  /\ Head(p) \in S /\ Tail(p) \in Seq(S) /\ p \o q # <<>>
         /\ Head(p \o q) = Head(p) /\ Tail(p \o q) = Tail(p) \o q
<1>1. Head(p) \in S /\ Tail(p) \in Seq(S) /\ p = <<Head(p)>> \o Tail(p)
  BY HeadTailProperties
<1>2. Len(p) \in Nat \ {0} /\ Len(q) \in Nat /\ Len(Tail(p)) = Len(p) - 1
  BY HeadTailProperties
<1>3. Len(p \o q) = Len(p) + Len(q) /\ \A i \in 1 .. Len(p) + Len(q) :
         (p \o q)[i] = IF i <= Len(p) THEN p[i] ELSE q[i - Len(p)]
  BY ConcatProperties
<1>4. p \o q # <<>> /\ Head(p \o q) = Head(p)
  BY <1>2, <1>3
<1>5. Tail(p \o q) = Tail(p) \o q
  <2>1. PICK r \in Seq(S) : r = p \o q
    BY QueueJoins
  <2>2. Tail(r) \in Seq(S) /\ Len(Tail(r)) = Len(p) + Len(q) - 1 /\ \A i \in 1 .. Len(r) - 1 : Tail(r)[i] = r[i + 1]
    BY <1>2, <1>3, <1>4, <2>1, HeadTailProperties
  <2>3. PICK t \in Seq(S) : t = Tail(p) \o q
    BY <1>1, ConcatProperties
  <2>4. /\ Len(t) = Len(p) - 1 + Len(q)
        /\ \A i \in 1 .. Len(p) - 1 + Len(q) :
              t[i] = IF i <= Len(p) - 1 THEN Tail(p)[i] ELSE q[i - (Len(p) - 1)]
    BY <1>1, <1>2, <2>3, ConcatProperties
  <2>5. \A i \in 1 .. Len(p) - 1 : Tail(p)[i] = p[i + 1]
    BY HeadTailProperties
  <2>6. \A i \in 1 .. Len(t) : t[i] = Tail(r)[i]
    <3> SUFFICES ASSUME NEW i \in 1 .. Len(t) PROVE t[i] = Tail(r)[i]
      OBVIOUS
    <3>0. i \in Nat /\ i >= 1 /\ i <= Len(p) + Len(q) - 1 /\ i + 1 \in 1 .. Len(p) + Len(q)
          /\ i \in 1 .. Len(r) - 1
      BY <1>2, <1>3, <2>1, <2>4
    <3>1. Tail(r)[i] = IF i + 1 <= Len(p) THEN p[i + 1] ELSE q[i + 1 - Len(p)]
      BY <1>3, <2>1, <2>2, <3>0
    <3>2. CASE i + 1 <= Len(p)
      <4>1. i \in 1 .. Len(p) - 1 /\ i <= Len(p) - 1
        BY <1>2, <3>0, <3>2
      <4> QED
        BY <1>2, <2>4, <2>5, <3>0, <3>1, <3>2, <4>1
    <3>3. CASE ~(i + 1 <= Len(p))
      <4>1. ~(i <= Len(p) - 1) /\ i - (Len(p) - 1) = i + 1 - Len(p)
        BY <1>2, <3>0, <3>3
      <4> QED
        BY <1>2, <2>4, <3>0, <3>1, <3>3, <4>1
    <3> QED
      BY <3>2, <3>3
  <2>7. Len(t) = Len(Tail(r))
    BY <1>2, <2>2, <2>4
  <2> QED
    BY <2>1, <2>2, <2>3, <2>6, <2>7, SeqEqual
<1> QED
  BY <1>1, <1>4, <1>5

LEMMA QueueAdds ==
  ASSUME NEW S, NEW p \in Seq(S), NEW q \in Seq(S), NEW x \in S
  PROVE  /\ Append(p, x) \in Seq(S) /\ p \o <<x>> = Append(p, x)
         /\ Head(<<x>>) = x /\ Tail(<<x>>) = <<>> /\ <<x>> # <<>>
         /\ Append(p, x) \o q = p \o (<<x>> \o q)
         /\ Len(Append(p, x)) = Len(p) + 1 /\ Len(<<x>>) = 1
         /\ p # <<>> => Head(Append(p, x)) = Head(p)
<1>1. Append(p, x) \in Seq(S) /\ p \o <<x>> = Append(p, x) /\ Len(Append(p, x)) = Len(p) + 1
  BY AppendIsConcat, AppendProperties
<1>2. Head(<<x>>) = x /\ Tail(<<x>>) = <<>> /\ <<x>> # <<>> /\ <<x>> \in Seq(S) /\ Len(<<x>>) = 1
  OBVIOUS
<1>3. (p \o <<x>>) \o q = p \o (<<x>> \o q)
  BY <1>2, ConcatAssociative
<1>4. p # <<>> => Head(Append(p, x)) = Head(p)
  BY <1>1, <1>2, QueueHeads
<1> QED
  BY <1>1, <1>2, <1>3, <1>4

LEMMA QueueMoves ==
  ASSUME NEW S, NEW p \in Seq(S), NEW q \in Seq(S), NEW x \in S
  PROVE  Append(p, x) \o q = p \o (<<x>> \o q)
<1>1. <<x>> \in Seq(S) /\ Append(p, x) = p \o <<x>>
  BY AppendIsConcat
<1>2. (p \o <<x>>) \o q = p \o (<<x>> \o q)
  BY <1>1, ConcatAssociative
<1> QED
  BY <1>1, <1>2

\* What a data crossbar passes from the slaves to the masters is an answer to the oldest
\* request of both.
LEMMA AnswersMatch ==
  ASSUME CrossInv, NEW s \in Slaves, NEW m \in Masters, to_answer[s] # <<>>, FromSlave(Answering, s, m)
  PROVE  Head(to_answer[s]) = m /\ asked[m] # <<>> /\ Head(asked[m]) = s
<1>1. s \in MASTERS[m] /\ CrossTypes /\ RequestsAreAllowed
  BY DEF FromSlave, CrossInv
<1>2. PICK A \in Seq(Masters), P \in Seq(Masters) : A = to_answer[s] /\ P = taken[s] \o aw_reg[s]
  <2>1. to_answer[s] \in Seq(Masters) /\ taken[s] \in Seq(Masters) /\ aw_reg[s] \in Seq(Masters)
    BY <1>1 DEF CrossTypes
  <2>2. taken[s] \o aw_reg[s] \in Seq(Masters)
    BY <2>1, QueueJoins
  <2> QED
    BY <2>1, <2>2
<1>3. Pending(s) = A \o P /\ A # <<>> /\ Pending(s) # <<>> /\ Head(Pending(s)) = Head(A) /\ Pending(s) \in Seq(Masters)
  <2>1. A \o P \in Seq(Masters)
    BY QueueJoins
  <2>2. A # <<>>
    BY <1>2
  <2>3. A \o P # <<>> /\ Head(A \o P) = Head(A)
    BY <2>2, QueueHeads
  <2> QED
    BY <1>2, <2>1, <2>2, <2>3 DEF Pending
<1>4. Head(A) = m
  <2>1. CASE OrdersMasters(s)
    BY <1>1, <1>3, <2>1 DEF FromSlave, CrossInv, SlavesInOrder
  <2>2. CASE ~OrdersMasters(s)
    <3>1. Head(A) = A[1] /\ 1 \in 1 .. Len(A) /\ Head(A) \in Masters
      BY <1>2, <1>3
    <3>2. s \in MASTERS[Head(A)]
      BY <1>1, <1>2, <3>1 DEF RequestsAreAllowed
    <3> QED
      BY <1>1, <2>2, <3>1, <3>2, NoChoice
  <2> QED
    BY <2>1, <2>2
<1>5. PICK Q \in Seq(Slaves) : Q = asked[m]
  BY <1>1 DEF CrossTypes
<1>6. Q # <<>> /\ Head(Q) = s
  <2>1. CASE OrdersSlaves(m)
    <3>1. PICK F \in Seq(Slaves), R \in Seq(Slaves) : F = order_s_index_for_m[Answering][m] /\ R = addr_reg[m]
      BY <1>1 DEF CrossTypes, Answering, Wires
    <3>2. Q = F \o R /\ F # <<>> /\ Head(F) = s
      BY <1>1, <1>5, <2>1, <3>1 DEF FromSlave, CrossInv, MastersInOrder
    <3>3. F \o R # <<>> /\ Head(F \o R) = Head(F)
      BY <3>2, QueueHeads
    <3> QED
      BY <3>2, <3>3
  <2>2. CASE ~OrdersSlaves(m)
    <3>1. Weighs(Pending(s), AsSeen(m), 0, Len(Q) - Len(addr_reg[m]))
      BY <1>1, <1>5, <2>2 DEF CrossInv, AllCounted
    <3>2. AsSeen(m) \in [Masters -> Int] /\ AsSeen(m)[m] = 1 /\ AsSeen(m) \in [Masters -> Nat]
      BY DEF AsSeen
    <3>3. Weighs(Tail(Pending(s)), AsSeen(m), 1, Len(Q) - Len(addr_reg[m]))
      <4>1. Weighs(Tail(Pending(s)), AsSeen(m), 0 + AsSeen(m)[Head(Pending(s))], Len(Q) - Len(addr_reg[m]))
        <5>1. PICK U, w, n : U \in Seq(Masters) /\ w \in [Masters -> Int]
                          /\ U = Pending(s) /\ U # <<>> /\ w = AsSeen(m)
                          /\ n = Len(Q) - Len(addr_reg[m]) /\ Weighs(U, w, 0, n)
          BY <1>3, <3>1, <3>2
        <5>2. PICK b \in Int : b = 0 /\ Weighs(U, w, b, n)
          BY <5>1
        <5>3. Weighs(Tail(U), w, b + w[Head(U)], n)
          BY <5>1, <5>2, WeightOfTail
        <5> QED
          BY <5>1, <5>2, <5>3
      <4> QED
        BY <1>3, <1>4, <3>2, <4>1
    <3>4. Tail(Pending(s)) \in Seq(Masters)
      BY <1>3
    <3>5. 1 <= Len(Q) - Len(addr_reg[m])
      BY <3>2, <3>3, <3>4, WeightGrows
    <3>6. Len(Q) \in Nat /\ Len(addr_reg[m]) \in Nat
      BY <1>1 DEF CrossTypes
    <3>7. Q # <<>> /\ 1 \in 1 .. Len(Q) /\ Head(Q) = Q[1]
      BY <3>5, <3>6
    <3>8. Q[1] \in MASTERS[m]
      BY <1>1, <1>5, <3>7 DEF RequestsAreAllowed
    <3> QED
      BY <1>1, <2>2, <3>7, <3>8, NoChoice
  <2> QED
    BY <2>1, <2>2
<1> QED
  BY <1>2, <1>4, <1>5, <1>6

SameHead(p, q) == Head(p \o q) = Head(p)

LEMMA MastersHead ==
  ASSUME NEW p \in Seq(Masters), NEW q \in Seq(Masters), p # <<>>
  PROVE  SameHead(p, q)
BY QueueHeads DEF SameHead

LEMMA DataMatch ==
  ASSUME CrossInv, NEW s \in Slaves, NEW m \in Masters,
         writes, taken[s] \o aw_reg[s] # <<>>, FromSlave("w", s, m)
  PROVE  Head(taken[s] \o aw_reg[s]) = m
<1>1. s \in MASTERS[m] /\ CrossTypes /\ RequestsAreAllowed
  BY DEF FromSlave, CrossInv
<1>2. CASE OrdersMasters(s)
  BY <1>2 DEF FromSlave, CrossInv, SlavesInOrder
<1>3. CASE ~OrdersMasters(s)
  <2>1. PICK T \in Seq(Masters), W \in Seq(Masters) : T = taken[s] /\ W = aw_reg[s]
    BY <1>1 DEF CrossTypes
  <2>2. T = <<>> \/ \E k \in Masters : T = <<k>> /\ s \in MASTERS[k]
    BY <1>1, <2>1 DEF RequestsAreAllowed
  <2>3. W = <<>> \/ \E k \in Masters : W = <<k>> /\ s \in MASTERS[k]
    BY <1>1, <2>1 DEF RequestsAreAllowed
  <2>4. PICK k \in Masters : Head(T \o W) = k /\ s \in MASTERS[k]
    <3>1. CASE T = <<>>
      <4>1. T \o W = W /\ W # <<>>
        BY <2>1, <2>3, <3>1, QueueJoins
      <4> QED
        BY <2>3, <4>1
    <3>2. CASE T # <<>>
      <4>1. Head(T \o W) = Head(T)
        BY <3>2, MastersHead DEF SameHead
      <4> QED
        BY <2>2, <3>2, <4>1
    <3> QED
      BY <3>1, <3>2
  <2> QED
    BY <1>1, <1>3, <2>1, <2>4, NoChoice
<1> QED
  BY <1>2, <1>3

\* Nothing else passes while a packet is on its way.
LEMMA PacketsApart ==
  ASSUME CrossTypes, NEW c, NEW s \in Slaves, NEW m \in Masters, NEW t \in Slaves, NEW k \in Masters,
         FromSlave(c, s, m), FromSlave(c, t, k), s = t \/ m = k
  PROVE  s = t /\ m = k
<1>1. s \in MASTERS[m] /\ t \in MASTERS[k]
  BY DEF FromSlave
<1>2. CASE s = t
  <2>1. CASE OrdersMasters(s)
    BY <1>2, <2>1 DEF FromSlave
  <2>2. CASE ~OrdersMasters(s)
    BY <1>1, <1>2, <2>2, NoChoice
  <2> QED
    BY <1>2, <2>1, <2>2
<1>3. CASE m = k
  <2>1. CASE OrdersSlaves(m)
    BY <1>3, <2>1 DEF FromSlave
  <2>2. CASE ~OrdersSlaves(m)
    BY <1>1, <1>3, <2>2, NoChoice
  <2> QED
    BY <1>3, <2>1, <2>2
<1> QED
  BY <1>2, <1>3

LEMMA CrossShows ==
  ASSUME CrossInv
  PROVE  WordsMeetTheirRequest
<1> SUFFICES ASSUME NEW s \in Slaves, NEW m \in Masters
    PROVE  /\ to_answer[s] # <<>> /\ FromSlave(Answering, s, m) =>
                  Head(to_answer[s]) = m /\ Head(asked[m]) = s
           /\ writes /\ w_reg[m] # <<>> /\ aw_reg[s] \o taken[s] # <<>> /\ FromSlave("w", s, m) =>
                  Head(taken[s] \o aw_reg[s]) = m
           /\ \A c \in Channels : \A p \in mid[c] :
                  p # <<s, m>> /\ (p[1] = s \/ p[2] = m) => ~FromSlave(c, s, m)
  BY DEF WordsMeetTheirRequest, Answering
<1>1. CrossTypes /\ PacketsPass
  BY DEF CrossInv
<1>2. aw_reg[s] \o taken[s] # <<>> => taken[s] \o aw_reg[s] # <<>>
  <2>1. PICK T \in Seq(Masters), W \in Seq(Masters) : T = taken[s] /\ W = aw_reg[s]
    BY <1>1 DEF CrossTypes
  <2>2. T \o W = <<>> => T = <<>> /\ W = <<>>
    BY ConcatEqualIffEmpty
  <2>3. <<>> \o <<>> = <<>>
    OBVIOUS
  <2> QED
    BY <2>1, <2>2, <2>3
<1>3. ASSUME NEW c \in Channels, NEW p \in mid[c], p # <<s, m>>, p[1] = s \/ p[2] = m, FromSlave(c, s, m)
      PROVE  FALSE
  <2>1. c \in Wires
    BY DEF Channels, Wires
  <2>2. p \in Slaves \X Masters
    BY <1>1, <2>1 DEF CrossTypes
  <2>3. PICK t \in Slaves, k \in Masters : p = <<t, k>>
    BY <2>2
  <2>4. FromSlave(c, t, k) /\ (s = t \/ m = k)
    BY <1>1, <1>3, <2>3 DEF PacketsPass
  <2>5. s = t /\ m = k
    BY <1>1, <1>3, <2>4, PacketsApart
  <2> QED
    BY <1>3, <2>3, <2>5
<1> QED
  BY <1>2, <1>3, AnswersMatch, DataMatch

\* after is fifos with the fifo i of channel c changed to q.
Changed(after, fifos, S, c, i, q) ==
    \A d \in Wires, j \in S : after[d][j] = IF d = c /\ j = i THEN q ELSE fifos[d][j]

LEMMA PoppedIs ==
  ASSUME NEW S, NEW T, NEW fifos \in [Wires -> [S -> Seq(T)]], NEW c \in Wires, NEW i \in S,
         fifos[c][i] # <<>>
  PROVE  /\ Popped(fifos, c, i) \in [Wires -> [S -> Seq(T)]]
         /\ Changed(Popped(fifos, c, i), fifos, S, c, i, Tail(fifos[c][i]))
<1>1. PICK q \in Seq(T), g \in [S -> Seq(T)] : q = fifos[c][i] /\ g = fifos[c]
  OBVIOUS
<1>2. Tail(q) \in Seq(T)
  BY <1>1, HeadTailProperties
<1>3. PICK h \in [S -> Seq(T)] : h = [g EXCEPT ![i] = Tail(q)]
  BY <1>2
<1>4. Popped(fifos, c, i) = [d \in Wires |-> IF d = c THEN h ELSE fifos[d]]
  BY <1>1, <1>3 DEF Popped
<1>5. \A j \in S : h[j] = IF j = i THEN Tail(q) ELSE g[j]
  BY <1>3
<1> QED
  BY <1>1, <1>3, <1>4, <1>5 DEF Changed

\* after is fifos with x added to the fifos i of the channels that are in use.
Extended(after, fifos, S, i, x) ==
    \A d \in Wires, j \in S : after[d][j] =
        IF d \in Channels /\ j = i THEN Append(fifos[d][i], x) ELSE fifos[d][j]

LEMMA PushedIs ==
  ASSUME NEW S, NEW T, NEW fifos \in [Wires -> [S -> Seq(T)]], NEW i \in S, NEW x \in T
  PROVE  /\ Pushed(fifos, i, x) \in [Wires -> [S -> Seq(T)]]
         /\ Extended(Pushed(fifos, i, x), fifos, S, i, x)
<1>1. \A d \in Wires : [fifos[d] EXCEPT ![i] = Append(@, x)] \in [S -> Seq(T)]
  <2> SUFFICES ASSUME NEW d \in Wires PROVE [fifos[d] EXCEPT ![i] = Append(@, x)] \in [S -> Seq(T)]
    OBVIOUS
  <2>1. fifos[d] \in [S -> Seq(T)] /\ Append(fifos[d][i], x) \in Seq(T)
    BY AppendProperties
  <2> QED
    BY <2>1
<1>2. \A d \in Wires, j \in S : [fifos[d] EXCEPT ![i] = Append(@, x)][j] =
         IF j = i THEN Append(fifos[d][i], x) ELSE fifos[d][j]
  OBVIOUS
<1>3. DOMAIN fifos = Wires
  OBVIOUS
<1>4. Pushed(fifos, i, x) \in [Wires -> [S -> Seq(T)]]
  BY <1>1, <1>3 DEF Pushed
<1> QED
  BY <1>2, <1>3, <1>4 DEF Pushed, Extended

\* With MASTERS and writes fixed.
LEMMA ChoicesStay ==
  ASSUME MASTERS' = MASTERS, writes' = writes
  PROVE  /\ Answering' = Answering /\ Channels' = Channels
         /\ \A s : OrdersMasters(s)' <=> OrdersMasters(s)
         /\ \A m : OrdersSlaves(m)' <=> OrdersSlaves(m)
BY DEF Answering, Channels, OrdersMasters, OrdersSlaves, MastersFor

\* The fifos of a data crossbar stay in step, and the packets can go on.
LEMMA PassKeeps ==
  ASSUME CrossInv, NEW c \in Channels, NEW s \in Slaves, NEW m \in Masters, NEW last \in BOOLEAN,
         PassWord(c, s, m, last)
  PROVE  /\ MASTERS' = MASTERS /\ writes' = writes /\ addr_reg' = addr_reg
         /\ order_m_index_for_s' \in [Wires -> [Slaves -> Seq(Masters)]]
         /\ order_s_index_for_m' \in [Wires -> [Masters -> Seq(Slaves)]]
         /\ mid' \in [Wires -> SUBSET (Slaves \X Masters)]
         /\ \A d \in Wires, t \in Slaves : order_m_index_for_s'[d][t] =
                IF last /\ OrdersMasters(s) /\ d = c /\ t = s THEN Tail(order_m_index_for_s[c][s])
                ELSE order_m_index_for_s[d][t]
         /\ \A d \in Wires, k \in Masters : order_s_index_for_m'[d][k] =
                IF last /\ OrdersSlaves(m) /\ d = c /\ k = m THEN Tail(order_s_index_for_m[c][m])
                ELSE order_s_index_for_m[d][k]
         /\ PacketsPass'
<1>1. /\ MASTERS' = MASTERS /\ writes' = writes /\ addr_reg' = addr_reg /\ FromSlave(c, s, m)
      /\ mid' = [mid EXCEPT ![c] = IF last THEN @ \ {<<s, m>>} ELSE @ \cup {<<s, m>>}]
  BY DEF PassWord
<1>2. CrossTypes /\ PacketsPass /\ c \in Wires
  BY DEF CrossInv, Channels, Wires
<1>3. /\ order_m_index_for_s' \in [Wires -> [Slaves -> Seq(Masters)]]
      /\ \A d \in Wires, t \in Slaves : order_m_index_for_s'[d][t] =
             IF last /\ OrdersMasters(s) /\ d = c /\ t = s THEN Tail(order_m_index_for_s[c][s])
             ELSE order_m_index_for_s[d][t]
  <2>1. PICK F \in [Wires -> [Slaves -> Seq(Masters)]] : F = order_m_index_for_s
    BY <1>2 DEF CrossTypes
  <2>2. CASE last /\ OrdersMasters(s)
    <3>1. F[c][s] # <<>> /\ order_m_index_for_s' = Popped(F, c, s)
      BY <1>1, <2>1, <2>2 DEF FromSlave, PassWord, PopOrders
    <3>2. /\ Popped(F, c, s) \in [Wires -> [Slaves -> Seq(Masters)]]
          /\ \A d \in Wires, j \in Slaves : Popped(F, c, s)[d][j] =
                IF d = c /\ j = s THEN Tail(F[c][s]) ELSE F[d][j]
      <4>1. F \in [Wires -> [Slaves -> Seq(Masters)]] /\ c \in Wires /\ F[c][s] # <<>>
        BY <1>2, <2>1, <3>1
      <4>2. /\ Popped(F, c, s) \in [Wires -> [Slaves -> Seq(Masters)]]
            /\ Changed(Popped(F, c, s), F, Slaves, c, s, Tail(F[c][s]))
        BY <4>1, PoppedIs
      <4> QED
        BY <4>2 DEF Changed
    <3> QED
      BY <2>1, <2>2, <3>1, <3>2
  <2>3. CASE ~(last /\ OrdersMasters(s))
    <3>1. order_m_index_for_s' = F
      BY <2>1, <2>3 DEF PassWord, PopOrders
    <3> QED
      BY <2>1, <2>3, <3>1
  <2> QED
    BY <2>2, <2>3
<1>4. /\ order_s_index_for_m' \in [Wires -> [Masters -> Seq(Slaves)]]
      /\ \A d \in Wires, k \in Masters : order_s_index_for_m'[d][k] =
             IF last /\ OrdersSlaves(m) /\ d = c /\ k = m THEN Tail(order_s_index_for_m[c][m])
             ELSE order_s_index_for_m[d][k]
  <2>1. PICK F \in [Wires -> [Masters -> Seq(Slaves)]] : F = order_s_index_for_m
    BY <1>2 DEF CrossTypes
  <2>2. CASE last /\ OrdersSlaves(m)
    <3>1. F[c][m] # <<>> /\ order_s_index_for_m' = Popped(F, c, m)
      BY <1>1, <2>1, <2>2 DEF FromSlave, PassWord, PopOrders
    <3>2. /\ Popped(F, c, m) \in [Wires -> [Masters -> Seq(Slaves)]]
          /\ \A d \in Wires, j \in Masters : Popped(F, c, m)[d][j] =
                IF d = c /\ j = m THEN Tail(F[c][m]) ELSE F[d][j]
      <4>1. F \in [Wires -> [Masters -> Seq(Slaves)]] /\ c \in Wires /\ F[c][m] # <<>>
        BY <1>2, <2>1, <3>1
      <4>2. /\ Popped(F, c, m) \in [Wires -> [Masters -> Seq(Slaves)]]
            /\ Changed(Popped(F, c, m), F, Masters, c, m, Tail(F[c][m]))
        BY <4>1, PoppedIs
      <4> QED
        BY <4>2 DEF Changed
    <3> QED
      BY <2>1, <2>2, <3>1, <3>2
  <2>3. CASE ~(last /\ OrdersSlaves(m))
    <3>1. order_s_index_for_m' = F
      BY <2>1, <2>3 DEF PassWord, PopOrders
    <3> QED
      BY <2>1, <2>3, <3>1
  <2> QED
    BY <2>2, <2>3
<1>5. /\ mid' \in [Wires -> SUBSET (Slaves \X Masters)]
      /\ \A d \in Wires : \A p \in mid'[d] :
             \/ p \in mid[d] /\ ~(last /\ d = c /\ p = <<s, m>>)
             \/ p = <<s, m>> /\ d = c /\ ~last
  <2>1. PICK M \in [Wires -> SUBSET (Slaves \X Masters)] : M = mid
    BY <1>2 DEF CrossTypes
  <2>2. mid' = [M EXCEPT ![c] = IF last THEN M[c] \ {<<s, m>>} ELSE M[c] \cup {<<s, m>>}]
    BY <1>1, <2>1
  <2>3. <<s, m>> \in Slaves \X Masters
    OBVIOUS
  <2>4. CASE last
    BY <1>2, <2>1, <2>2, <2>4
  <2>5. CASE ~last
    BY <1>2, <2>1, <2>2, <2>3, <2>5
  <2> QED
    BY <2>4, <2>5
<1>6. PacketsPass'
  <2> SUFFICES ASSUME NEW d \in Channels', NEW p \in mid'[d]
               PROVE  FromSlave(d, p[1], p[2])'
    BY DEF PacketsPass
  <2>1. d \in Channels /\ d \in Wires
    BY <1>1, ChoicesStay DEF Channels, Wires
  <2>2. PICK t \in Slaves, k \in Masters : p = <<t, k>>
    BY <1>5, <2>1
  <2>3. FromSlave(d, t, k)
    <3>1. CASE p \in mid[d]
      BY <1>2, <2>1, <2>2, <3>1 DEF PacketsPass
    <3>2. CASE p = <<s, m>> /\ d = c
      BY <1>1, <2>2, <3>2
    <3> QED
      BY <1>5, <2>1, <3>1, <3>2
  <2>4. ~(last /\ d = c /\ (t = s \/ k = m))
    <3> SUFFICES ASSUME last, d = c, s = t \/ m = k PROVE FALSE
      OBVIOUS
    <3>1. s = t /\ m = k
      BY <1>1, <1>2, <2>3, PacketsApart
    <3> QED
      BY <1>5, <2>1, <2>2, <3>1
  <2>5. order_m_index_for_s'[d][t] = order_m_index_for_s[d][t] /\ order_s_index_for_m'[d][k] = order_s_index_for_m[d][k]
    BY <1>3, <1>4, <2>1, <2>4
  <2>6. FromSlave(d, t, k)'
    BY <1>1, <2>3, <2>5, ChoicesStay DEF FromSlave
  <2> QED
    BY <2>2, <2>6
<1> QED
  BY <1>1, <1>3, <1>4, <1>5, <1>6

LEMMA PassesStay ==
  ASSUME PacketsPass,
         UNCHANGED <<MASTERS, writes, order_m_index_for_s, order_s_index_for_m, mid>>
  PROVE  PacketsPass'
<1>1. Channels' = Channels /\ \A c, s, m : FromSlave(c, s, m)' <=> FromSlave(c, s, m)
  BY ChoicesStay DEF FromSlave
<1> QED
  BY <1>1 DEF PacketsPass

LEMMA CrossStays ==
  ASSUME CrossInv,
         UNCHANGED <<MASTERS, writes, order_m_index_for_s, order_s_index_for_m, mid>>,
         UNCHANGED <<addr_reg, asked, to_answer, taken, aw_reg>>
  PROVE  CrossInv'
<1>1. CrossTypes'
  BY DEF CrossInv, CrossTypes
<1>2. RequestsAreAllowed'
  BY DEF CrossInv, RequestsAreAllowed
<1>3. Answering' = Answering /\ \A s : Pending(s)' = Pending(s)
  BY DEF Answering, Pending
<1>4. SlavesInOrder' /\ MastersInOrder' /\ AllCounted'
  <2>1. /\ \A s : OrdersMasters(s)' <=> OrdersMasters(s)
        /\ \A m : OrdersSlaves(m)' <=> OrdersSlaves(m)
    BY ChoicesStay
  <2>2. SlavesInOrder'
    BY <1>3, <2>1 DEF CrossInv, SlavesInOrder
  <2>3. MastersInOrder'
    BY <1>3, <2>1 DEF CrossInv, MastersInOrder
  <2>4. AllCounted'
    BY <1>3, <2>1 DEF CrossInv, AllCounted
  <2> QED
    BY <2>2, <2>3, <2>4
<1> QED
  BY <1>1, <1>2, <1>4, PassesStay DEF CrossInv

LEMMA AskKeeps ==
  ASSUME CrossInv, NEW m \in Masters, NEW s \in Slaves, Ask(m, s)
  PROVE  CrossInv'
<1>1. /\ s \in MASTERS[m] /\ addr_reg[m] = <<>>
      /\ addr_reg' = [addr_reg EXCEPT ![m] = <<s>>]
      /\ asked' = [asked EXCEPT ![m] = Append(asked[m], s)]
      /\ UNCHANGED <<MASTERS, writes, order_m_index_for_s, order_s_index_for_m, mid>>
      /\ UNCHANGED <<to_answer, taken, aw_reg>>
  BY DEF Ask, routeVars
<1>2. CrossTypes /\ RequestsAreAllowed
  BY DEF CrossInv
<1>3. PICK Q \in Seq(Slaves) : Q = asked[m]
  BY <1>2 DEF CrossTypes
<1>4. /\ asked'[m] = Append(Q, s) /\ addr_reg'[m] = <<s>>
      /\ \A k \in Masters : k # m => asked'[k] = asked[k] /\ addr_reg'[k] = addr_reg[k]
      /\ asked' \in [Masters -> Seq(Slaves)] /\ addr_reg' \in [Masters -> Seq(Slaves)]
  <2>1. Append(Q, s) \in Seq(Slaves) /\ <<s>> \in Seq(Slaves)
    BY <1>3, AppendProperties
  <2> QED
    BY <1>1, <1>2, <1>3, <2>1 DEF CrossTypes
<1>5. CrossTypes'
  BY <1>1, <1>2, <1>4 DEF CrossTypes
<1>6. RequestsAreAllowed'
  <2>1. \A i \in 1 .. Len(Append(Q, s)) : Append(Q, s)[i] \in MASTERS[m]
    <3>1. \A i \in 1 .. Len(Q) : Q[i] \in MASTERS[m]
      BY <1>2, <1>3 DEF RequestsAreAllowed
    <3>2. Len(Append(Q, s)) = Len(Q) + 1 /\ \A i \in 1 .. Len(Q) + 1 :
             Append(Q, s)[i] = IF i <= Len(Q) THEN Q[i] ELSE s
      BY <1>3
    <3>3. Len(Q) \in Nat
      BY <1>3
    <3> QED
      BY <1>1, <3>1, <3>2, <3>3
  <2>2. \A k \in Masters :
          /\ \A i \in 1 .. Len(asked'[k]) : asked'[k][i] \in MASTERS[k]
          /\ addr_reg'[k] = <<>> \/ \E t \in MASTERS[k] : addr_reg'[k] = <<t>>
    BY <1>1, <1>2, <1>4, <2>1 DEF RequestsAreAllowed
  <2> QED
    BY <1>1, <1>2, <2>2 DEF RequestsAreAllowed
<1>7. /\ Answering' = Answering /\ \A t : Pending(t)' = Pending(t)
      /\ \A t : OrdersMasters(t)' <=> OrdersMasters(t)
      /\ \A k : OrdersSlaves(k)' <=> OrdersSlaves(k)
  BY <1>1, ChoicesStay DEF Pending
<1>8. SlavesInOrder'
  BY <1>1, <1>7 DEF CrossInv, SlavesInOrder
<1>9. MastersInOrder'
  <2> SUFFICES ASSUME NEW k \in Masters, OrdersSlaves(k)
               PROVE  asked'[k] = order_s_index_for_m[Answering][k] \o addr_reg'[k]
    BY <1>1, <1>7 DEF MastersInOrder
  <2>1. asked[k] = order_s_index_for_m[Answering][k] \o addr_reg[k]
    BY DEF CrossInv, MastersInOrder
  <2>2. CASE k = m
    <3>1. PICK F \in Seq(Slaves) : F = order_s_index_for_m[Answering][m]
      BY <1>2 DEF CrossTypes, Answering, Wires
    <3>2. Q = F
      BY <1>1, <1>3, <2>1, <2>2, <3>1, QueueJoins
    <3>3. F \o <<s>> = Append(F, s)
      BY <3>1, QueueAdds
    <3> QED
      BY <1>4, <2>2, <3>1, <3>2, <3>3
  <2> QED
    BY <1>4, <2>1, <2>2
<1>10. AllCounted'
  <2> SUFFICES ASSUME NEW k \in Masters, ~OrdersSlaves(k), NEW t \in MASTERS[k]
               PROVE  Weighs(Pending(t), AsSeen(k), 0, Len(asked'[k]) - Len(addr_reg'[k]))
    BY <1>1, <1>7 DEF AllCounted
  <2>1. Weighs(Pending(t), AsSeen(k), 0, Len(asked[k]) - Len(addr_reg[k]))
    BY DEF CrossInv, AllCounted
  <2>2. Len(asked'[k]) - Len(addr_reg'[k]) = Len(asked[k]) - Len(addr_reg[k])
    <3>1. CASE k = m
      <4>1. Len(Append(Q, s)) = Len(Q) + 1 /\ Len(<<s>>) = 1 /\ Len(<<>>) = 0 /\ Len(Q) \in Nat
        BY <1>3
      <4>2. (Len(Q) + 1) - 1 = Len(Q) - 0
        BY <4>1
      <4> QED
        BY <1>1, <1>3, <1>4, <3>1, <4>1, <4>2
    <3> QED
      BY <1>4, <3>1
  <2> QED
    BY <2>1, <2>2
<1> QED
  BY <1>1, <1>5, <1>6, <1>8, <1>9, <1>10, PassesStay DEF CrossInv

LEMMA OrdersExtend ==
  ASSUME NEW S, NEW T, NEW fifos \in [Wires -> [S -> Seq(T)]], NEW i \in S, NEW x \in T,
         NEW after, NEW choice \in BOOLEAN, after = IF choice THEN Pushed(fifos, i, x) ELSE fifos
  PROVE  /\ after \in [Wires -> [S -> Seq(T)]]
         /\ choice => Extended(after, fifos, S, i, x)
         /\ \A d \in Wires, j \in S : ~choice \/ j # i => after[d][j] = fifos[d][j]
<1>1. CASE choice
  <2>1. /\ Pushed(fifos, i, x) \in [Wires -> [S -> Seq(T)]]
        /\ Extended(Pushed(fifos, i, x), fifos, S, i, x)
    BY PushedIs
  <2>2. after \in [Wires -> [S -> Seq(T)]] /\ Extended(after, fifos, S, i, x)
    BY <1>1, <2>1
  <2> QED
    BY <1>1, <2>2 DEF Extended
<1>2. CASE ~choice
  BY <1>2
<1> QED
  BY <1>1, <1>2

LEMMA DispatchKeeps ==
  ASSUME CrossInv, NEW m \in Masters, NEW s \in Slaves, Dispatch(m, s)
  PROVE  CrossInv'
<1>1. /\ m \in Asking(s)
      /\ addr_reg' = [addr_reg EXCEPT ![m] = <<>>]
      /\ order_m_index_for_s' =
           IF OrdersMasters(s) THEN Pushed(order_m_index_for_s, s, m) ELSE order_m_index_for_s
      /\ order_s_index_for_m' =
           IF OrdersSlaves(m) THEN Pushed(order_s_index_for_m, m, addr_reg[m][1])
           ELSE order_s_index_for_m
      /\ writes => aw_reg[s] = <<>>
      /\ aw_reg' = IF writes THEN [aw_reg EXCEPT ![s] = <<m>>] ELSE aw_reg
      /\ to_answer' = IF writes THEN to_answer ELSE [to_answer EXCEPT ![s] = Append(to_answer[s], m)]
      /\ UNCHANGED <<MASTERS, writes, asked, taken, mid>>
  BY DEF Dispatch, IsSelected, SlaveReady
<1>2. CrossTypes /\ RequestsAreAllowed
  BY DEF CrossInv
<1>3. s \in MASTERS[m] /\ addr_reg[m] = <<s>>
  <2>1. s \in MASTERS[m] /\ addr_reg[m] # <<>> /\ RouteOf(m, addr_reg[m][1]) = s
    BY <1>1 DEF Asking, MastersFor
  <2>2. PICK t \in MASTERS[m] : addr_reg[m] = <<t>>
    BY <1>2, <2>1 DEF RequestsAreAllowed
  <2>3. RouteOf(m, t) = t
    BY <1>2, RoutesLead DEF RouteOf, CrossTypes
  <2> QED
    BY <2>1, <2>2, <2>3
<1>4. addr_reg[m][1] = s
  BY <1>3
<1>5. /\ Answering' = Answering
      /\ \A t : OrdersMasters(t)' <=> OrdersMasters(t)
      /\ \A k : OrdersSlaves(k)' <=> OrdersSlaves(k)
      /\ Channels' = Channels
  BY <1>1, ChoicesStay
<1>6. /\ order_m_index_for_s' \in [Wires -> [Slaves -> Seq(Masters)]]
      /\ OrdersMasters(s) => Extended(order_m_index_for_s', order_m_index_for_s, Slaves, s, m)
      /\ \A d \in Wires, j \in Slaves : ~OrdersMasters(s) \/ j # s =>
             order_m_index_for_s'[d][j] = order_m_index_for_s[d][j]
  <2>1. PICK choice \in BOOLEAN : choice <=> OrdersMasters(s)
    OBVIOUS
  <2>2. order_m_index_for_s' = IF choice THEN Pushed(order_m_index_for_s, s, m) ELSE order_m_index_for_s
    BY <1>1, <2>1
  <2>3. order_m_index_for_s \in [Wires -> [Slaves -> Seq(Masters)]]
    BY <1>2 DEF CrossTypes
  <2>4. /\ order_m_index_for_s' \in [Wires -> [Slaves -> Seq(Masters)]]
        /\ choice => Extended(order_m_index_for_s', order_m_index_for_s, Slaves, s, m)
        /\ \A d \in Wires, j \in Slaves : ~choice \/ j # s =>
             order_m_index_for_s'[d][j] = order_m_index_for_s[d][j]
    BY <2>2, <2>3, OrdersExtend
  <2> QED
    BY <2>1, <2>4
<1>7. /\ order_s_index_for_m' \in [Wires -> [Masters -> Seq(Slaves)]]
      /\ OrdersSlaves(m) => Extended(order_s_index_for_m', order_s_index_for_m, Masters, m, s)
      /\ \A d \in Wires, j \in Masters : ~OrdersSlaves(m) \/ j # m =>
             order_s_index_for_m'[d][j] = order_s_index_for_m[d][j]
  <2>1. PICK choice \in BOOLEAN : choice <=> OrdersSlaves(m)
    OBVIOUS
  <2>2. order_s_index_for_m' = IF choice THEN Pushed(order_s_index_for_m, m, s) ELSE order_s_index_for_m
    BY <1>1, <1>4, <2>1
  <2>3. order_s_index_for_m \in [Wires -> [Masters -> Seq(Slaves)]]
    BY <1>2 DEF CrossTypes
  <2>4. /\ order_s_index_for_m' \in [Wires -> [Masters -> Seq(Slaves)]]
        /\ choice => Extended(order_s_index_for_m', order_s_index_for_m, Masters, m, s)
        /\ \A d \in Wires, j \in Masters : ~choice \/ j # m =>
             order_s_index_for_m'[d][j] = order_s_index_for_m[d][j]
    BY <2>2, <2>3, OrdersExtend
  <2> QED
    BY <2>1, <2>4
<1>8. PICK A \in Seq(Masters), T \in Seq(Masters), W \in Seq(Masters) :
         A = to_answer[s] /\ T = taken[s] /\ W = aw_reg[s]
  BY <1>2 DEF CrossTypes
<1>9. /\ to_answer'[s] = (IF writes THEN A ELSE Append(A, m))
      /\ aw_reg'[s] = (IF writes THEN <<m>> ELSE W)
      /\ taken'[s] = T
      /\ \A t \in Slaves : t # s => to_answer'[t] = to_answer[t] /\ aw_reg'[t] = aw_reg[t]
      /\ to_answer' \in [Slaves -> Seq(Masters)] /\ aw_reg' \in [Slaves -> Seq(Masters)]
  <2>1. Append(A, m) \in Seq(Masters) /\ <<m>> \in Seq(Masters)
    BY <1>8, AppendProperties
  <2> QED
    BY <1>1, <1>2, <1>8, <2>1 DEF CrossTypes
<1>10. /\ addr_reg'[m] = <<>> /\ addr_reg' \in [Masters -> Seq(Slaves)]
       /\ \A k \in Masters : k # m => addr_reg'[k] = addr_reg[k]
  <2>1. <<>> \in Seq(Slaves)
    OBVIOUS
  <2> QED
    BY <1>1, <1>2, <2>1 DEF CrossTypes
<1>11. writes \/ (T = <<>> /\ W = <<>>)
  BY <1>2, <1>8 DEF RequestsAreAllowed
<1>12. /\ Pending(s) \in Seq(Masters) /\ Pending(s)' = Append(Pending(s), m)
       /\ writes => taken'[s] \o aw_reg'[s] = Append(taken[s] \o aw_reg[s], m)
       /\ \A t \in Slaves : t # s => Pending(t)' = Pending(t) /\ taken'[t] = taken[t] /\ aw_reg'[t] = aw_reg[t]
  <2>1. CASE writes
    <3>0. W = <<>> /\ T \o <<>> = T
      BY <1>1, <1>8, <2>1, QueueJoins
    <3>1. Pending(s) = A \o T /\ W = <<>> /\ T \o W = T
      BY <1>8, <3>0 DEF Pending
    <3>2. Pending(s)' = A \o (T \o <<m>>) /\ T \o <<m>> = Append(T, m)
      <4>1. Pending(s)' = A \o (T \o <<m>>)
        BY <1>8, <1>9, <2>1 DEF Pending
      <4>2. T \o <<m>> = Append(T, m)
        BY <1>8, QueueAdds
      <4> QED
        BY <4>1, <4>2
    <3>3. <<m>> \in Seq(Masters) /\ A \o T \in Seq(Masters)
      <4>1. A \o T \in Seq(Masters)
        BY <1>8, QueueJoins
      <4> QED
        BY <4>1
    <3>4. A \o (T \o <<m>>) = (A \o T) \o <<m>>
      <4>1. A \in Seq(Masters) /\ T \in Seq(Masters) /\ <<m>> \in Seq(Masters)
        BY <1>8, <3>3
      <4> QED
        BY <4>1, ConcatAssociative
    <3>5. (A \o T) \o <<m>> = Append(A \o T, m)
      BY <3>3, QueueAdds
    <3>6. taken'[s] \o aw_reg'[s] = Append(T, m) /\ taken[s] \o aw_reg[s] = T
      BY <1>8, <1>9, <2>1, <3>1, <3>2
    <3> QED
      BY <1>1, <1>9, <3>1, <3>2, <3>3, <3>4, <3>5, <3>6 DEF Pending
  <2>2. CASE ~writes
    <3>1. T = <<>> /\ W = <<>> /\ <<>> \o <<>> = <<>>
      BY <1>11, <2>2, QueueJoins
    <3>2. Pending(s) = A /\ Append(A, m) \in Seq(Masters)
      BY <1>8, <3>1, QueueJoins, QueueAdds DEF Pending
    <3>3. Pending(s)' = Append(A, m)
      BY <1>9, <2>2, <3>1, <3>2, QueueJoins DEF Pending
    <3> QED
      BY <1>1, <1>8, <1>9, <2>2, <3>2, <3>3 DEF Pending
  <2> QED
    BY <2>1, <2>2
<1>13. CrossTypes'
  BY <1>1, <1>2, <1>6, <1>7, <1>9, <1>10 DEF CrossTypes
<1>14. RequestsAreAllowed'
  <2>1. \A k \in Masters :
          /\ \A i \in 1 .. Len(asked'[k]) : asked'[k][i] \in MASTERS[k]
          /\ addr_reg'[k] = <<>> \/ \E t \in MASTERS[k] : addr_reg'[k] = <<t>>
    BY <1>1, <1>2, <1>10 DEF RequestsAreAllowed
  <2>2. \A i \in 1 .. Len(to_answer'[s]) : s \in MASTERS[to_answer'[s][i]]
    <3>1. \A i \in 1 .. Len(A) : s \in MASTERS[A[i]]
      BY <1>2, <1>8 DEF RequestsAreAllowed
    <3>2. Len(Append(A, m)) = Len(A) + 1 /\ \A i \in 1 .. Len(A) + 1 :
             Append(A, m)[i] = IF i <= Len(A) THEN A[i] ELSE m
      BY <1>8
    <3>3. Len(A) \in Nat
      BY <1>8
    <3>4. \A i \in 1 .. Len(Append(A, m)) : s \in MASTERS[Append(A, m)[i]]
      BY <1>3, <3>1, <3>2, <3>3
    <3> QED
      BY <1>9, <3>1, <3>4
  <2>3. aw_reg'[s] = <<>> \/ (writes /\ \E k \in Masters : aw_reg'[s] = <<k>> /\ s \in MASTERS[k])
    BY <1>3, <1>8, <1>9, <1>11
  <2>4. \A t \in Slaves :
          /\ \A i \in 1 .. Len(to_answer'[t]) : t \in MASTERS[to_answer'[t][i]]
          /\ taken'[t] = <<>> \/ (writes /\ \E k \in Masters : taken'[t] = <<k>> /\ t \in MASTERS[k])
          /\ aw_reg'[t] = <<>> \/ (writes /\ \E k \in Masters : aw_reg'[t] = <<k>> /\ t \in MASTERS[k])
    BY <1>1, <1>2, <1>9, <2>2, <2>3 DEF RequestsAreAllowed
  <2> QED
    BY <1>1, <2>1, <2>4 DEF RequestsAreAllowed
<1>15. SlavesInOrder'
  <2> SUFFICES ASSUME NEW t \in Slaves, OrdersMasters(t)
               PROVE  /\ order_m_index_for_s'[Answering][t] = Pending(t)'
                      /\ writes => order_m_index_for_s'["w"][t] = taken'[t] \o aw_reg'[t]
    BY <1>1, <1>5 DEF SlavesInOrder
  <2>1. /\ order_m_index_for_s[Answering][t] = Pending(t)
        /\ writes => order_m_index_for_s["w"][t] = taken[t] \o aw_reg[t]
    BY DEF CrossInv, SlavesInOrder
  <2>2. Answering \in Wires /\ Answering \in Channels /\ "w" \in Wires /\ (writes => "w" \in Channels)
    BY DEF Answering, Wires, Channels
  <2>3. CASE t = s
    BY <1>6, <1>12, <2>1, <2>2, <2>3 DEF Extended
  <2>4. CASE t # s
    BY <1>6, <1>12, <2>1, <2>2, <2>4
  <2> QED
    BY <2>3, <2>4
<1>16. MastersInOrder'
  <2> SUFFICES ASSUME NEW k \in Masters, OrdersSlaves(k)
               PROVE  asked[k] = order_s_index_for_m'[Answering][k] \o addr_reg'[k]
    BY <1>1, <1>5 DEF MastersInOrder
  <2>1. asked[k] = order_s_index_for_m[Answering][k] \o addr_reg[k]
    BY DEF CrossInv, MastersInOrder
  <2>2. Answering \in Wires /\ Answering \in Channels
    BY DEF Answering, Wires, Channels
  <2>3. CASE k = m
    <3>1. PICK F \in Seq(Slaves) : F = order_s_index_for_m[Answering][m]
      BY <1>2, <2>2 DEF CrossTypes
    <3>2. order_s_index_for_m'[Answering][m] = Append(F, s)
      BY <1>7, <2>2, <2>3, <3>1 DEF Extended
    <3>3. F \o <<s>> = Append(F, s) /\ Append(F, s) \o <<>> = Append(F, s)
      BY <3>1, QueueAdds, QueueJoins
    <3> QED
      BY <1>3, <1>10, <2>1, <2>3, <3>1, <3>2, <3>3
  <2>4. CASE k # m
    BY <1>7, <1>10, <2>1, <2>2, <2>4
  <2> QED
    BY <2>3, <2>4
<1>17. AllCounted'
  <2> SUFFICES ASSUME NEW k \in Masters, ~OrdersSlaves(k), NEW t \in MASTERS[k]
               PROVE  Weighs(Pending(t)', AsSeen(k), 0, Len(asked[k]) - Len(addr_reg'[k]))
    BY <1>1, <1>5 DEF AllCounted, AsSeen
  <2>1. Weighs(Pending(t), AsSeen(k), 0, Len(asked[k]) - Len(addr_reg[k]))
    BY DEF CrossInv, AllCounted
  <2>2. t \in Slaves
    BY <1>2, NoChoice
  <2>3. CASE t # s
    <3>1. k # m
      BY <1>2, <1>3, <2>3, NoChoice
    <3> QED
      BY <1>10, <1>12, <2>1, <2>2, <2>3, <3>1
  <2>4. CASE t = s
    <3>1. PICK n \in Int : n = Len(asked[k]) - Len(addr_reg[k])
      <4>1. PICK a \in Nat, b \in Nat : a = Len(asked[k]) /\ b = Len(addr_reg[k])
        <5>1. asked[k] \in Seq(Slaves) /\ addr_reg[k] \in Seq(Slaves)
          BY <1>2 DEF CrossTypes
        <5> QED
          BY <5>1, LenProperties
      <4>2. a - b \in Int
        OBVIOUS
      <4> QED
        BY <4>1, <4>2
    <3>2. AsSeen(k) \in [Masters -> Int] /\ AsSeen(k)[m] = (IF k = m THEN 1 ELSE 0)
      BY DEF AsSeen
    <3>3. PICK P, w, base : P \in Seq(Masters) /\ w \in [Masters -> Int] /\ P = Pending(s) /\ w = AsSeen(k) /\ base = 0 /\ Weighs(P, w, base, n)
      BY <1>12, <2>1, <2>4, <3>1, <3>2
    <3>4. Weighs(Append(P, m), w, base, n + w[m])
      BY <3>1, <3>3, WeightOfAppend
    <3>5. n + w[m] = Len(asked[k]) - Len(addr_reg'[k])
      <4>1. CASE k = m
        <5>1. PICK a \in Nat : a = Len(asked[k])
          <6>1. asked[k] \in Seq(Slaves)
            BY <1>2 DEF CrossTypes
          <6> QED
            BY <6>1, LenProperties
        <5>2. addr_reg'[k] = <<>> /\ addr_reg[k] = <<s>> /\ Len(<<>>) = 0 /\ Len(<<s>>) = 1
          BY <1>3, <1>10, <4>1
        <5>3. n = a - 1 /\ Len(asked[k]) - Len(addr_reg'[k]) = a - 0 /\ w[m] = 1
          BY <3>1, <3>2, <3>3, <4>1, <5>1, <5>2
        <5>4. n + 1 = a - 0
          BY <5>1, <5>3
        <5> QED
          BY <5>3, <5>4
      <4>2. CASE k # m
        <5>1. w[m] = 0 /\ addr_reg'[k] = addr_reg[k]
          BY <1>10, <3>2, <3>3, <4>2
        <5>2. n + 0 = n
          BY <3>1
        <5> QED
          BY <3>1, <5>1, <5>2
      <4> QED
        BY <4>1, <4>2
    <3> QED
      BY <1>12, <2>4, <3>3, <3>4, <3>5
  <2> QED
    BY <2>3, <2>4
<1>18. PacketsPass'
  <2> SUFFICES ASSUME NEW c \in Channels, NEW p \in mid[c]
               PROVE  FromSlave(c, p[1], p[2])'
    BY <1>1, <1>5 DEF PacketsPass
  <2>1. c \in Wires
    BY DEF Channels, Wires
  <2>2. PICK t \in Slaves, k \in Masters : p = <<t, k>>
    BY <1>2, <2>1 DEF CrossTypes
  <2>3. FromSlave(c, t, k)
    BY <2>2 DEF CrossInv, PacketsPass
  <2>4. OrdersMasters(t) => order_m_index_for_s'[c][t] # <<>> /\ Head(order_m_index_for_s'[c][t]) = k
    <3> SUFFICES ASSUME OrdersMasters(t)
                 PROVE  order_m_index_for_s'[c][t] # <<>> /\ Head(order_m_index_for_s'[c][t]) = k
      OBVIOUS
    <3>1. PICK F \in Seq(Masters) : F = order_m_index_for_s[c][t]
      BY <1>2, <2>1 DEF CrossTypes
    <3>2. F # <<>> /\ Head(F) = k
      BY <2>3, <3>1 DEF FromSlave
    <3>3. CASE t = s
      <4>1. order_m_index_for_s'[c][t] = Append(F, m)
        BY <1>6, <2>1, <3>1, <3>3 DEF Extended
      <4>2. F \in Seq(Masters) /\ F # <<>> /\ Append(F, m) # <<>>
        BY <3>1, <3>2, AppendProperties
      <4>3. Head(Append(F, m)) = Head(F)
        BY <4>2, QueueAdds
      <4> QED
        BY <3>2, <4>1, <4>2, <4>3
    <3>4. CASE t # s
      BY <1>6, <2>1, <3>1, <3>2, <3>4
    <3> QED
      BY <3>3, <3>4
  <2>5. OrdersSlaves(k) => order_s_index_for_m'[c][k] # <<>> /\ Head(order_s_index_for_m'[c][k]) = t
    <3> SUFFICES ASSUME OrdersSlaves(k)
                 PROVE  order_s_index_for_m'[c][k] # <<>> /\ Head(order_s_index_for_m'[c][k]) = t
      OBVIOUS
    <3>1. PICK F \in Seq(Slaves) : F = order_s_index_for_m[c][k]
      BY <1>2, <2>1 DEF CrossTypes
    <3>2. F # <<>> /\ Head(F) = t
      BY <2>3, <3>1 DEF FromSlave
    <3>3. CASE k = m
      <4>1. order_s_index_for_m'[c][k] = Append(F, s)
        BY <1>7, <2>1, <3>1, <3>3 DEF Extended
      <4>2. F \in Seq(Slaves) /\ F # <<>> /\ Append(F, s) # <<>>
        BY <3>1, <3>2, AppendProperties
      <4>3. Head(Append(F, s)) = Head(F)
        BY <4>2, QueueAdds
      <4> QED
        BY <3>2, <4>1, <4>2, <4>3
    <3>4. CASE k # m
      BY <1>7, <2>1, <3>1, <3>2, <3>4
    <3> QED
      BY <3>3, <3>4
  <2>6. FromSlave(c, t, k)'
    BY <1>1, <1>5, <2>3, <2>4, <2>5 DEF FromSlave
  <2> QED
    BY <2>2, <2>6
<1> QED
  BY <1>13, <1>14, <1>15, <1>16, <1>17, <1>18 DEF CrossInv

LEMMA AnswerKeeps ==
  ASSUME CrossInv, NEW m \in Masters, NEW s \in Slaves, NEW last \in BOOLEAN, AnswerFrom(s, m, last)
  PROVE  CrossInv'
<1>1. /\ to_answer[s] # <<>> /\ PassWord(Answering, s, m, last)
      /\ asked' = IF last THEN [asked EXCEPT ![m] = Tail(asked[m])] ELSE asked
      /\ to_answer' = IF last THEN [to_answer EXCEPT ![s] = Tail(to_answer[s])] ELSE to_answer
      /\ UNCHANGED <<aw_reg, taken>>
  BY DEF AnswerFrom, Answering
<1>2. CrossTypes /\ RequestsAreAllowed
  BY DEF CrossInv
<1>3. Answering \in Channels /\ Answering \in Wires /\ Answering # "w" /\ "w" \in Wires
  BY DEF Answering, Channels, Wires
<1>4. /\ MASTERS' = MASTERS /\ writes' = writes /\ addr_reg' = addr_reg
      /\ order_m_index_for_s' \in [Wires -> [Slaves -> Seq(Masters)]]
      /\ order_s_index_for_m' \in [Wires -> [Masters -> Seq(Slaves)]]
      /\ mid' \in [Wires -> SUBSET (Slaves \X Masters)]
      /\ \A d \in Wires, t \in Slaves : order_m_index_for_s'[d][t] =
             IF last /\ OrdersMasters(s) /\ d = Answering /\ t = s
             THEN Tail(order_m_index_for_s[Answering][s]) ELSE order_m_index_for_s[d][t]
      /\ \A d \in Wires, k \in Masters : order_s_index_for_m'[d][k] =
             IF last /\ OrdersSlaves(m) /\ d = Answering /\ k = m
             THEN Tail(order_s_index_for_m[Answering][m]) ELSE order_s_index_for_m[d][k]
      /\ PacketsPass'
  BY <1>1, <1>3, PassKeeps
<1>5. FromSlave(Answering, s, m) /\ s \in MASTERS[m]
  BY <1>1 DEF PassWord, FromSlave
<1>6. Head(to_answer[s]) = m /\ asked[m] # <<>> /\ Head(asked[m]) = s
  BY <1>1, <1>5, AnswersMatch
<1>7. /\ Answering' = Answering
      /\ \A t : OrdersMasters(t)' <=> OrdersMasters(t)
      /\ \A k : OrdersSlaves(k)' <=> OrdersSlaves(k)
  BY <1>4, ChoicesStay
<1>8. PICK A \in Seq(Masters), P \in Seq(Masters), Q \in Seq(Slaves) :
         A = to_answer[s] /\ P = taken[s] \o aw_reg[s] /\ Q = asked[m]
  <2>1. taken[s] \in Seq(Masters) /\ aw_reg[s] \in Seq(Masters)
    BY <1>2 DEF CrossTypes
  <2>2. taken[s] \o aw_reg[s] \in Seq(Masters)
    BY <2>1, QueueJoins
  <2>3. to_answer[s] \in Seq(Masters) /\ asked[m] \in Seq(Slaves)
    BY <1>2 DEF CrossTypes
  <2> QED
    BY <2>2, <2>3
<1>9. /\ A # <<>> /\ Tail(A) \in Seq(Masters) /\ A \o P \in Seq(Masters) /\ A \o P # <<>>
      /\ Head(A \o P) = Head(A) /\ Tail(A \o P) = Tail(A) \o P
  <2>1. A # <<>>
    BY <1>1, <1>8
  <2>2. A \o P \in Seq(Masters)
    BY <1>8, QueueJoins
  <2>3. Tail(A) \in Seq(Masters)
    BY <1>8, <2>1, HeadTailProperties
  <2>4. A \o P # <<>> /\ Head(A \o P) = Head(A) /\ Tail(A \o P) = Tail(A) \o P
    BY <2>1, QueueHeads
  <2> QED
    BY <2>1, <2>2, <2>3, <2>4
<1>10. Q # <<>> /\ Tail(Q) \in Seq(Slaves) /\ Len(Tail(Q)) = Len(Q) - 1
  BY <1>6, <1>8, HeadTailProperties
<1>11. /\ asked'[m] = (IF last THEN Tail(Q) ELSE Q)
       /\ \A k \in Masters : k # m => asked'[k] = asked[k]
       /\ asked' \in [Masters -> Seq(Slaves)]
  BY <1>1, <1>2, <1>8, <1>10 DEF CrossTypes
<1>12. /\ to_answer'[s] = (IF last THEN Tail(A) ELSE A)
       /\ \A t \in Slaves : t # s => to_answer'[t] = to_answer[t]
       /\ to_answer' \in [Slaves -> Seq(Masters)]
  BY <1>1, <1>2, <1>8, <1>9 DEF CrossTypes
<1>13. /\ Pending(s) = A \o P /\ Pending(s)' = (IF last THEN Tail(A \o P) ELSE A \o P)
       /\ \A t \in Slaves : t # s => Pending(t)' = Pending(t)
  BY <1>1, <1>8, <1>9, <1>12 DEF Pending
<1>14. CrossTypes'
  BY <1>1, <1>2, <1>4, <1>11, <1>12 DEF CrossTypes
<1>15. RequestsAreAllowed'
  <2>1. \A i \in 1 .. Len(asked'[m]) : asked'[m][i] \in MASTERS[m]
    <3>1. \A i \in 1 .. Len(Q) : Q[i] \in MASTERS[m]
      BY <1>2, <1>8 DEF RequestsAreAllowed
    <3>2. \A i \in 1 .. Len(Tail(Q)) : i + 1 \in 1 .. Len(Q) /\ Tail(Q)[i] = Q[i + 1]
      BY <1>8, <1>10
    <3> QED
      BY <1>11, <3>1, <3>2
  <2>2. \A i \in 1 .. Len(to_answer'[s]) : s \in MASTERS[to_answer'[s][i]]
    <3>1. \A i \in 1 .. Len(A) : s \in MASTERS[A[i]]
      BY <1>2, <1>8 DEF RequestsAreAllowed
    <3>2. \A i \in 1 .. Len(Tail(A)) : i + 1 \in 1 .. Len(A) /\ Tail(A)[i] = A[i + 1]
      BY <1>8, <1>9
    <3> QED
      BY <1>12, <3>1, <3>2
  <2>3. \A k \in Masters :
          /\ \A i \in 1 .. Len(asked'[k]) : asked'[k][i] \in MASTERS[k]
          /\ addr_reg'[k] = <<>> \/ \E t \in MASTERS[k] : addr_reg'[k] = <<t>>
    BY <1>2, <1>4, <1>11, <2>1 DEF RequestsAreAllowed
  <2>4. \A t \in Slaves :
          /\ \A i \in 1 .. Len(to_answer'[t]) : t \in MASTERS[to_answer'[t][i]]
          /\ taken'[t] = <<>> \/ (writes /\ \E k \in Masters : taken'[t] = <<k>> /\ t \in MASTERS[k])
          /\ aw_reg'[t] = <<>> \/ (writes /\ \E k \in Masters : aw_reg'[t] = <<k>> /\ t \in MASTERS[k])
    BY <1>1, <1>2, <1>12, <2>2 DEF RequestsAreAllowed
  <2> QED
    BY <1>4, <2>3, <2>4 DEF RequestsAreAllowed
<1>16. SlavesInOrder'
  <2> SUFFICES ASSUME NEW t \in Slaves, OrdersMasters(t)
               PROVE  /\ order_m_index_for_s'[Answering][t] = Pending(t)'
                      /\ writes => order_m_index_for_s'["w"][t] = taken'[t] \o aw_reg'[t]
    BY <1>4, <1>7 DEF SlavesInOrder
  <2>1. /\ order_m_index_for_s[Answering][t] = Pending(t)
        /\ writes => order_m_index_for_s["w"][t] = taken[t] \o aw_reg[t]
    BY DEF CrossInv, SlavesInOrder
  <2>2. writes => order_m_index_for_s'["w"][t] = taken'[t] \o aw_reg'[t]
    BY <1>1, <1>3, <1>4, <2>1
  <2>3. CASE t = s
    BY <1>3, <1>4, <1>13, <2>1, <2>2, <2>3
  <2>4. CASE t # s
    BY <1>3, <1>4, <1>13, <2>1, <2>2, <2>4
  <2> QED
    BY <2>3, <2>4
<1>17. MastersInOrder'
  <2> SUFFICES ASSUME NEW k \in Masters, OrdersSlaves(k)
               PROVE  asked'[k] = order_s_index_for_m'[Answering][k] \o addr_reg[k]
    BY <1>4, <1>7 DEF MastersInOrder
  <2>1. asked[k] = order_s_index_for_m[Answering][k] \o addr_reg[k]
    BY DEF CrossInv, MastersInOrder
  <2>2. CASE k = m /\ last
    <3>1. PICK F \in Seq(Slaves), R \in Seq(Slaves) : F = order_s_index_for_m[Answering][m] /\ R = addr_reg[m]
      BY <1>2, <1>3 DEF CrossTypes
    <3>2. F # <<>>
      BY <1>5, <2>2, <3>1 DEF FromSlave
    <3>3. Tail(F \o R) = Tail(F) \o R
      BY <3>1, <3>2, QueueHeads
    <3>4. order_s_index_for_m'[Answering][m] = Tail(F)
      BY <1>3, <1>4, <2>2, <3>1
    <3> QED
      BY <1>8, <1>11, <2>1, <2>2, <3>1, <3>3, <3>4
  <2>3. CASE ~(k = m /\ last)
    <3>1. order_s_index_for_m'[Answering][k] = order_s_index_for_m[Answering][k]
      BY <1>3, <1>4, <2>3
    <3>2. asked'[k] = asked[k]
      BY <1>8, <1>11, <2>3
    <3> QED
      BY <2>1, <3>1, <3>2
  <2> QED
    BY <2>2, <2>3
<1>18. AllCounted'
  <2> SUFFICES ASSUME NEW k \in Masters, ~OrdersSlaves(k), NEW t \in MASTERS[k]
               PROVE  Weighs(Pending(t)', AsSeen(k), 0, Len(asked'[k]) - Len(addr_reg[k]))
    BY <1>4, <1>7 DEF AllCounted, AsSeen
  <2>1. Weighs(Pending(t), AsSeen(k), 0, Len(asked[k]) - Len(addr_reg[k]))
    BY DEF CrossInv, AllCounted
  <2>2. t \in Slaves
    BY <1>2, NoChoice
  <2>3. CASE t # s
    <3>1. k # m
      BY <1>2, <1>5, <2>3, NoChoice
    <3> QED
      BY <1>11, <1>13, <2>1, <2>2, <2>3, <3>1
  <2>4. CASE t = s /\ ~last
    <3>1. asked'[k] = asked[k]
      BY <1>8, <1>11, <2>4
    <3> QED
      BY <1>13, <2>1, <2>4, <3>1
  <2>5. CASE t = s /\ last
    <3>1. PICK a \in Nat, b \in Nat : a = Len(asked[k]) /\ b = Len(addr_reg[k])
      <4>1. asked[k] \in Seq(Slaves) /\ addr_reg[k] \in Seq(Slaves)
        BY <1>2 DEF CrossTypes
      <4> QED
        BY <4>1, LenProperties
    <3>2. AsSeen(k) \in [Masters -> Int] /\ AsSeen(k)[m] = (IF k = m THEN 1 ELSE 0)
      BY DEF AsSeen
    <3>3. PICK B \in Seq(Masters), w \in [Masters -> Int], base \in Int, n \in Int :
             /\ B = A \o P /\ w = AsSeen(k) /\ base = 0 /\ n = a - b /\ Weighs(B, w, base, n)
      <4>1. a - b \in Int /\ 0 \in Int
        BY <3>1
      <4> QED
        BY <1>9, <1>13, <2>1, <2>5, <3>1, <3>2, <4>1
    <3>4. B # <<>> /\ Head(B) = m
      BY <1>6, <1>8, <1>9, <3>3
    <3>5. PICK v \in Int : v = w[m] /\ v = (IF k = m THEN 1 ELSE 0)
      BY <3>2, <3>3
    <3>6. Weighs(Tail(B), w, base + v, n)
      BY <3>3, <3>4, <3>5, WeightOfTail
    <3>7. Weighs(Tail(B), w, (base + v) + (-v), n + (-v))
      <4>1. Tail(B) \in Seq(Masters) /\ base + v \in Int /\ -v \in Int
        BY <3>3, <3>4, <3>5, HeadTailProperties
      <4> QED
        BY <3>3, <3>6, <4>1, WeightShifts
    <3>8. (base + v) + (-v) = 0
      BY <3>3, <3>5
    <3>9. n + (-v) = Len(asked'[k]) - b
      <4>1. CASE k = m
        <5>1. Len(asked'[k]) = a - 1
          BY <1>8, <1>10, <1>11, <2>5, <3>1, <4>1
        <5>2. v = 1 /\ (a - b) + (-1) = (a - 1) - b
          BY <3>1, <3>5, <4>1
        <5> QED
          BY <3>3, <5>1, <5>2
      <4>2. CASE k # m
        <5>1. Len(asked'[k]) = a
          BY <1>11, <3>1, <4>2
        <5>2. v = 0 /\ (a - b) + (-0) = a - b
          BY <3>1, <3>5, <4>2
        <5> QED
          BY <3>3, <5>1, <5>2
      <4> QED
        BY <4>1, <4>2
    <3> QED
      BY <1>13, <2>5, <3>1, <3>3, <3>7, <3>8, <3>9
  <2> QED
    BY <2>3, <2>4, <2>5
<1> QED
  BY <1>4, <1>14, <1>15, <1>16, <1>17, <1>18 DEF CrossInv

LEMMA TakeKeeps ==
  ASSUME CrossInv, NEW m \in Masters, NEW s \in Slaves, TakeWord(s, m)
  PROVE  CrossInv'
<1>1. PICK last \in BOOLEAN : last <=> w_reg[m][1]
  OBVIOUS
<1>2. PICK own : own = IF taken[s] = <<>> THEN aw_reg[s] ELSE taken[s]
  OBVIOUS
<1>3. /\ writes /\ own # <<>>
      /\ PassWord("w", s, m, last)
      /\ aw_reg' = IF taken[s] = <<>> THEN [aw_reg EXCEPT ![s] = <<>>] ELSE aw_reg
      /\ taken' = [taken EXCEPT ![s] = IF last THEN Tail(own) ELSE own]
      /\ to_answer' = IF last THEN [to_answer EXCEPT ![s] = Append(to_answer[s], Head(own))]
                      ELSE to_answer
      /\ asked' = asked
  BY <1>1, <1>2 DEF TakeWord, PassWord
<1>4. CrossTypes /\ RequestsAreAllowed
  BY DEF CrossInv
<1>5. /\ "w" \in Channels /\ "w" \in Wires /\ "b" \in Wires /\ Answering = "b" /\ "b" # "w"
  BY <1>3 DEF Answering, Channels, Wires
<1>6. /\ MASTERS' = MASTERS /\ writes' = writes /\ addr_reg' = addr_reg
      /\ order_m_index_for_s' \in [Wires -> [Slaves -> Seq(Masters)]]
      /\ order_s_index_for_m' \in [Wires -> [Masters -> Seq(Slaves)]]
      /\ mid' \in [Wires -> SUBSET (Slaves \X Masters)]
      /\ \A d \in Wires, t \in Slaves : order_m_index_for_s'[d][t] =
             IF last /\ OrdersMasters(s) /\ d = "w" /\ t = s
             THEN Tail(order_m_index_for_s["w"][s]) ELSE order_m_index_for_s[d][t]
      /\ \A d \in Wires, k \in Masters : order_s_index_for_m'[d][k] =
             IF last /\ OrdersSlaves(m) /\ d = "w" /\ k = m
             THEN Tail(order_s_index_for_m["w"][m]) ELSE order_s_index_for_m[d][k]
      /\ PacketsPass'
  BY <1>3, <1>5, PassKeeps
<1>7. /\ Answering' = Answering
      /\ \A t : OrdersMasters(t)' <=> OrdersMasters(t)
      /\ \A k : OrdersSlaves(k)' <=> OrdersSlaves(k)
  BY <1>6, ChoicesStay
<1>8. PICK A \in Seq(Masters), T \in Seq(Masters), W \in Seq(Masters) :
         A = to_answer[s] /\ T = taken[s] /\ W = aw_reg[s]
  BY <1>4 DEF CrossTypes
<1>9. PICK h \in Masters : own = <<h>> /\ s \in MASTERS[h]
  BY <1>2, <1>3, <1>4 DEF RequestsAreAllowed
<1>10. PICK rest \in Seq(Masters) : rest = aw_reg'[s] /\ T \o W = <<h>> \o rest
                                    /\ (rest = <<>> \/ rest = W)
  <2>1. CASE T = <<>>
    <3>1. aw_reg'[s] = <<>> /\ W = <<h>>
      BY <1>2, <1>3, <1>4, <1>8, <1>9, <2>1 DEF CrossTypes
    <3>2. T \o W = W /\ W \o <<>> = W
      BY <1>8, <2>1, QueueJoins
    <3> QED
      BY <3>1, <3>2
  <2>2. CASE T # <<>>
    BY <1>2, <1>3, <1>8, <1>9, <2>2
  <2> QED
    BY <2>1, <2>2
<1>11. /\ taken'[s] = (IF last THEN <<>> ELSE <<h>>)
       /\ to_answer'[s] = (IF last THEN Append(A, h) ELSE A)
       /\ \A t \in Slaves : t # s => to_answer'[t] = to_answer[t] /\ taken'[t] = taken[t]
                                     /\ aw_reg'[t] = aw_reg[t]
       /\ to_answer' \in [Slaves -> Seq(Masters)] /\ taken' \in [Slaves -> Seq(Masters)]
       /\ aw_reg' \in [Slaves -> Seq(Masters)]
  <2>1. Head(own) = h /\ Tail(own) = <<>> /\ own \in Seq(Masters) /\ <<>> \in Seq(Masters)
    BY <1>9
  <2>2. Append(A, h) \in Seq(Masters)
    BY <1>8, <1>9, AppendProperties
  <2>3. aw_reg' \in [Slaves -> Seq(Masters)] /\ \A t \in Slaves : t # s => aw_reg'[t] = aw_reg[t]
    BY <1>3, <1>4, <2>1 DEF CrossTypes
  <2>4. /\ taken' \in [Slaves -> Seq(Masters)] /\ \A t \in Slaves : t # s => taken'[t] = taken[t]
        /\ taken'[s] = (IF last THEN <<>> ELSE <<h>>)
    BY <1>3, <1>4, <1>9, <2>1 DEF CrossTypes
  <2>5. /\ to_answer' \in [Slaves -> Seq(Masters)] /\ \A t \in Slaves : t # s => to_answer'[t] = to_answer[t]
        /\ to_answer'[s] = (IF last THEN Append(A, h) ELSE A)
    BY <1>3, <1>4, <1>8, <2>1, <2>2 DEF CrossTypes
  <2> QED
    BY <2>3, <2>4, <2>5
<1>12. <<h>> \in Seq(Masters) /\ <<>> \o rest = rest /\ Tail(<<h>> \o rest) = rest
       /\ Append(A, h) \o rest = A \o (<<h>> \o rest)
  <2>1. <<h>> \in Seq(Masters) /\ <<h>> # <<>> /\ Tail(<<h>>) = <<>>
    BY <1>9
  <2>2. <<>> \o rest = rest
    BY <1>10, QueueJoins
  <2>3. Tail(<<h>> \o rest) = Tail(<<h>>) \o rest
    BY <1>10, <2>1, QueueHeads
  <2>4. Append(A, h) \o rest = A \o (<<h>> \o rest)
    <3>1. A \in Seq(Masters) /\ rest \in Seq(Masters) /\ h \in Masters
      BY <1>8, <1>9, <1>10
    <3> QED
      BY <3>1, QueueMoves
  <2> QED
    BY <2>1, <2>2, <2>3, <2>4
<1>13. /\ taken'[s] \o aw_reg'[s] = (IF last THEN Tail(taken[s] \o aw_reg[s]) ELSE taken[s] \o aw_reg[s])
       /\ Pending(s)' = Pending(s)
       /\ \A t \in Slaves : t # s => Pending(t)' = Pending(t) /\ taken'[t] = taken[t] /\ aw_reg'[t] = aw_reg[t]
  <2>1. CASE last
    BY <1>8, <1>10, <1>11, <1>12, <2>1 DEF Pending
  <2>2. CASE ~last
    BY <1>8, <1>10, <1>11, <1>12, <2>2 DEF Pending
  <2> QED
    BY <2>1, <2>2
<1>14. CrossTypes'
  BY <1>3, <1>4, <1>6, <1>11 DEF CrossTypes
<1>15. RequestsAreAllowed'
  <2>1. \A i \in 1 .. Len(to_answer'[s]) : s \in MASTERS[to_answer'[s][i]]
    <3>1. \A i \in 1 .. Len(A) : s \in MASTERS[A[i]]
      BY <1>4, <1>8 DEF RequestsAreAllowed
    <3>2. Len(Append(A, h)) = Len(A) + 1 /\ \A i \in 1 .. Len(A) + 1 :
             Append(A, h)[i] = IF i <= Len(A) THEN A[i] ELSE h
      BY <1>8, <1>9
    <3>3. Len(A) \in Nat
      BY <1>8
    <3>4. \A i \in 1 .. Len(Append(A, h)) : s \in MASTERS[Append(A, h)[i]]
      BY <1>9, <3>1, <3>2, <3>3
    <3> QED
      BY <1>11, <3>1, <3>4
  <2>2. taken'[s] = <<>> \/ (writes /\ \E k \in Masters : taken'[s] = <<k>> /\ s \in MASTERS[k])
    BY <1>3, <1>9, <1>11
  <2>3. aw_reg'[s] = <<>> \/ (writes /\ \E k \in Masters : aw_reg'[s] = <<k>> /\ s \in MASTERS[k])
    BY <1>4, <1>8, <1>10 DEF RequestsAreAllowed
  <2>4. \A t \in Slaves :
          /\ \A i \in 1 .. Len(to_answer'[t]) : t \in MASTERS[to_answer'[t][i]]
          /\ taken'[t] = <<>> \/ (writes /\ \E k \in Masters : taken'[t] = <<k>> /\ t \in MASTERS[k])
          /\ aw_reg'[t] = <<>> \/ (writes /\ \E k \in Masters : aw_reg'[t] = <<k>> /\ t \in MASTERS[k])
    <3> SUFFICES ASSUME NEW t \in Slaves
         PROVE  /\ \A i \in 1 .. Len(to_answer'[t]) : t \in MASTERS[to_answer'[t][i]]
                /\ taken'[t] = <<>> \/ (writes /\ \E k \in Masters : taken'[t] = <<k>> /\ t \in MASTERS[k])
                /\ aw_reg'[t] = <<>> \/ (writes /\ \E k \in Masters : aw_reg'[t] = <<k>> /\ t \in MASTERS[k])
      OBVIOUS
    <3>1. CASE t = s
      BY <2>1, <2>2, <2>3, <3>1
    <3>2. CASE t # s
      BY <1>4, <1>11, <3>2 DEF RequestsAreAllowed
    <3> QED
      BY <3>1, <3>2
  <2>5. \A k \in Masters :
          /\ \A i \in 1 .. Len(asked'[k]) : asked'[k][i] \in MASTERS[k]
          /\ addr_reg'[k] = <<>> \/ \E t \in MASTERS[k] : addr_reg'[k] = <<t>>
    BY <1>3, <1>4, <1>6 DEF RequestsAreAllowed
  <2> QED
    BY <1>6, <2>4, <2>5 DEF RequestsAreAllowed
<1>16. SlavesInOrder'
  <2> SUFFICES ASSUME NEW t \in Slaves, OrdersMasters(t)
               PROVE  /\ order_m_index_for_s'["b"][t] = Pending(t)'
                      /\ order_m_index_for_s'["w"][t] = taken'[t] \o aw_reg'[t]
    BY <1>5, <1>6, <1>7 DEF SlavesInOrder
  <2>1. /\ order_m_index_for_s["b"][t] = Pending(t)
        /\ order_m_index_for_s["w"][t] = taken[t] \o aw_reg[t]
    BY <1>3, <1>5 DEF CrossInv, SlavesInOrder
  <2>2. order_m_index_for_s'["b"][t] = Pending(t)'
    BY <1>5, <1>6, <1>13, <2>1
  <2>3. CASE t = s
    <3>1. order_m_index_for_s'["w"][s] = IF last THEN Tail(order_m_index_for_s["w"][s]) ELSE order_m_index_for_s["w"][s]
      BY <1>5, <1>6, <2>3
    <3> QED
      BY <1>13, <2>1, <2>2, <2>3, <3>1
  <2>4. CASE t # s
    BY <1>5, <1>6, <1>13, <2>1, <2>2, <2>4
  <2> QED
    BY <2>3, <2>4
<1>17. MastersInOrder'
  <2>1. \A k \in Masters : order_s_index_for_m'["b"][k] = order_s_index_for_m["b"][k]
    BY <1>5, <1>6
  <2> QED
    BY <1>3, <1>5, <1>6, <1>7, <2>1 DEF CrossInv, MastersInOrder
<1>18. AllCounted'
  <2> SUFFICES ASSUME NEW k \in Masters, ~OrdersSlaves(k), NEW t \in MASTERS[k]
               PROVE  Weighs(Pending(t)', AsSeen(k), 0, Len(asked[k]) - Len(addr_reg[k]))
    BY <1>3, <1>6, <1>7 DEF AllCounted, AsSeen
  <2>1. Weighs(Pending(t), AsSeen(k), 0, Len(asked[k]) - Len(addr_reg[k]))
    BY DEF CrossInv, AllCounted
  <2>2. t \in Slaves
    BY <1>4, NoChoice
  <2>3. Pending(t)' = Pending(t)
    BY <1>13, <2>2
  <2> QED
    BY <2>1, <2>3
<1> QED
  BY <1>6, <1>14, <1>15, <1>16, <1>17, <1>18 DEF CrossInv

LEMMA CrossKeeps ==
  ASSUME CrossInv, CrossNext
  PROVE  CrossInv'
<1>1. CASE \E m \in Masters, s \in Slaves : Ask(m, s) \/ Dispatch(m, s)
  BY <1>1, AskKeeps, DispatchKeeps
<1>2. CASE \E m \in Masters, last \in BOOLEAN : SendWord(m, last)
  BY <1>2, CrossStays DEF SendWord, routeVars
<1>3. CASE \E s \in Slaves : CrossSlave(s)
  BY <1>3, TakeKeeps, AnswerKeeps DEF CrossSlave
<1> QED
  BY <1>1, <1>2, <1>3 DEF CrossNext

LEMMA CrossStutters ==
  ASSUME CrossInv, UNCHANGED crossVars
  PROVE  CrossInv'
BY CrossStays DEF crossVars, routeVars

LEMMA CrossStarts ==
  ASSUME CrossInit
  PROVE  CrossInv
<1>1. CrossTypes
  <2>1. <<>> \in Seq(Slaves) /\ <<>> \in Seq(Masters)
    OBVIOUS
  <2> QED
    BY <2>1 DEF CrossInit, CrossTypes, Wires
<1>2. RequestsAreAllowed
  BY DEF CrossInit, RequestsAreAllowed
<1>3. \A s \in Slaves : Pending(s) = <<>> /\ taken[s] \o aw_reg[s] = <<>>
  <2>1. <<>> \o <<>> = <<>>
    OBVIOUS
  <2> QED
    BY <2>1 DEF CrossInit, Pending
<1>4. SlavesInOrder
  BY <1>3 DEF CrossInit, SlavesInOrder, Answering
<1>5. MastersInOrder
  <2>1. <<>> \o <<>> = <<>>
    OBVIOUS
  <2> QED
    BY <2>1 DEF CrossInit, MastersInOrder, Answering
<1>6. AllCounted
  <2> SUFFICES ASSUME NEW m \in Masters, NEW s \in MASTERS[m]
               PROVE  Weighs(Pending(s), AsSeen(m), 0, Len(asked[m]) - Len(addr_reg[m]))
    BY DEF AllCounted
  <2>1. s \in Slaves
    BY <1>1, NoChoice
  <2>2. asked[m] = <<>> /\ addr_reg[m] = <<>>
    BY DEF CrossInit
  <2>3. Len(asked[m]) - Len(addr_reg[m]) = 0
    BY <2>2
  <2> QED
    <3>1. PICK base \in Int : base = 0
      OBVIOUS
    <3>2. Weighs(<<>>, AsSeen(m), base, base)
      BY <3>1, WeightOfNone
    <3> QED
      BY <1>3, <2>1, <2>3, <3>1, <3>2
<1>7. PacketsPass
  BY DEF CrossInit, PacketsPass, Channels
<1> QED
  BY <1>1, <1>2, <1>4, <1>5, <1>6, <1>7 DEF CrossInv

---------------------------------------------------------------------------
(* The stages together: a step is one of a stage and leaves the others alone *)

\* The invariants of the components, of which only one moves in a behaviour.
AnswersInv ==
    /\ LiteInv /\ AvalonInv /\ ReorderInv
    /\ WriteInv
    /\ CrossInv

LEMMA AnswersShow ==
  ASSUME AnswersInv
  PROVE  AnswersMeetRequests
<1>1. MASTERS \in Accesses
  BY DEF AnswersInv, CrossInv, CrossTypes
<1>2. RoutedToItsSlave
  BY <1>1, RoutesShow
<1>3. WordsMeetTheirRequest
  BY CrossShows DEF AnswersInv
<1>4. BeatsMatchBursts
  BY LiteShows DEF AnswersInv
<1>5. AvalonBurstsMatch
  BY AvalonShows DEF AnswersInv
<1>6. WordsAreReordered
  BY ReorderShows DEF AnswersInv
<1>7. WritesMeetTheirAddress
  BY WriteShows DEF AnswersInv
<1> QED
  BY <1>2, <1>3, <1>4, <1>5, <1>6, <1>7 DEF AnswersMeetRequests

LEMMA AnswersStart ==
  ASSUME Init
  PROVE  AnswersInv
<1>1. LiteInit /\ AvalonInit /\ ReorderInit
  BY DEF Init, AdapterInit
<1>2. WriteInit
  BY DEF Init, LsuInit
<1>3. CrossInit
  BY DEF Init
<1> QED
  BY <1>1, <1>2, <1>3, LiteStarts, AvalonStarts, ReorderStarts, WriteStarts, CrossStarts
  DEF AnswersInv

\* The bridges, of which one takes the step.
LEMMA BridgesKeep ==
  ASSUME ~EARLY_ID, ~AR_STALLS, LiteInv, AvalonInv, ReorderInv, NEW rd \in BOOLEAN, AdapterNext(rd)
  PROVE  LiteInv' /\ AvalonInv' /\ ReorderInv'
<1>1. CASE LiteNext(rd) /\ UNCHANGED <<avalonVars, masterVars, reorderVars>>
  <2>1. LiteInv'
    BY <1>1, LiteKeeps
  <2> QED
    BY <1>1, <2>1, AvalonStutters, ReorderStutters
<1>2. CASE /\ \E b_rd, wait \in BOOLEAN : AvalonNext(rd, b_rd, wait)
           /\ UNCHANGED <<liteVars, masterVars, reorderVars>>
  <2>1. AvalonInv'
    BY <1>2, AvalonKeeps
  <2> QED
    BY <1>2, <2>1, LiteStutters, ReorderStutters
<1>3. CASE MasterNext /\ UNCHANGED <<liteVars, avalonVars, reorderVars>>
  BY <1>3, LiteStutters, AvalonStutters, ReorderStutters
<1>4. CASE /\ \E addr_rd, leaves \in BOOLEAN : ReorderNext(addr_rd, leaves /\ rd)
           /\ UNCHANGED <<liteVars, avalonVars, masterVars>>
  <2>1. PICK addr_rd \in BOOLEAN, leaves \in BOOLEAN : ReorderNext(addr_rd, leaves /\ rd)
    BY <1>4
  <2>2. (leaves /\ rd) \in BOOLEAN
    OBVIOUS
  <2>3. ReorderInv'
    BY <2>1, <2>2, ReorderKeeps
  <2> QED
    BY <1>4, <2>3, LiteStutters, AvalonStutters
<1> QED
  BY <1>1, <1>2, <1>3, <1>4 DEF AdapterNext

LEMMA BridgesStutter ==
  ASSUME LiteInv, AvalonInv, ReorderInv, UNCHANGED adapterVars
  PROVE  LiteInv' /\ AvalonInv' /\ ReorderInv'
BY LiteStutters, AvalonStutters, ReorderStutters DEF adapterVars

LEMMA AnswersStutter ==
  ASSUME AnswersInv, UNCHANGED <<adapterVars, writeVars, crossVars>>
  PROVE  AnswersInv'
BY BridgesStutter, WriteStutters, CrossStutters DEF AnswersInv

\* The stages whose consumer is ready or not as rd tells.
LEMMA OutKeeps ==
  ASSUME ~EARLY_ID, ~AR_STALLS, AnswersInv, NEW rd \in BOOLEAN, Out(rd)
  PROVE  AnswersInv'
<1>1. CASE Reg(rd) \/ Resizer(rd) \/ Copy(rd) \/ CdcOut(rd)
  <2>1. UNCHANGED <<adapterVars, lsuVars, crossVars>>
    BY <1>1 DEF Reg, Resizer, Copy, CdcOut
  <2> QED
    BY <2>1, AnswersStutter DEF lsuVars
<1>2. CASE Bridge(rd)
  <2>1. AdapterNext(rd) /\ UNCHANGED <<writeVars, crossVars>>
    BY <1>2 DEF Bridge, lsuVars
  <2>2. LiteInv' /\ AvalonInv' /\ ReorderInv'
    BY <2>1, BridgesKeep DEF AnswersInv
  <2> QED
    BY <2>1, <2>2, WriteStutters, CrossStutters DEF AnswersInv
<1>3. CASE LsuRead(rd)
  BY <1>3, AnswersStutter DEF LsuRead
<1>4. CASE LsuWrite(rd)
  <2>1. UNCHANGED <<adapterVars, crossVars>> /\ \E b_rd, aw_rd \in BOOLEAN : WriteNext(b_rd, aw_rd, rd)
    BY <1>4 DEF LsuWrite
  <2>2. WriteInv'
    BY <2>1, WriteKeeps DEF AnswersInv
  <2> QED
    BY <2>1, <2>2, BridgesStutter, CrossStutters DEF AnswersInv
<1> QED
  BY <1>1, <1>2, <1>3, <1>4 DEF Out

LEMMA AnswersKeep ==
  ASSUME ~EARLY_ID, ~AR_STALLS, AnswersInv, [Next]_vars
  PROVE  AnswersInv'
<1>1. CASE CdcIn
  <2>1. UNCHANGED <<adapterVars, lsuVars, crossVars>>
    BY <1>1 DEF CdcIn
  <2> QED
    BY <2>1, AnswersStutter DEF lsuVars
<1>2. CASE Crossbar
  <2>1. CrossNext /\ UNCHANGED <<adapterVars, writeVars>>
    BY <1>2 DEF Crossbar, streamVars, lsuVars
  <2> QED
    BY <2>1, CrossKeeps, BridgesStutter, WriteStutters DEF AnswersInv
<1>3. CASE \E rd \in ConsumerRd : Out(rd)
  BY <1>3, OutKeeps DEF ConsumerRd
<1>4. CASE UNCHANGED vars
  BY <1>4, AnswersStutter DEF vars, streamVars, lsuVars
<1> QED
  BY <1>1, <1>2, <1>3, <1>4 DEF Next

\* Whatever passes between a master and a slave belongs to the oldest request of both, in
\* the crossbar, the bridges, the reorder buffer and the write aggregator, whatever the
\* access of the masters, the lengths of bursts and lines and the depths of the queues.  No
\* write is offered to the bridge to Avalon while a read waits for its room (AR_STALLS), and
\* no id of the reorder buffer is used again before its word was read (EARLY_ID).
THEOREM AnswersAlwaysMeet ==
  ASSUME ~EARLY_ID, ~AR_STALLS
  PROVE  Spec => []AnswersMeetRequests
<1>1. Init => AnswersInv
  BY AnswersStart
<1>2. AnswersInv /\ [Next]_vars => AnswersInv'
  BY AnswersKeep
<1>3. AnswersInv => AnswersMeetRequests
  BY AnswersShow
<1> QED
  BY <1>1, <1>2, <1>3, PTL DEF Spec

---------------------------------------------------------------------------
(* The contents of the replaying fifo *)

CopyWords == [d : Data \cup {Undef}, last : BOOLEAN, id : {OwnId, OtherId}]

\* The words w[lo] .. w[n - 1] to be sent, and w[0] .. w[lo - 1] that were sent, of which the
\* first frame is a repetition when rep.
Other(word) == [word EXCEPT !.id = OtherId]
Told(word, rep) == IF rep THEN Other(word) ELSE word
InFirst(w, lo, k) == \A i \in lo .. k - 1 : ~w[i].last
Rest(w, lo, n, rep) ==
    [j \in 1 .. n - lo |-> IF InFirst(w, lo, lo + j - 1) THEN Told(w[lo + j - 1], rep) ELSE w[lo + j - 1]]
Past(w, lo, rep) == [j \in 1 .. lo |-> Told(w[j - 1], rep)]

LEMMA OtherIs ==
  ASSUME NEW word \in CopyWords
  PROVE  /\ Other(word) \in CopyWords /\ Other(Other(word)) = Other(word)
         /\ Other(word).last = word.last
         /\ \A rep : Told(word, rep) \in CopyWords /\ Other(Told(word, rep)) = Other(word)
                     /\ Told(word, rep).last = word.last
<1>1. PICK d \in Data \cup {Undef}, last \in BOOLEAN, id \in {OwnId, OtherId} :
         word = [d |-> d, last |-> last, id |-> id]
  BY DEF CopyWords
<1>2. Other(word) = [d |-> d, last |-> last, id |-> OtherId]
  BY <1>1 DEF Other
<1>3. Other(Other(word)) = [d |-> d, last |-> last, id |-> OtherId]
  BY <1>2 DEF Other
<1>4. Other(word) \in CopyWords /\ Other(Other(word)) = Other(word) /\ Other(word).last = word.last
  BY <1>1, <1>2, <1>3 DEF CopyWords
<1> QED
  BY <1>4 DEF Told

IsRest(r, w, lo, n, rep) ==
    /\ r = Rest(w, lo, n, rep) /\ r \in Seq(CopyWords) /\ Len(r) = n - lo
    /\ \A j \in 1 .. n - lo :
          r[j] = IF InFirst(w, lo, lo + j - 1) THEN Told(w[lo + j - 1], rep) ELSE w[lo + j - 1]
IsPast(p, w, lo, rep) ==
    /\ p = Past(w, lo, rep) /\ p \in Seq(CopyWords) /\ Len(p) = lo
    /\ \A j \in 1 .. lo : p[j] = Told(w[j - 1], rep)

LEMMA RestIs ==
  ASSUME NEW n \in Nat, NEW lo \in 0 .. n, NEW w \in [0 .. n - 1 -> CopyWords], NEW rep
  PROVE  IsRest(Rest(w, lo, n, rep), w, lo, n, rep) /\ IsPast(Past(w, lo, rep), w, lo, rep)
<1>1. \A j \in 1 .. n - lo : lo + j - 1 \in 0 .. n - 1
  OBVIOUS
<1>2. \A i \in 0 .. n - 1 : w[i] \in CopyWords /\ Told(w[i], rep) \in CopyWords
  BY OtherIs
<1>3. PICK r : r = Rest(w, lo, n, rep)
  OBVIOUS
<1>4. r \in [1 .. n - lo -> CopyWords]
  BY <1>1, <1>2, <1>3 DEF Rest
<1>5. PICK p : p = Past(w, lo, rep)
  OBVIOUS
<1>6. \A j \in 1 .. lo : j - 1 \in 0 .. n - 1
  OBVIOUS
<1>7. p \in [1 .. lo -> CopyWords]
  BY <1>2, <1>5, <1>6 DEF Past
<1>8. n - lo \in Nat /\ lo \in Nat
  OBVIOUS
<1>9. r \in Seq(CopyWords) /\ Len(r) = n - lo /\ p \in Seq(CopyWords) /\ Len(p) = lo
  BY <1>4, <1>7, <1>8
<1>10. /\ \A j \in 1 .. n - lo :
            r[j] = IF InFirst(w, lo, lo + j - 1) THEN Told(w[lo + j - 1], rep) ELSE w[lo + j - 1]
       /\ \A j \in 1 .. lo : p[j] = Told(w[j - 1], rep)
  BY <1>3, <1>5 DEF Rest, Past
<1> QED
  BY <1>3, <1>5, <1>9, <1>10 DEF IsRest, IsPast

\* The first word leaves.
LeavesFirst(w, lo, n, rep) ==
    /\ Rest(w, lo, n, rep) # <<>>
    /\ Head(Rest(w, lo, n, rep)) = Told(w[lo], rep)
    /\ Tail(Rest(w, lo, n, rep)) =
          IF w[lo].last THEN Rest(w, lo + 1, n, FALSE) ELSE Rest(w, lo + 1, n, rep)
    /\ Append(Past(w, lo, rep), Told(w[lo], rep)) = Past(w, lo + 1, rep)

LEMMA FirstLeaves ==
  ASSUME NEW n \in Nat, NEW lo \in 0 .. n - 1, NEW w \in [0 .. n - 1 -> CopyWords], NEW rep
  PROVE  LeavesFirst(w, lo, n, rep)
<1>1. lo \in 0 .. n /\ lo + 1 \in 0 .. n /\ n - lo \in Nat \ {0} /\ n - (lo + 1) = (n - lo) - 1
  OBVIOUS
<1>2. PICK r \in Seq(CopyWords) :
         /\ r = Rest(w, lo, n, rep) /\ Len(r) = n - lo
         /\ \A j \in 1 .. n - lo :
               r[j] = IF InFirst(w, lo, lo + j - 1) THEN Told(w[lo + j - 1], rep) ELSE w[lo + j - 1]
  <2>1. IsRest(Rest(w, lo, n, rep), w, lo, n, rep)
    BY <1>1, RestIs
  <2> QED
    BY <2>1 DEF IsRest
<1>3. r # <<>> /\ Head(r) = r[1]
  BY <1>1, <1>2
<1>4. InFirst(w, lo, lo)
  BY DEF InFirst
<1>5. r[1] = Told(w[lo], rep)
  <2>1. 1 \in 1 .. n - lo /\ lo + 1 - 1 = lo
    BY <1>1
  <2> QED
    BY <1>2, <1>4, <2>1
<1>6. PICK t \in Seq(CopyWords) :
         t = Tail(r) /\ Len(t) = n - (lo + 1) /\ \A j \in 1 .. n - (lo + 1) : t[j] = r[j + 1]
  <2>1. Tail(r) \in Seq(CopyWords) /\ Len(Tail(r)) = n - (lo + 1)
    BY <1>1, <1>2, <1>3, HeadTailProperties
  <2>2. \A j \in 1 .. n - (lo + 1) : Tail(r)[j] = r[j + 1]
    BY <1>1, <1>2, <1>3
  <2> QED
    BY <2>1, <2>2
<1>7. ASSUME NEW q, (~w[lo].last /\ q = rep) \/ (w[lo].last /\ q = FALSE)
      PROVE  t = Rest(w, lo + 1, n, q)
  <2>1. PICK u \in Seq(CopyWords) :
           /\ u = Rest(w, lo + 1, n, q) /\ Len(u) = n - (lo + 1)
           /\ \A j \in 1 .. n - (lo + 1) :
                 u[j] = IF InFirst(w, lo + 1, (lo + 1) + j - 1) THEN Told(w[(lo + 1) + j - 1], q)
                        ELSE w[(lo + 1) + j - 1]
    <3>1. IsRest(Rest(w, lo + 1, n, q), w, lo + 1, n, q)
      BY <1>1, RestIs
    <3> QED
      BY <3>1 DEF IsRest
  <2>2. ASSUME NEW j \in 1 .. n - (lo + 1)
        PROVE  t[j] = u[j]
    <3>1. PICK k \in Int : k = lo + j /\ k = (lo + 1) + j - 1 /\ k = lo + (j + 1) - 1 /\ k > lo
      OBVIOUS
    <3>2. j + 1 \in 1 .. n - lo
      BY <1>1
    <3>3. t[j] = IF InFirst(w, lo, k) THEN Told(w[k], rep) ELSE w[k]
      BY <1>2, <1>6, <3>1, <3>2
    <3>4. u[j] = IF InFirst(w, lo + 1, k) THEN Told(w[k], q) ELSE w[k]
      BY <2>1, <3>1
    <3>5. InFirst(w, lo, k) <=> ~w[lo].last /\ InFirst(w, lo + 1, k)
      <4>1. \A i \in lo .. k - 1 : i = lo \/ i \in lo + 1 .. k - 1
        OBVIOUS
      <4>2. lo \in lo .. k - 1 /\ \A i \in lo + 1 .. k - 1 : i \in lo .. k - 1
        BY <3>1
      <4> QED
        BY <4>1, <4>2 DEF InFirst
    <3> QED
      BY <1>7, <3>3, <3>4, <3>5 DEF Told
  <2> QED
    BY <1>6, <2>1, <2>2, SeqEqual
<1>8. Tail(r) = IF w[lo].last THEN Rest(w, lo + 1, n, FALSE) ELSE Rest(w, lo + 1, n, rep)
  <2>1. CASE w[lo].last
    <3>1. t = Rest(w, lo + 1, n, FALSE)
      BY <1>7, <2>1
    <3> QED
      BY <1>6, <2>1, <3>1
  <2>2. CASE ~w[lo].last
    <3>1. t = Rest(w, lo + 1, n, rep)
      BY <1>7, <2>2
    <3> QED
      BY <1>6, <2>2, <3>1
  <2> QED
    BY <2>1, <2>2
<1>9. Append(Past(w, lo, rep), Told(w[lo], rep)) = Past(w, lo + 1, rep)
  <2>1. PICK p \in Seq(CopyWords) :
           p = Past(w, lo, rep) /\ Len(p) = lo /\ \A j \in 1 .. lo : p[j] = Told(w[j - 1], rep)
    <3>1. IsPast(Past(w, lo, rep), w, lo, rep)
      BY <1>1, RestIs
    <3> QED
      BY <3>1 DEF IsPast
  <2>2. PICK u \in Seq(CopyWords) : u = Past(w, lo + 1, rep) /\ Len(u) = lo + 1
           /\ \A j \in 1 .. lo + 1 : u[j] = Told(w[j - 1], rep)
    <3>1. IsPast(Past(w, lo + 1, rep), w, lo + 1, rep)
      BY <1>1, RestIs
    <3> QED
      BY <3>1 DEF IsPast
  <2>3. PICK v \in CopyWords : v = Told(w[lo], rep)
    BY OtherIs
  <2>4. PICK a \in Seq(CopyWords) : a = Append(p, v)
    BY AppendProperties
  <2>5. Len(a) = lo + 1 /\ a[lo + 1] = v /\ \A j \in 1 .. lo : a[j] = p[j]
    BY <2>1, <2>4
  <2>6. ASSUME NEW j \in 1 .. lo + 1
        PROVE  a[j] = u[j]
    <3>1. j \in 1 .. lo \/ (j = lo + 1 /\ j - 1 = lo)
      OBVIOUS
    <3> QED
      BY <2>1, <2>2, <2>3, <2>5, <3>1
  <2>7. a = u
    BY <2>2, <2>5, <2>6, SeqEqual
  <2> QED
    BY <2>1, <2>2, <2>3, <2>4, <2>7
<1> QED
  BY <1>2, <1>3, <1>5, <1>8, <1>9 DEF LeavesFirst

\* The frame was sent, and its words are released.
LEMMA FrameIsOver ==
  ASSUME NEW n \in Nat, NEW f \in 0 .. n, NEW w \in [0 .. n - 1 -> CopyWords],
         NEW x \in [0 .. n - f - 1 -> CopyWords], \A i \in 0 .. n - f - 1 : x[i] = w[f + i]
  PROVE  Rest(w, f, n, FALSE) = Rest(x, 0, n - f, FALSE) /\ \A rep : Past(x, 0, rep) = <<>>
<1>1. n - f \in Nat /\ 0 \in 0 .. n - f /\ (n - f) - 0 = n - f
  OBVIOUS
<1>2. PICK r \in Seq(CopyWords) :
         /\ r = Rest(w, f, n, FALSE) /\ Len(r) = n - f
         /\ \A j \in 1 .. n - f : r[j] = w[f + j - 1]
  <2>1. IsRest(Rest(w, f, n, FALSE), w, f, n, FALSE)
    BY RestIs
  <2> QED
    BY <2>1 DEF IsRest, Told
<1>3. PICK u \in Seq(CopyWords) :
         /\ u = Rest(x, 0, n - f, FALSE) /\ Len(u) = n - f
         /\ \A j \in 1 .. n - f : u[j] = x[0 + j - 1]
  <2>1. IsRest(Rest(x, 0, n - f, FALSE), x, 0, n - f, FALSE)
    BY <1>1, RestIs
  <2> QED
    BY <1>1, <2>1 DEF IsRest, Told
<1>4. \A j \in 1 .. n - f : j - 1 \in 0 .. n - f - 1 /\ f + (j - 1) = f + j - 1 /\ 0 + j - 1 = j - 1
  OBVIOUS
<1>5. \A j \in 1 .. n - f : r[j] = u[j]
  BY <1>2, <1>3, <1>4
<1>6. \A rep : Past(x, 0, rep) = <<>>
  BY DEF Past
<1>7. r = u
  BY <1>2, <1>3, <1>5, SeqEqual
<1> QED
  BY <1>2, <1>3, <1>6, <1>7

\* The frame was sent, and is sent again.
Repeats(w, f, n, rep) ==
    /\ Rest(w, 0, n, TRUE) = Renamed(Past(w, f, rep)) \o Rest(w, f, n, FALSE)
    /\ Past(w, 0, TRUE) = <<>>
    /\ Renamed(Past(w, f, rep)) \in Seq(CopyWords)

LEMMA FrameIsRepeated ==
  ASSUME NEW n \in Nat, NEW f \in 1 .. n, NEW w \in [0 .. n - 1 -> CopyWords], NEW rep,
         \A i \in 0 .. f - 2 : ~w[i].last, w[f - 1].last
  PROVE  Repeats(w, f, n, rep)
<1>1. f \in 0 .. n /\ 0 \in 0 .. n /\ n - 0 = n
  OBVIOUS
<1>2. PICK p \in Seq(CopyWords) :
         p = Past(w, f, rep) /\ Len(p) = f /\ \A j \in 1 .. f : p[j] = Told(w[j - 1], rep)
  <2>1. IsPast(Past(w, f, rep), w, f, rep)
    BY <1>1, RestIs
  <2> QED
    BY <2>1 DEF IsPast
<1>3. PICK q : q = Renamed(p)
  OBVIOUS
<1>4. \A j \in 1 .. f : w[j - 1] \in CopyWords /\ q[j] = Other(w[j - 1])
  <2>1. \A j \in 1 .. f : j - 1 \in 0 .. n - 1
    OBVIOUS
  <2>2. \A j \in 1 .. f : q[j] = Other(p[j])
    BY <1>2, <1>3 DEF Renamed, Other
  <2> QED
    BY <1>2, <2>1, <2>2, OtherIs
<1>5. q \in Seq(CopyWords) /\ Len(q) = f
  <2>1. q \in [1 .. f -> CopyWords]
    <3>1. DOMAIN q = 1 .. f /\ q = [j \in 1 .. f |-> q[j]]
      BY <1>2, <1>3 DEF Renamed
    <3> QED
      BY <1>4, <3>1, OtherIs
  <2> QED
    BY <1>1, <2>1
<1>6. PICK r \in Seq(CopyWords) :
         /\ r = Rest(w, f, n, FALSE) /\ Len(r) = n - f
         /\ \A j \in 1 .. n - f : r[j] = w[f + j - 1]
  <2>1. IsRest(Rest(w, f, n, FALSE), w, f, n, FALSE)
    BY <1>1, RestIs
  <2> QED
    BY <2>1 DEF IsRest, Told
<1>7. PICK u \in Seq(CopyWords) :
         /\ u = Rest(w, 0, n, TRUE) /\ Len(u) = n
         /\ \A j \in 1 .. n : u[j] = IF InFirst(w, 0, j - 1) THEN Told(w[j - 1], TRUE) ELSE w[j - 1]
  <2>1. \A j \in 1 .. n : 0 + j - 1 = j - 1
    OBVIOUS
  <2>2. IsRest(Rest(w, 0, n, TRUE), w, 0, n, TRUE)
    BY <1>1, RestIs
  <2> QED
    BY <1>1, <2>1, <2>2 DEF IsRest
<1>8. PICK c \in Seq(CopyWords) : c = q \o r
  BY <1>5, ConcatProperties
<1>9. Len(c) = n /\ \A j \in 1 .. n : c[j] = IF j <= f THEN q[j] ELSE r[j - f]
  <2>1. n - f \in Nat /\ f + (n - f) = n /\ f \in Nat
    OBVIOUS
  <2>2. Joined(q \o r, q, r, f, n - f)
    <3>1. PICK k \in Nat : k = n - f
      BY <2>1
    <3>2. q \in Seq(CopyWords) /\ r \in Seq(CopyWords) /\ f \in Nat /\ Len(q) = f /\ Len(r) = k
      BY <1>5, <1>6, <2>1, <3>1
    <3>3. Joined(q \o r, q, r, f, k)
      BY <3>2, ConcatIs
    <3> QED
      BY <3>1, <3>3
  <2>3. ASSUME NEW j \in 1 .. n
        PROVE  c[j] = IF j <= f THEN q[j] ELSE r[j - f]
    <3>1. CASE j <= f
      <4>1. j \in 1 .. f
        BY <3>1
      <4> QED
        BY <1>8, <2>2, <3>1, <4>1 DEF Joined
    <3>2. CASE ~(j <= f)
      <4>1. j - f \in 1 .. n - f /\ f + (j - f) = j
        BY <3>2
      <4> QED
        BY <1>8, <2>2, <3>2, <4>1 DEF Joined
    <3> QED
      BY <3>1, <3>2
  <2> QED
    BY <1>8, <2>1, <2>2, <2>3 DEF Joined
<1>10. ASSUME NEW j \in 1 .. n
       PROVE  u[j] = c[j]
  <2>1. CASE j <= f
    <3>1. j \in 1 .. f /\ \A i \in 0 .. (j - 1) - 1 : i \in 0 .. f - 2
      BY <2>1
    <3>2. InFirst(w, 0, j - 1)
      BY <3>1 DEF InFirst
    <3> QED
      BY <1>4, <1>7, <1>9, <2>1, <3>1, <3>2 DEF Told
  <2>2. CASE j > f
    <3>1. f - 1 \in 0 .. (j - 1) - 1 /\ j - f \in 1 .. n - f /\ f + (j - f) - 1 = j - 1 /\ ~(j <= f)
      BY <2>2
    <3>2. ~InFirst(w, 0, j - 1)
      BY <3>1 DEF InFirst
    <3>3. u[j] = w[j - 1]
      BY <1>7, <3>2
    <3>4. c[j] = r[j - f]
      BY <1>9, <3>1
    <3>5. r[j - f] = w[j - 1]
      BY <1>6, <3>1
    <3> QED
      BY <3>3, <3>4, <3>5
  <2> QED
    BY <2>1, <2>2
<1>11. u = c
  BY <1>7, <1>9, <1>10, SeqEqual
<1>12. Past(w, 0, TRUE) = <<>>
  BY DEF Past
<1> QED
  BY <1>2, <1>3, <1>5, <1>6, <1>7, <1>8, <1>11, <1>12 DEF Repeats

\* A word enters; when the first frame is a repetition it is all there.
Grows(w, x, lo, n, rep) ==
    /\ Rest(x, lo, n + 1, rep) = Rest(w, lo, n, rep) \o <<x[n]>>
    /\ Past(x, lo, rep) = Past(w, lo, rep)

LEMMA RestGrows ==
  ASSUME NEW n \in Nat, NEW lo \in 0 .. n, NEW w \in [0 .. n - 1 -> CopyWords], NEW rep,
         NEW x \in [0 .. n -> CopyWords], \A i \in 0 .. n - 1 : x[i] = w[i],
         rep => \E i \in lo .. n - 1 : w[i].last
  PROVE  Grows(w, x, lo, n, rep)
<1>1. n + 1 \in Nat /\ lo \in 0 .. n + 1 /\ (n + 1) - 1 = n /\ (n + 1) - lo = (n - lo) + 1 /\ n - lo \in Nat
  OBVIOUS
<1>2. PICK r \in Seq(CopyWords) :
         /\ r = Rest(w, lo, n, rep) /\ Len(r) = n - lo
         /\ \A j \in 1 .. n - lo :
               r[j] = IF InFirst(w, lo, lo + j - 1) THEN Told(w[lo + j - 1], rep) ELSE w[lo + j - 1]
  <2>1. IsRest(Rest(w, lo, n, rep), w, lo, n, rep)
    BY RestIs
  <2> QED
    BY <2>1 DEF IsRest
<1>3. PICK u \in Seq(CopyWords) :
         /\ u = Rest(x, lo, n + 1, rep) /\ Len(u) = (n - lo) + 1
         /\ \A j \in 1 .. (n - lo) + 1 :
               u[j] = IF InFirst(x, lo, lo + j - 1) THEN Told(x[lo + j - 1], rep) ELSE x[lo + j - 1]
  <2>1. x \in [0 .. (n + 1) - 1 -> CopyWords]
    BY <1>1
  <2>2. IsRest(Rest(x, lo, n + 1, rep), x, lo, n + 1, rep)
    BY <1>1, <2>1, RestIs
  <2> QED
    BY <1>1, <2>2 DEF IsRest
<1>4. x[n] \in CopyWords
  OBVIOUS
<1>5. PICK a \in Seq(CopyWords) : a = r \o <<x[n]>>
  <2>1. <<x[n]>> \in Seq(CopyWords)
    BY <1>4
  <2> QED
    BY <2>1, ConcatProperties
<1>6. Len(a) = (n - lo) + 1 /\ a[(n - lo) + 1] = x[n] /\ \A j \in 1 .. n - lo : a[j] = r[j]
  <2>1. a = Append(r, x[n])
    BY <1>4, <1>5, AppendIsConcat
  <2>2. PICK k \in Nat : k = n - lo /\ k = Len(r)
    BY <1>1, <1>2
  <2>3. Len(a) = k + 1 /\ a[k + 1] = x[n] /\ \A j \in 1 .. k : a[j] = r[j]
    BY <1>4, <2>1, <2>2
  <2> QED
    BY <2>2, <2>3
<1>7. ASSUME NEW j \in 1 .. n - lo
      PROVE  u[j] = a[j]
  <2>1. j \in 1 .. (n - lo) + 1 /\ lo + j - 1 \in 0 .. n - 1
        /\ \A i \in lo .. (lo + j - 1) - 1 : i \in 0 .. n - 1
    OBVIOUS
  <2>2. InFirst(x, lo, lo + j - 1) <=> InFirst(w, lo, lo + j - 1)
    BY <2>1 DEF InFirst
  <2> QED
    BY <1>2, <1>3, <1>6, <2>1, <2>2
<1>8. u[(n - lo) + 1] = x[n]
  <2>1. (n - lo) + 1 \in 1 .. (n - lo) + 1 /\ lo + ((n - lo) + 1) - 1 = n
    BY <1>1
  <2>2. rep => ~InFirst(x, lo, n)
    <3>1. \A i \in lo .. n - 1 : i \in 0 .. n - 1
      OBVIOUS
    <3> QED
      BY <3>1 DEF InFirst
  <2> QED
    BY <1>3, <2>1, <2>2 DEF Told
<1>9. \A j \in 1 .. (n - lo) + 1 : j \in 1 .. n - lo \/ j = (n - lo) + 1
  BY <1>1
<1>10. u = a
  <2>1. \A j \in 1 .. (n - lo) + 1 : u[j] = a[j]
    BY <1>6, <1>7, <1>8, <1>9
  <2>2. Len(u) = (n - lo) + 1 /\ Len(a) = (n - lo) + 1
    BY <1>3, <1>6
  <2> QED
    BY <2>1, <2>2, SeqEqual
<1>11. Past(x, lo, rep) = Past(w, lo, rep)
  <2>1. \A j \in 1 .. lo : j - 1 \in 0 .. n - 1
    OBVIOUS
  <2>2. \A j \in 1 .. lo : Told(x[j - 1], rep) = Told(w[j - 1], rep)
    BY <2>1
  <2> QED
    BY <2>2 DEF Past
<1> QED
  BY <1>2, <1>3, <1>5, <1>10, <1>11 DEF Grows

---------------------------------------------------------------------------
(* The ring and the registers tell the words *)

\* CopyContents and CopySent of a ring, as functions of the registers.
RingOf(mem, a, b) ==
    LET n == (b - a + COPY_DEPTH) % COPY_DEPTH
    IN [i \in 1 .. n |-> mem[(a + i - 1) % COPY_DEPTH]]
ToldFirst(words, rep) ==
    [i \in 1 .. Len(words) |->
        IF \A j \in 1 .. i - 1 : ~words[j].last THEN Told(words[i], rep) ELSE words[i]]
RingContents(vld, data, rep, mem, a, b) ==
    ToldFirst((IF vld THEN <<data>> ELSE <<>>) \o RingOf(mem, a, b), rep)
RingSent(vld, rep, mem, a, b) ==
    LET n == ((b - a + COPY_DEPTH) % COPY_DEPTH) - (IF vld THEN 1 ELSE 0)
    IN [i \in 1 .. n |-> Told(mem[(a + i - 1) % COPY_DEPTH], rep)]

LEMMA NthDistance ==
  ASSUME NEW s \in Slots, NEW n \in 0 .. COPY_DEPTH - 1, NEW f \in 0 .. n
  PROVE  /\ (Nth(s, n) - Nth(s, f) + COPY_DEPTH) % COPY_DEPTH = n - f
         /\ \A i \in 1 .. n - f : (Nth(s, f) + i - 1) % COPY_DEPTH = Nth(s, f + i - 1)
<1>1. PICK D \in Nat \ {0} : D = COPY_DEPTH
  BY CopyAssumption
<1>2. s \in 0 .. D - 1 /\ n \in 0 .. D - 1 /\ f \in 0 .. n
  BY <1>1 DEF Slots
<1>3. PICK a \in 0 .. D - 1 : a = Nth(s, f) /\ (a = s + f \/ a = s + f - D)
  <2>1. Nth(s, f) = IF s + f < D THEN s + f ELSE s + f - D
    BY <1>1 DEF Nth
  <2>2. IF s + f < D THEN s + f \in 0 .. D - 1 ELSE s + f - D \in 0 .. D - 1
    BY <1>2
  <2> QED
    BY <2>1, <2>2
<1>4. PICK b \in 0 .. D - 1 : b = Nth(s, n) /\ (b = s + n \/ b = s + n - D)
  <2>1. Nth(s, n) = IF s + n < D THEN s + n ELSE s + n - D
    BY <1>1 DEF Nth
  <2>2. IF s + n < D THEN s + n \in 0 .. D - 1 ELSE s + n - D \in 0 .. D - 1
    BY <1>2
  <2> QED
    BY <2>1, <2>2
<1>5. PICK x \in 0 .. 2 * D - 1 : x = b - a + D /\ (x = n - f \/ x = n - f + D)
  BY <1>2, <1>3, <1>4
<1>6. x % D = n - f
  <2>1. x % D = IF x >= D THEN x - D ELSE x
    BY ModuloOnce
  <2> QED
    BY <1>2, <1>5, <2>1
<1>7. ASSUME NEW i \in 1 .. n - f
      PROVE  (a + i - 1) % D = Nth(s, f + i - 1)
  <2>1. PICK y \in 0 .. 2 * D - 1 : y = a + i - 1
    BY <1>2, <1>3
  <2>2. y % D = IF y >= D THEN y - D ELSE y
    BY ModuloOnce
  <2>3. Nth(s, f + i - 1) = IF s + (f + i - 1) < D THEN s + (f + i - 1) ELSE s + (f + i - 1) - D
    BY <1>1 DEF Nth
  <2> QED
    BY <1>2, <1>3, <2>1, <2>2, <2>3
<1> QED
  BY <1>1, <1>3, <1>4, <1>5, <1>6, <1>7

IsRing(q, w, f, n) ==
    q \in Seq(CopyWords) /\ Len(q) = n - f /\ \A j \in 1 .. n - f : q[j] = w[f + j - 1]

LEMMA RingIs ==
  ASSUME NEW s \in Slots, NEW n \in 0 .. COPY_DEPTH - 1, NEW f \in 0 .. n,
         NEW mem, NEW w \in [0 .. n - 1 -> CopyWords], \A i \in 0 .. n - 1 : w[i] = mem[Nth(s, i)]
  PROVE  IsRing(RingOf(mem, Nth(s, f), Nth(s, n)), w, f, n)
<1>1. PICK q : q = RingOf(mem, Nth(s, f), Nth(s, n))
  OBVIOUS
<1>2. q = [i \in 1 .. n - f |-> mem[(Nth(s, f) + i - 1) % COPY_DEPTH]]
  BY <1>1, NthDistance DEF RingOf
<1>3. \A j \in 1 .. n - f : q[j] = w[f + j - 1] /\ w[f + j - 1] \in CopyWords
  <2>1. \A j \in 1 .. n - f : f + j - 1 \in 0 .. n - 1
    OBVIOUS
  <2> QED
    BY <1>2, <2>1, NthDistance
<1>4. q \in [1 .. n - f -> CopyWords]
  BY <1>2, <1>3
<1>5. n - f \in Nat
  OBVIOUS
<1> QED
  BY <1>1, <1>3, <1>4, <1>5 DEF IsRing

\* The registers tell the words.
Tells(s, f, n, mem, vld, data, rep, w) ==
    /\ RingContents(vld, data, rep, mem, Nth(s, f), Nth(s, n)) = Rest(w, NSent(f, vld), n, rep)
    /\ RingSent(vld, rep, mem, s, Nth(s, f)) = Past(w, NSent(f, vld), rep)

LEMMA ContentsAre ==
  ASSUME NEW s \in Slots, NEW n \in 0 .. COPY_DEPTH - 1, NEW f \in 0 .. n,
         NEW mem, NEW w \in [0 .. n - 1 -> CopyWords], \A i \in 0 .. n - 1 : w[i] = mem[Nth(s, i)],
         NEW vld \in BOOLEAN, NEW data, NEW rep, vld => f > 0 /\ data = w[f - 1]
  PROVE  Tells(s, f, n, mem, vld, data, rep, w)
<1>1. PICK lo \in 0 .. n : lo = NSent(f, vld) /\ lo = f - (IF vld THEN 1 ELSE 0)
  BY DEF NSent
<1>2. PICK r \in Seq(CopyWords) : r = RingOf(mem, Nth(s, f), Nth(s, n)) /\ Len(r) = n - f
         /\ \A j \in 1 .. n - f : r[j] = w[f + j - 1]
  <2>1. IsRing(RingOf(mem, Nth(s, f), Nth(s, n)), w, f, n)
    BY RingIs
  <2> QED
    BY <2>1 DEF IsRing
<1>3. PICK v \in Seq(CopyWords) : v = (IF vld THEN <<data>> ELSE <<>>) /\ Len(v) = f - lo
         /\ (vld => v[1] = w[lo])
  <2>1. CASE vld
    <3>1. f - 1 \in 0 .. n - 1 /\ f - lo = 1 /\ lo = f - 1
      BY <1>1, <2>1
    <3>2. <<data>> \in Seq(CopyWords) /\ Len(<<data>>) = 1 /\ <<data>>[1] = w[lo]
      BY <2>1, <3>1
    <3> QED
      BY <2>1, <3>1, <3>2
  <2>2. CASE ~vld
    <3>1. f - lo = 0
      BY <1>1, <2>2
    <3> QED
      BY <2>2, <3>1
  <2> QED
    BY <2>1, <2>2
<1>4. PICK c \in Seq(CopyWords) : c = v \o r
  BY ConcatProperties
<1>5. Len(c) = n - lo /\ \A j \in 1 .. n - lo : c[j] = w[lo + j - 1]
  <2>1. PICK k \in Nat : k = n - f
    OBVIOUS
  <2>2. PICK l \in Nat : l = f - lo /\ ((l = 0 /\ ~vld) \/ (l = 1 /\ vld))
    <3>1. CASE vld
      <4>1. f - lo = 1
        BY <1>1, <3>1
      <4> QED
        BY <3>1, <4>1
    <3>2. CASE ~vld
      <4>1. f - lo = 0 /\ 0 \in Nat
        BY <1>1, <3>2
      <4>2. 0 = f - lo /\ ((0 = 0 /\ ~vld) \/ (0 = 1 /\ vld))
        BY <3>2, <4>1
      <4> QED
        BY <4>1, <4>2, Zenon
    <3> QED
      BY <3>1, <3>2
  <2>3. Joined(v \o r, v, r, l, k)
    BY <1>2, <1>3, <2>1, <2>2, ConcatIs
  <2>4. Len(c) = n - lo
    BY <1>1, <1>4, <2>1, <2>2, <2>3 DEF Joined
  <2>5. ASSUME NEW j \in 1 .. n - lo
        PROVE  c[j] = w[lo + j - 1]
    <3>1. CASE l = 1 /\ j = 1
      <4>1. j \in 1 .. l /\ lo + j - 1 = lo /\ vld
        BY <2>2, <3>1
      <4> QED
        BY <1>3, <1>4, <2>3, <3>1, <4>1 DEF Joined
    <3>2. CASE ~(l = 1 /\ j = 1)
      <4>1. PICK i \in 1 .. k : j = l + i /\ f + i - 1 = lo + j - 1
        <5>1. j - l \in 1 .. k /\ j = l + (j - l) /\ f + (j - l) - 1 = lo + j - 1
          BY <2>1, <2>2, <3>2
        <5> QED
          BY <5>1
      <4>2. c[j] = r[i]
        BY <1>4, <2>3, <4>1 DEF Joined
      <4> QED
        BY <1>2, <2>1, <4>1, <4>2
    <3> QED
      BY <3>1, <3>2
  <2> QED
    BY <2>4, <2>5
<1>6. ToldFirst(c, rep) = Rest(w, lo, n, rep)
  <2>1. ASSUME NEW j \in 1 .. n - lo
        PROVE  (\A i \in 1 .. j - 1 : ~c[i].last) <=> InFirst(w, lo, lo + j - 1)
    <3>1. ASSUME \A i \in 1 .. j - 1 : ~c[i].last, NEW i \in lo .. (lo + j - 1) - 1
          PROVE  ~w[i].last
      <4>1. i - lo + 1 \in 1 .. j - 1 /\ i - lo + 1 \in 1 .. n - lo /\ lo + (i - lo + 1) - 1 = i
        OBVIOUS
      <4> QED
        BY <1>5, <3>1, <4>1
    <3>2. ASSUME InFirst(w, lo, lo + j - 1), NEW i \in 1 .. j - 1
          PROVE  ~c[i].last
      <4>1. lo + i - 1 \in lo .. (lo + j - 1) - 1 /\ i \in 1 .. n - lo
        OBVIOUS
      <4> QED
        BY <1>5, <3>2, <4>1 DEF InFirst
    <3> QED
      BY <3>1, <3>2 DEF InFirst
  <2>2. ToldFirst(c, rep) = [j \in 1 .. n - lo |->
            IF \A i \in 1 .. j - 1 : ~c[i].last THEN Told(c[j], rep) ELSE c[j]]
    BY <1>5 DEF ToldFirst
  <2> QED
    BY <1>5, <2>1, <2>2 DEF Rest
<1>7. RingContents(vld, data, rep, mem, Nth(s, f), Nth(s, n)) = Rest(w, lo, n, rep)
  BY <1>2, <1>3, <1>4, <1>6 DEF RingContents
<1>8. RingSent(vld, rep, mem, s, Nth(s, f)) = Past(w, lo, rep)
  <2>1. 0 \in 0 .. f /\ f \in 0 .. COPY_DEPTH - 1 /\ f - 0 = f /\ Nth(s, 0) = s
    BY NthAre, CopyAssumption
  <2>2. /\ (Nth(s, f) - s + COPY_DEPTH) % COPY_DEPTH = f
        /\ \A i \in 1 .. f : (s + i - 1) % COPY_DEPTH = Nth(s, 0 + i - 1)
    BY <2>1, NthDistance
  <2>3. RingSent(vld, rep, mem, s, Nth(s, f)) =
            [i \in 1 .. lo |-> Told(mem[(s + i - 1) % COPY_DEPTH], rep)]
    BY <1>1, <2>2 DEF RingSent
  <2>4. \A i \in 1 .. lo : i \in 1 .. f /\ 0 + i - 1 = i - 1 /\ i - 1 \in 0 .. n - 1
    BY <1>1
  <2>5. \A i \in 1 .. lo : Told(mem[(s + i - 1) % COPY_DEPTH], rep) = Told(w[i - 1], rep)
    BY <2>2, <2>4
  <2> QED
    BY <2>3, <2>5 DEF Past
<1> QED
  BY <1>1, <1>7, <1>8 DEF Tells

---------------------------------------------------------------------------
(* A cycle of the fifo of frames *)

\* While a frame is repeated its end has not left yet.
EndIsInside(rep, s, a, b, vld, mem) ==
    \A f, n \in 0 .. COPY_DEPTH - 1 :
        rep /\ a = Nth(s, f) /\ b = Nth(s, n) => \E i \in NSent(f, vld) .. n - 1 : mem[Nth(s, i)].last

ReplayInv ==
    /\ FrameInv
    /\ memory \in [Slots -> CopyWords] /\ replace_id \in BOOLEAN
    /\ EndIsInside(replace_id, rd_ptr, rd_ptr_tmp, wr_ptr, copy_vld, memory)

\* The words of a ring from the slot s.
HasWords(s, n, mem) ==
    \E w \in [0 .. n - 1 -> CopyWords] : \A i \in 0 .. n - 1 : w[i] = mem[Nth(s, i)]

LEMMA WordsFrom ==
  ASSUME NEW s \in Slots, NEW n \in 0 .. COPY_DEPTH - 1, NEW mem \in [Slots -> CopyWords]
  PROVE  HasWords(s, n, mem)
<1>1. \A i \in 0 .. n - 1 : Nth(s, i) \in Slots
  <2>1. \A i \in 0 .. n - 1 : i \in 0 .. COPY_DEPTH - 1
    BY CopyAssumption
  <2> QED
    BY <2>1, NthAre
<1>2. [i \in 0 .. n - 1 |-> mem[Nth(s, i)]] \in [0 .. n - 1 -> CopyWords]
  BY <1>1
<1> QED
  BY <1>2 DEF HasWords

LEMMA RenamedIs ==
  ASSUME NEW p \in Seq(CopyWords)
  PROVE  Renamed(p) \in Seq(CopyWords)
<1>1. PICK n \in Nat : n = Len(p)
  BY LenProperties
<1>2. \A j \in 1 .. n : Other(p[j]) \in CopyWords
  BY <1>1, OtherIs, ElementOfSeq
<1>3. Renamed(p) = [j \in 1 .. n |-> Other(p[j])]
  BY <1>1 DEF Renamed, Other
<1>4. [j \in 1 .. n |-> Other(p[j])] \in [1 .. n -> CopyWords]
  BY <1>2
<1> QED
  BY <1>3, <1>4

LEMMA RingHolds ==
  ASSUME NEW s, NEW n \in 0 .. COPY_DEPTH - 1, NEW f, NEW len, NEW mem, NEW vld \in BOOLEAN,
         NEW data, NEW rep, Frames(s, f, n, len, mem, vld, data),
         NEW w \in [0 .. n - 1 -> CopyWords], \A i \in 0 .. n - 1 : w[i] = mem[Nth(s, i)]
  PROVE  Tells(s, f, n, mem, vld, data, rep, w)
<1>1. s \in Slots /\ f \in 0 .. n /\ (vld => f > 0 /\ data = mem[Nth(s, f - 1)])
  BY DEF Frames
<1>2. vld => f > 0 /\ data = w[f - 1] /\ f - 1 \in 0 .. n
  <2>1. f > 0 => f - 1 \in 0 .. n - 1 /\ f - 1 \in 0 .. n
    BY <1>1
  <2> QED
    BY <1>1, <2>1
<1>3. Tells(s, f, n, mem, vld, data, rep, w)
  BY <1>1, <1>2, ContentsAre
<1> QED
  BY <1>3

LEMMA FifoTells ==
  ASSUME copy_mode = "fifo"
  PROVE  /\ CopyContents = RingContents(copy_vld, copy_data, replace_id, memory, rd_ptr_tmp, wr_ptr)
         /\ CopySent = RingSent(copy_vld, replace_id, memory, rd_ptr, rd_ptr_tmp)
BY DEF CopyContents, ShownRest, Shown, Ring, RingContents, RingOf, ToldFirst, Told, Other, CopySent, RingSent

LEMMA FifoTellsNext ==
  ASSUME (copy_mode = "fifo")'
  PROVE  /\ CopyContents' = RingContents(copy_vld', copy_data', replace_id', memory', rd_ptr_tmp', wr_ptr')
         /\ CopySent' = RingSent(copy_vld', replace_id', memory', rd_ptr', rd_ptr_tmp')
BY DEF CopyContents, ShownRest, Shown, Ring, RingContents, RingOf, ToldFirst, Told, Other, CopySent, RingSent

\* The words after the output moved, when nothing enters: C1 to be sent, P1 sent.
Replayed(again, C, P, C1, P1, out, left) ==
    IF ~left THEN C1 = C /\ P1 = P
    ELSE /\ C # <<>> /\ out = Head(C) /\ C \in Seq(CopyWords)
         /\ C1 = (IF out.last /\ again THEN Renamed(Append(P, out)) ELSE <<>>) \o Tail(C)
         /\ P1 = IF out.last THEN <<>> ELSE Append(P, out)
         /\ Renamed(Append(P, out)) \in Seq(CopyWords)

Went(again, vld, f, n, w, rep, lo1, n1, x, rep1, left) ==
    /\ Replayed(again, Rest(w, NSent(f, vld), n, rep), Past(w, NSent(f, vld), rep),
                Rest(x, lo1, n1, rep1), Past(x, lo1, rep1), Told(w[f - 1], rep), left)
    /\ rep1 => \E i \in lo1 .. n1 - 1 : x[i].last

\* w are the words from rd_ptr before, x those after; rep and rep1 likewise.
WordsBefore(vld, f, n, w, rep) ==
    /\ n \in Nat /\ f \in 0 .. n /\ vld \in BOOLEAN /\ (vld => f > 0)
    /\ w \in [0 .. n - 1 -> CopyWords] /\ rep \in BOOLEAN
    /\ \A i \in 0 .. f - 1 : (vld /\ i = f - 1) \/ ~w[i].last
    /\ rep => \E i \in NSent(f, vld) .. n - 1 : w[i].last
WordsAfter(again, vld, f, n, w, rep, lo1, n1, x, rep1, left) ==
    /\ n1 \in Nat /\ lo1 \in 0 .. n1 /\ x \in [0 .. n1 - 1 -> CopyWords] /\ rep1 \in BOOLEAN
    /\ left \in BOOLEAN /\ again \in BOOLEAN /\ (left => vld)
    /\ ~left => n1 = n /\ lo1 = NSent(f, vld) /\ x = w /\ rep1 = rep
    /\ left /\ ~w[f - 1].last => n1 = n /\ lo1 = f /\ x = w /\ rep1 = rep
    /\ left /\ w[f - 1].last /\ again => n1 = n /\ lo1 = 0 /\ x = w /\ rep1 = TRUE
    /\ left /\ w[f - 1].last /\ ~again => /\ n1 = n - f /\ lo1 = 0 /\ rep1 = FALSE
                                          /\ \A i \in 0 .. n1 - 1 : x[i] = w[f + i]

LEMMA WordsGo ==
  ASSUME NEW n, NEW f, NEW vld, NEW w, NEW rep, WordsBefore(vld, f, n, w, rep),
         NEW lo1, NEW n1, NEW x, NEW rep1, NEW left, NEW again,
         WordsAfter(again, vld, f, n, w, rep, lo1, n1, x, rep1, left)
  PROVE  Went(again, vld, f, n, w, rep, lo1, n1, x, rep1, left)
<1>1. /\ n \in Nat /\ f \in 0 .. n /\ vld \in BOOLEAN /\ (vld => f > 0)
      /\ w \in [0 .. n - 1 -> CopyWords] /\ rep \in BOOLEAN
      /\ \A i \in 0 .. f - 1 : (vld /\ i = f - 1) \/ ~w[i].last
      /\ rep => \E i \in NSent(f, vld) .. n - 1 : w[i].last
  BY DEF WordsBefore
<1>2. /\ n1 \in Nat /\ lo1 \in 0 .. n1 /\ x \in [0 .. n1 - 1 -> CopyWords] /\ rep1 \in BOOLEAN
      /\ left \in BOOLEAN /\ again \in BOOLEAN /\ (left => vld)
      /\ ~left => n1 = n /\ lo1 = NSent(f, vld) /\ x = w /\ rep1 = rep
      /\ left /\ ~w[f - 1].last => n1 = n /\ lo1 = f /\ x = w /\ rep1 = rep
      /\ left /\ w[f - 1].last /\ again => n1 = n /\ lo1 = 0 /\ x = w /\ rep1 = TRUE
      /\ left /\ w[f - 1].last /\ ~again => /\ n1 = n - f /\ lo1 = 0 /\ rep1 = FALSE
                                            /\ \A i \in 0 .. n1 - 1 : x[i] = w[f + i]
  BY DEF WordsAfter
<1> DEFINE lo == NSent(f, vld)
           C == Rest(w, lo, n, rep)
           P == Past(w, lo, rep)
           out == Told(w[f - 1], rep)
<1>3. CASE ~left
  BY <1>1, <1>2, <1>3 DEF Replayed, Went
<1>4. CASE left
  <2>1. lo \in 0 .. n - 1 /\ lo = f - 1 /\ f \in 1 .. n /\ lo + 1 = f /\ w[lo] \in CopyWords
    BY <1>1, <1>2, <1>4 DEF NSent
  <2> HIDE DEF lo
  <2>2. out.last = w[f - 1].last
    BY <2>1, OtherIs
  <2>3. /\ C # <<>> /\ Head(C) = out
        /\ Tail(C) = IF w[f - 1].last THEN Rest(w, f, n, FALSE) ELSE Rest(w, f, n, rep)
        /\ Append(P, out) = Past(w, f, rep)
    <3>1. LeavesFirst(w, lo, n, rep)
      BY <1>1, <2>1, FirstLeaves
    <3> QED
      BY <2>1, <3>1 DEF LeavesFirst
  <2>4. C \in Seq(CopyWords) /\ Tail(C) \in Seq(CopyWords)
    <3>1. IsRest(C, w, lo, n, rep)
      BY <1>1, <2>1, RestIs
    <3>2. C \in Seq(CopyWords)
      BY <3>1 DEF IsRest
    <3> QED
      BY <2>3, <3>2, HeadTailProperties
  <2>5. Renamed(Past(w, f, rep)) \in Seq(CopyWords)
    <3>1. PICK p \in Seq(CopyWords) : p = Past(w, f, rep)
      <4>1. IsPast(Past(w, f, rep), w, f, rep)
        BY <1>1, <2>1, RestIs
      <4> QED
        BY <4>1 DEF IsPast
    <3> QED
      BY <3>1, RenamedIs
  <2>6. <<>> \o Tail(C) = Tail(C)
    BY <2>4, QueueJoins
  <2> HIDE DEF C, P, out
  <2>7. CASE ~w[f - 1].last
    <3>1. Rest(x, lo1, n1, rep1) = Tail(C) /\ Past(x, lo1, rep1) = Append(P, out)
      BY <1>2, <1>4, <2>3, <2>7
    <3>2. rep1 => \E i \in lo1 .. n1 - 1 : x[i].last
      <4> SUFFICES ASSUME rep1  PROVE \E i \in lo1 .. n1 - 1 : x[i].last
        OBVIOUS
      <4>1. PICK i \in lo .. n - 1 : w[i].last
        BY <1>1, <1>2, <1>4, <2>7 DEF lo
      <4>2. i # lo /\ i \in f .. n - 1
        BY <2>1, <2>7, <4>1
      <4> QED
        BY <1>2, <1>4, <2>7, <4>1, <4>2
    <3>3. Replayed(again, C, P, Rest(x, lo1, n1, rep1), Past(x, lo1, rep1), out, left)
      BY <1>4, <2>2, <2>3, <2>4, <2>5, <2>6, <2>7, <3>1 DEF Replayed
    <3> QED
      BY <3>2, <3>3 DEF C, P, out, lo, Went
  <2>8. CASE w[f - 1].last /\ again
    <3>1. \A i \in 0 .. f - 2 : ~w[i].last
      <4>1. \A i \in 0 .. f - 2 : i \in 0 .. f - 1 /\ i # f - 1
        BY <2>1
      <4> QED
        BY <1>1, <4>1
    <3>2. Repeats(w, f, n, rep)
      BY <1>1, <2>1, <2>8, <3>1, FrameIsRepeated
    <3>3. Rest(x, lo1, n1, rep1) = Renamed(Append(P, out)) \o Tail(C) /\ Past(x, lo1, rep1) = <<>>
      BY <1>2, <1>4, <2>3, <2>8, <3>2 DEF Repeats
    <3>4. \E i \in lo1 .. n1 - 1 : x[i].last
      <4>1. f - 1 \in 0 .. n - 1
        BY <2>1
      <4> QED
        BY <1>2, <1>4, <2>8, <4>1
    <3>5. Replayed(again, C, P, Rest(x, lo1, n1, rep1), Past(x, lo1, rep1), out, left)
      BY <1>4, <2>2, <2>3, <2>4, <2>5, <2>8, <3>3 DEF Replayed
    <3> QED
      BY <3>4, <3>5 DEF C, P, out, lo, Went
  <2>9. CASE w[f - 1].last /\ ~again
    <3>1. Rest(w, f, n, FALSE) = Rest(x, 0, n - f, FALSE) /\ Past(x, 0, FALSE) = <<>>
      <4>1. n1 = n - f /\ x \in [0 .. n - f - 1 -> CopyWords] /\ \A i \in 0 .. n - f - 1 : x[i] = w[f + i]
        BY <1>2, <1>4, <2>9
      <4> QED
        BY <1>1, <4>1, FrameIsOver
    <3>2. Rest(x, lo1, n1, rep1) = Tail(C) /\ Past(x, lo1, rep1) = <<>>
      BY <1>2, <1>4, <2>3, <2>9, <3>1
    <3>3. Replayed(again, C, P, Rest(x, lo1, n1, rep1), Past(x, lo1, rep1), out, left)
      BY <1>4, <2>2, <2>3, <2>4, <2>5, <2>6, <2>9, <3>2 DEF Replayed
    <3> QED
      BY <1>2, <1>4, <2>9, <3>3 DEF C, P, out, lo, Went
  <2> QED
    BY <2>7, <2>8, <2>9
<1> QED
  BY <1>3, <1>4

Replays ==
    LET all == CopyContents \o in_xfer' IN
    IF out_xfer' = <<>> THEN CopyContents' = all /\ CopySent' = CopySent
    ELSE LET w == out_xfer'[1]
             frame == IF copy_mode = "reg" THEN <<w>> ELSE Append(CopySent, w)
         IN /\ CopyContents # <<>> /\ w = Head(all)
            /\ CopyContents' = (IF again_xfer' THEN Renamed(frame) ELSE <<>>) \o Tail(all)
            /\ CopySent' = IF w.last THEN <<>> ELSE frame

\* What is put before the rest is put before it and what follows.
PutFirst(b, c, i) == Head(c \o i) = Head(c) /\ (b \o Tail(c)) \o i = b \o Tail(c \o i)

LEMMA PutFirstIs ==
  ASSUME NEW b \in Seq(CopyWords), NEW c \in Seq(CopyWords), c # <<>>, NEW i \in Seq(CopyWords)
  PROVE  PutFirst(b, c, i)
<1>1. PICK t \in Seq(CopyWords) : t = Tail(c)
  BY HeadTailProperties
<1>2. Head(c \o i) = Head(c) /\ Tail(c \o i) = t \o i
  BY <1>1, QueueHeads
<1>3. (b \o t) \o i = b \o (t \o i)
  BY ConcatAssociative
<1> QED
  BY <1>1, <1>2, <1>3 DEF PutFirst

\* A word that enters goes behind all others.
LEMMA InputFollows ==
  ASSUME copy_mode = "fifo", NEW C, NEW P, NEW C1, NEW P1, C \in Seq(CopyWords),
         C1 \in Seq(CopyWords), in_xfer' \in Seq(CopyWords),
         NEW again, NEW out, NEW left \in BOOLEAN,
         CopyContents = C, CopySent = P,
         CopyContents' = C1 \o in_xfer', CopySent' = P1,
         Replayed(again, C, P, C1, P1, out, left),
         out_xfer' = (IF left THEN <<out>> ELSE <<>>),
         again_xfer' <=> left /\ out.last /\ again
  PROVE  Replays
<1>1. CASE ~left
  <2>1. out_xfer' = <<>> /\ C1 = C /\ P1 = P
    BY <1>1 DEF Replayed
  <2> QED
    BY <2>1 DEF Replays
<1>2. CASE left
  <2>1. /\ out_xfer' # <<>> /\ out_xfer'[1] = out
        /\ C # <<>> /\ out = Head(C)
        /\ C1 = (IF out.last /\ again THEN Renamed(Append(P, out)) ELSE <<>>) \o Tail(C)
        /\ P1 = IF out.last THEN <<>> ELSE Append(P, out)
        /\ Renamed(Append(P, out)) \in Seq(CopyWords)
    BY <1>2 DEF Replayed
  <2>2. PICK I \in Seq(CopyWords) : I = in_xfer'
    OBVIOUS
  <2>4. PICK B \in Seq(CopyWords) :
           B = IF out.last /\ again THEN Renamed(Append(P, out)) ELSE <<>>
    <3>1. CASE out.last /\ again
      BY <2>1, <3>1
    <3>2. CASE ~(out.last /\ again)
      <4>1. <<>> \in Seq(CopyWords)
        OBVIOUS
      <4> QED
        BY <3>2, <4>1
    <3> QED
      BY <3>1, <3>2
  <2>5. PutFirst(B, C, I)
    BY <2>1, <2>2, <2>4, PutFirstIs
  <2>6. C1 \o I = B \o Tail(C \o I) /\ Head(C \o I) = Head(C)
    BY <2>1, <2>4, <2>5 DEF PutFirst
  <2>7. again_xfer' <=> out.last /\ again
    BY <1>2
  <2> QED
    BY <2>1, <2>2, <2>4, <2>6, <2>7 DEF Replays
<1> QED
  BY <1>1, <1>2

LEMMA InputsAreWords ==
  ASSUME NEW new \in CopyInputs
  PROVE  new \in CopyWords
<1>1. PICK d \in Data, last \in BOOLEAN : new = [d |-> d, last |-> last, id |-> OwnId]
  <2>1. PICK S : S = IF copy_mode = "reg" \/ frame_len = MAX_FRAME_LEN - 1 THEN {TRUE} ELSE BOOLEAN
    OBVIOUS
  <2>2. CopyInputs = {[d |-> d, last |-> l, id |-> OwnId] : d \in Data, l \in S}
    BY <2>1 DEF CopyInputs
  <2>3. PICK d \in Data, last \in S : new = [d |-> d, last |-> last, id |-> OwnId]
    BY <2>2
  <2>4. last \in BOOLEAN
    BY <2>1
  <2> QED
    BY <2>3, <2>4
<1>2. d \in Data \cup {Undef} /\ OwnId \in {OwnId, OtherId}
  OBVIOUS
<1> QED
  BY <1>1, <1>2 DEF CopyWords

\* No other f and n describe the ring.
LEMMA FramesAreUnique ==
  ASSUME NEW s \in Slots, NEW f \in 0 .. COPY_DEPTH - 1, NEW n \in 0 .. COPY_DEPTH - 1,
         NEW lo, NEW vld, lo = NSent(f, vld), NEW mem, NEW rep,
         rep => \E i \in lo .. n - 1 : mem[Nth(s, i)].last
  PROVE  EndIsInside(rep, s, Nth(s, f), Nth(s, n), vld, mem)
<1> SUFFICES ASSUME NEW g \in 0 .. COPY_DEPTH - 1, NEW m \in 0 .. COPY_DEPTH - 1, rep,
                    Nth(s, f) = Nth(s, g), Nth(s, n) = Nth(s, m)
             PROVE  \E i \in NSent(g, vld) .. m - 1 : mem[Nth(s, i)].last
  BY DEF EndIsInside
<1>1. f = g /\ n = m
  BY NthAre
<1> QED
  BY <1>1

LEMMA FifoReplays ==
  ASSUME ReplayInv, copy_mode = "fifo",
         NEW in \in {<<>>} \cup {<<word>> : word \in CopyInputs},
         NEW rd \in BOOLEAN, NEW again \in BOOLEAN, CopyCycle(in, rd, again)
  PROVE  ReplayInv' /\ Replays
<1>1. FifoCycle(in, rd, again) /\ frame_len' = NextFrameLen(in_xfer') /\ (copy_mode = "fifo")'
  BY DEF CopyCycle
<1>2. /\ FrameInv /\ FrameInv' /\ memory \in [Slots -> CopyWords] /\ replace_id \in BOOLEAN
      /\ copy_vld \in BOOLEAN /\ copy_vld' \in BOOLEAN
  <2>1. FrameInv /\ memory \in [Slots -> CopyWords] /\ replace_id \in BOOLEAN
    BY DEF ReplayInv
  <2>2. FrameInv'
    BY <2>1, CycleKeepsFrames
  <2> QED
    BY <2>1, <2>2 DEF FrameInv
<1>3. PICK f, n, f1, n1 \in 0 .. COPY_DEPTH - 1 :
              /\ Frames(rd_ptr, f, n, frame_len, memory, copy_vld, copy_data)
              /\ rd_ptr_tmp = Nth(rd_ptr, f) /\ wr_ptr = Nth(rd_ptr, n)
              /\ Frames(rd_ptr', f1, n1, frame_len, memory, copy_vld', copy_data')
              /\ rd_ptr_tmp' = Nth(rd_ptr', f1) /\ wr_ptr = Nth(rd_ptr', n1)
              /\ n1 + 1 = COPY_DEPTH => CopyInWait
              /\ Goes(rd, again, f, n, NSent(f1, copy_vld'), n1)
  BY <1>1, <1>2, OutputGoes
<1>4. /\ rd_ptr \in Slots /\ rd_ptr' \in Slots /\ f \in 0 .. n /\ f1 \in 0 .. n1
      /\ n \in Nat /\ n1 \in Nat
  BY <1>3, CopyAssumption DEF Frames
<1>5. PICK w \in [0 .. n - 1 -> CopyWords] : \A i \in 0 .. n - 1 : w[i] = memory[Nth(rd_ptr, i)]
  <2>1. HasWords(rd_ptr, n, memory)
    BY <1>2, <1>4, WordsFrom
  <2> QED
    BY <2>1 DEF HasWords
<1>6. PICK lo \in 0 .. n : lo = NSent(f, copy_vld)
      /\ Tells(rd_ptr, f, n, memory, copy_vld, copy_data, replace_id, w)
  <2>1. Tells(rd_ptr, f, n, memory, copy_vld, copy_data, replace_id, w)
    BY <1>2, <1>3, <1>5, RingHolds
  <2>2. NSent(f, copy_vld) \in 0 .. n
    BY <1>3, <1>4 DEF Frames, NSent
  <2> QED
    BY <2>1, <2>2
<1>7. PICK x \in [0 .. n1 - 1 -> CopyWords] : \A i \in 0 .. n1 - 1 : x[i] = memory[Nth(rd_ptr', i)]
  <2>1. HasWords(rd_ptr', n1, memory)
    BY <1>2, <1>4, WordsFrom
  <2> QED
    BY <2>1 DEF HasWords
<1>8. PICK rep1 \in BOOLEAN :
         rep1 = replace_id' /\ rep1 = IF copy_vld /\ rd /\ copy_data.last THEN again ELSE replace_id
  BY <1>1, <1>2 DEF FifoCycle
<1>9. PICK lo1 \in 0 .. n1 : lo1 = NSent(f1, copy_vld')
      /\ Tells(rd_ptr', f1, n1, memory, copy_vld', copy_data', rep1, x)
  <2>1. Tells(rd_ptr', f1, n1, memory, copy_vld', copy_data', rep1, x)
    BY <1>2, <1>3, <1>7, RingHolds
  <2>2. NSent(f1, copy_vld') \in 0 .. n1
    BY <1>3, <1>4 DEF Frames, NSent
  <2> QED
    BY <2>1, <2>2
<1>10. PICK left \in BOOLEAN : left <=> copy_vld /\ rd
  BY <1>2
<1>11. copy_vld => f > 0 /\ f - 1 \in 0 .. n - 1 /\ copy_data = w[f - 1]
  <2>1. copy_vld => f > 0 /\ copy_data = memory[Nth(rd_ptr, f - 1)]
    BY <1>3 DEF Frames
  <2>2. f > 0 => f - 1 \in 0 .. n - 1
    BY <1>4
  <2> QED
    BY <1>5, <2>1, <2>2
<1> DEFINE C == Rest(w, lo, n, replace_id)
           P == Past(w, lo, replace_id)
           C1 == Rest(x, lo1, n1, rep1)
           P1 == Past(x, lo1, rep1)
           out == Told(w[f - 1], replace_id)
<1>12. Replayed(again, C, P, C1, P1, out, left) /\ (rep1 => \E i \in lo1 .. n1 - 1 : x[i].last)
  <2>1. \A i \in 0 .. f - 1 : (copy_vld /\ i = f - 1) \/ ~w[i].last
    <3>1. \A i \in 0 .. f - 1 : (copy_vld /\ i = f - 1) \/ ~memory[Nth(rd_ptr, i)].last
      BY <1>3 DEF Frames
    <3>2. \A i \in 0 .. f - 1 : i \in 0 .. n - 1
      BY <1>4
    <3> QED
      BY <1>5, <3>1, <3>2
  <2>2. replace_id => \E i \in lo .. n - 1 : w[i].last
    <3>1. replace_id => \E i \in lo .. n - 1 : memory[Nth(rd_ptr, i)].last
      BY <1>3, <1>6 DEF ReplayInv, EndIsInside
    <3>2. \A i \in lo .. n - 1 : i \in 0 .. n - 1
      BY <1>6
    <3> QED
      BY <1>5, <3>1, <3>2
  <2>3. n1 = n /\ rd_ptr' = rd_ptr => x = w
    BY <1>5, <1>7
  <2>4. ~left => n1 = n /\ lo1 = lo /\ x = w /\ rep1 = replace_id
    BY <1>3, <1>6, <1>8, <1>9, <1>10, <2>3 DEF Goes
  <2>5. left /\ ~w[f - 1].last => n1 = n /\ lo1 = f /\ x = w /\ rep1 = replace_id
    BY <1>3, <1>8, <1>9, <1>10, <1>11, <2>3 DEF Goes
  <2>6. left /\ w[f - 1].last /\ again => n1 = n /\ lo1 = 0 /\ x = w /\ rep1 = TRUE
    BY <1>3, <1>8, <1>9, <1>10, <1>11, <2>3 DEF Goes
  <2>7. left /\ w[f - 1].last /\ ~again => /\ n1 = n - f /\ lo1 = 0 /\ rep1 = FALSE
                                           /\ \A i \in 0 .. n1 - 1 : x[i] = w[f + i]
    <3> SUFFICES ASSUME left, w[f - 1].last, ~again
                 PROVE  /\ n1 = n - f /\ lo1 = 0 /\ rep1 = FALSE
                        /\ \A i \in 0 .. n1 - 1 : x[i] = w[f + i]
      OBVIOUS
    <3>1. n1 = n - f /\ lo1 = 0 /\ rep1 = FALSE /\ rd_ptr' = Nth(rd_ptr, f)
      BY <1>3, <1>8, <1>9, <1>10, <1>11 DEF Goes
    <3>2. ASSUME NEW i \in 0 .. n1 - 1
          PROVE  x[i] = w[f + i]
      <4>1. /\ i \in 0 .. COPY_DEPTH - 1 /\ f + i \in 0 .. n - 1 /\ f + i < COPY_DEPTH
        BY <1>3, <1>4, <3>1, CopyAssumption
      <4>2. Nth(Nth(rd_ptr, f), i) = Nth(rd_ptr, f + i)
        BY <1>3, <1>4, <4>1, NthAre
      <4> QED
        BY <1>5, <1>7, <3>1, <4>1, <4>2
    <3> QED
      BY <3>1, <3>2
  <2>8. /\ left => copy_vld
        /\ copy_vld => f > 0
        /\ ~left => n1 = n /\ lo1 = NSent(f, copy_vld) /\ x = w /\ rep1 = replace_id
        /\ replace_id => \E i \in NSent(f, copy_vld) .. n - 1 : w[i].last
    BY <1>6, <1>10, <1>11, <2>2, <2>4
  <2> HIDE DEF C, P, C1, P1, out
  <2>9. WordsBefore(copy_vld, f, n, w, replace_id)
    BY <1>2, <1>4, <1>5, <2>1, <2>8 DEF WordsBefore
  <2>10. WordsAfter(again, copy_vld, f, n, w, replace_id, lo1, n1, x, rep1, left)
    BY <1>4, <1>7, <1>8, <1>9, <1>10, <2>5, <2>6, <2>7, <2>8 DEF WordsAfter
  <2>11. Went(again, copy_vld, f, n, w, replace_id, lo1, n1, x, rep1, left)
    BY <2>9, <2>10, WordsGo
  <2> QED
    BY <1>6, <2>11 DEF C, P, C1, P1, out, Went
<1>13. C \in Seq(CopyWords) /\ C1 \in Seq(CopyWords)
  <2>1. IsRest(C, w, lo, n, replace_id) /\ IsRest(C1, x, lo1, n1, rep1)
    BY <1>4, RestIs
  <2> QED
    BY <2>1 DEF IsRest
<1>14. CopyContents = C /\ CopySent = P
  BY <1>3, <1>6, FifoTells DEF Tells
<1> DEFINE write == in # <<>> /\ ~CopyInWait
<1>15. /\ wr_ptr' = IF write THEN NextSlot(wr_ptr) ELSE wr_ptr
       /\ memory' = IF write THEN [memory EXCEPT ![wr_ptr] = in[1]] ELSE memory
       /\ in_xfer' = IF write THEN in ELSE <<>>
       /\ out_xfer' = IF copy_vld /\ rd THEN <<CopyOutWord>> ELSE <<>>
       /\ again_xfer' = (copy_vld /\ rd /\ copy_data.last /\ again)
  BY <1>1 DEF FifoCycle, FifoCopyCycle
<1> HIDE DEF C, P, C1, P1
<1>16. /\ CopyContents' = C1 \o in_xfer' /\ CopySent' = P1 /\ in_xfer' \in Seq(CopyWords)
       /\ ReplayInv'
  <2>1. CASE ~write
    <3>1. wr_ptr' = wr_ptr /\ memory' = memory /\ in_xfer' = <<>>
      BY <1>15, <2>1
    <3>2. CopyContents' = C1 /\ CopySent' = P1
      BY <1>1, <1>3, <1>8, <1>9, <3>1, FifoTellsNext DEF Tells, C1, P1
    <3>3. C1 \o <<>> = C1
      BY <1>13, QueueJoins
    <3>4. <<>> \in Seq(CopyWords)
      OBVIOUS
    <3>5. rep1 => \E i \in lo1 .. n1 - 1 : memory'[Nth(rd_ptr', i)].last
      <4>1. \A i \in lo1 .. n1 - 1 : i \in 0 .. n1 - 1
        BY <1>9
      <4> QED
        BY <1>7, <1>12, <3>1, <4>1
    <3>6. EndIsInside(rep1, rd_ptr', Nth(rd_ptr', f1), Nth(rd_ptr', n1), copy_vld', memory')
      BY <1>3, <1>4, <1>9, <3>5, FramesAreUnique
    <3>7. ReplayInv'
      BY <1>2, <1>3, <1>8, <3>1, <3>6 DEF ReplayInv
    <3> QED
      BY <3>1, <3>2, <3>3, <3>4, <3>7
  <2>2. CASE write
    <3>1. PICK new \in CopyInputs : in = <<new>>
      BY <2>2
    <3>2. new \in CopyWords
      BY <3>1, InputsAreWords
    <3>3. n1 + 1 < COPY_DEPTH /\ n1 + 1 \in 0 .. COPY_DEPTH - 1 /\ (n1 + 1) - 1 = n1
      BY <1>3, <2>2, CopyAssumption
    <3>4. wr_ptr' = Nth(rd_ptr', n1 + 1)
      BY <1>3, <1>4, <1>15, <2>2, <3>3, NthAre
    <3>5. PICK mem \in [Slots -> CopyWords] :
             mem = memory' /\ mem = [memory EXCEPT ![Nth(rd_ptr', n1)] = new]
      BY <1>2, <1>3, <1>15, <2>2, <3>1, <3>2
    <3>6. Frames(rd_ptr', f1, n1 + 1, IF new.last THEN 0 ELSE frame_len + 1, mem, copy_vld', copy_data')
      <4>1. Frames(rd_ptr', f1, n1 + 1, IF new.last THEN 0 ELSE frame_len + 1,
                   [memory EXCEPT ![Nth(rd_ptr', n1)] = new], copy_vld', copy_data')
        BY <1>3, <3>3, WordEnters
      <4> QED
        BY <3>5, <4>1
    <3>7. PICK y \in [0 .. (n1 + 1) - 1 -> CopyWords] :
             \A i \in 0 .. (n1 + 1) - 1 : y[i] = mem[Nth(rd_ptr', i)]
      <4>1. PICK k \in 0 .. COPY_DEPTH - 1 : k = n1 + 1
        BY <3>3
      <4>2. HasWords(rd_ptr', k, mem)
        BY <1>4, <3>5, WordsFrom
      <4> QED
        BY <4>1, <4>2 DEF HasWords
    <3>8. Tells(rd_ptr', f1, n1 + 1, mem, copy_vld', copy_data', rep1, y)
      BY <1>2, <3>3, <3>6, <3>7, RingHolds
    <3>9. Nth(rd_ptr', n1) \in Slots
      BY <1>3, <1>4, NthAre
    <3>10. y[n1] = new
      <4>1. n1 \in 0 .. (n1 + 1) - 1
        BY <1>4
      <4> QED
        BY <1>2, <3>5, <3>7, <3>9, <4>1
    <3>11. \A i \in 0 .. n1 - 1 : y[i] = x[i]
      <4> SUFFICES ASSUME NEW i \in 0 .. n1 - 1  PROVE y[i] = x[i]
        OBVIOUS
      <4>1. i \in 0 .. (n1 + 1) - 1 /\ i # n1 /\ i \in 0 .. COPY_DEPTH - 1
        BY <1>3, <1>4, CopyAssumption
      <4>2. Nth(rd_ptr', i) # Nth(rd_ptr', n1) /\ Nth(rd_ptr', i) \in Slots
        BY <1>3, <1>4, <4>1, NthAre
      <4> QED
        BY <1>2, <1>7, <3>5, <3>7, <4>1, <4>2
    <3>12. y \in [0 .. n1 -> CopyWords]
      BY <3>3, <3>7
    <3>13. Grows(x, y, lo1, n1, rep1)
      BY <1>4, <1>12, <3>11, <3>12, RestGrows
    <3>14. in_xfer' = <<new>> /\ in_xfer' \in Seq(CopyWords)
      BY <1>15, <2>2, <3>1, <3>2
    <3>15. /\ CopyContents' = Rest(y, lo1, n1 + 1, rep1)
           /\ CopySent' = Past(y, lo1, rep1)
      BY <1>1, <1>3, <1>8, <1>9, <3>4, <3>5, <3>8, FifoTellsNext DEF Tells
    <3>16. CopyContents' = C1 \o in_xfer' /\ CopySent' = P1
      BY <3>10, <3>13, <3>14, <3>15 DEF Grows, C1, P1
    <3>17. rep1 => \E i \in lo1 .. (n1 + 1) - 1 : mem[Nth(rd_ptr', i)].last
      <4>1. \A i \in lo1 .. n1 - 1 : i \in 0 .. n1 - 1 /\ i \in lo1 .. (n1 + 1) - 1
                                     /\ i \in 0 .. (n1 + 1) - 1
        BY <1>9
      <4> QED
        BY <1>12, <3>7, <3>11, <4>1
    <3>18. EndIsInside(rep1, rd_ptr', Nth(rd_ptr', f1), Nth(rd_ptr', n1 + 1), copy_vld', mem)
      BY <1>3, <1>4, <1>9, <3>3, <3>17, FramesAreUnique
    <3>19. ReplayInv'
      BY <1>2, <1>3, <1>8, <3>4, <3>5, <3>18 DEF ReplayInv
    <3> QED
      BY <3>14, <3>16, <3>19
  <2> QED
    BY <2>1, <2>2
<1>17. /\ out_xfer' = (IF left THEN <<out>> ELSE <<>>)
       /\ again_xfer' <=> left /\ out.last /\ again
  <2>1. copy_vld => w[f - 1] \in CopyWords
    BY <1>11
  <2>2. copy_vld => out.last = copy_data.last
    BY <1>11, <2>1, OtherIs
  <2>3. copy_vld => CopyOutWord = out
    BY <1>11 DEF CopyOutWord, Told, Other
  <2> QED
    BY <1>10, <1>15, <2>2, <2>3
<1> HIDE DEF out
<1>18. Replays
  BY <1>12, <1>13, <1>14, <1>16, <1>17, InputFollows
<1> QED
  BY <1>16, <1>18

---------------------------------------------------------------------------
(* Axi4SRegCopy, and both *)

\* Axi4SRegCopy: the register holds the end of a frame.
OneWord(o, d) == [occupied |-> <<o, FALSE>>, reader_prio |-> 0, data |-> <<d, Undef>>]

OneWordInv ==
    \E o \in BOOLEAN, d \in CopyWords \cup {Undef} :
        copy_reg = OneWord(o, d) /\ (o => d \in CopyWords /\ d.last = TRUE)

LEMMA OneWordIs ==
  ASSUME NEW o \in BOOLEAN, NEW d
  PROVE  /\ OutVld(OneWord(o, d)) <=> o
         /\ o => OutWord(OneWord(o, d)) = d
         /\ \A rd : InRd("latency", OneWord(o, d), rd) <=> (o => rd)
         /\ Held(OneWord(o, d)) = IF o THEN <<d>> ELSE <<>>
<1>1. PICK r : r = OneWord(o, d)
  OBVIOUS
<1>2. r.occupied = <<o, FALSE>> /\ r.reader_prio = 0 /\ r.data = <<d, Undef>>
  BY <1>1 DEF OneWord
<1>3. r.occupied[1] = o /\ r.occupied[2] = FALSE /\ r.data[1] = d
  BY <1>2
<1> QED
  BY <1>1, <1>3 DEF OutVld, OutWord, Consume0, InRd, Held

\* Its two fields are written one after the other.
Loaded(r, o, d) == [r EXCEPT !.occupied[1] = o, !.data[1] = d]
WithFirst(q, v) == [q EXCEPT ![1] = v]
WithOccupied(r, q) == [r EXCEPT !.occupied = q]
WithData(r, q) == [r EXCEPT !.data = q]

LEMMA LoadedIs ==
  ASSUME NEW r, NEW o, NEW d, NEW a, a = WithOccupied(r, WithFirst(r.occupied, o))
  PROVE  Loaded(r, o, d) = WithData(a, WithFirst(a.data, d))
BY DEF Loaded, WithOccupied, WithFirst, WithData

LEMMA WithFirstIs ==
  ASSUME NEW x, NEW y, NEW v
  PROVE  WithFirst(<<x, y>>, v) = <<v, y>>
BY DEF WithFirst

RegOf(x, y, z) == [occupied |-> x, reader_prio |-> y, data |-> z]

LEMMA WithFieldIs ==
  ASSUME NEW x, NEW y, NEW z, NEW q
  PROVE  /\ WithOccupied(RegOf(x, y, z), q) = RegOf(q, y, z)
         /\ WithData(RegOf(x, y, z), q) = RegOf(x, y, q)
         /\ RegOf(x, y, z).occupied = x /\ RegOf(x, y, z).data = z
BY DEF WithOccupied, WithData, RegOf

LEMMA OneWordChanges ==
  ASSUME NEW r, NEW o, NEW d, NEW o1, NEW d1, r = OneWord(o, d)
  PROVE  Loaded(r, o1, d1) = OneWord(o1, d1)
<1>1. r = RegOf(<<o, FALSE>>, 0, <<d, Undef>>) /\ r.occupied = <<o, FALSE>>
  BY WithFieldIs DEF OneWord, RegOf
<1>2. PICK a : a = WithOccupied(r, WithFirst(r.occupied, o1))
  OBVIOUS
<1>3. Loaded(r, o1, d1) = WithData(a, WithFirst(a.data, d1))
  BY <1>2, LoadedIs
<1>4. WithFirst(r.occupied, o1) = <<o1, FALSE>>
  BY <1>1, WithFirstIs
<1>5. a = RegOf(<<o1, FALSE>>, 0, <<d, Undef>>) /\ a.data = <<d, Undef>>
  <2>1. PICK x, z, q : x = <<o, FALSE>> /\ z = <<d, Undef>> /\ q = <<o1, FALSE>>
    OBVIOUS
  <2>2. WithOccupied(RegOf(x, 0, z), q) = RegOf(q, 0, z)
    BY WithFieldIs
  <2>3. RegOf(q, 0, z).data = z
    BY WithFieldIs
  <2> QED
    BY <1>1, <1>2, <1>4, <2>1, <2>2, <2>3
<1>6. WithFirst(a.data, d1) = <<d1, Undef>>
  BY <1>5, WithFirstIs
<1>7. Loaded(r, o1, d1) = RegOf(<<o1, FALSE>>, 0, <<d1, Undef>>)
  BY <1>3, <1>5, <1>6, WithFieldIs
<1> QED
  BY <1>7 DEF OneWord, RegOf

LEMMA OneWordNext ==
  ASSUME NEW o \in BOOLEAN, NEW d, NEW fed, NEW rd \in BOOLEAN
  PROVE  NextLatency(OneWord(o, d), fed, rd) =
            OneWord(IF o THEN ~(rd /\ fed = <<>>) ELSE fed # <<>>,
                    IF fed # <<>> /\ (o => rd) THEN fed[1] ELSE d)
<1>1. PICK r : r = OneWord(o, d)
  OBVIOUS
<1>2. r.occupied[1] = o /\ r.data[1] = d
  BY <1>1 DEF OneWord
<1>3. PICK o1, d1 : /\ o1 = (IF o THEN ~(rd /\ fed = <<>>) ELSE fed # <<>>)
                    /\ d1 = (IF fed # <<>> /\ (o => rd) THEN fed[1] ELSE d)
  OBVIOUS
<1>4. NextLatency(r, fed, rd) = Loaded(r, o1, d1)
  BY <1>2, <1>3 DEF NextLatency, Loaded
<1>5. Loaded(r, o1, d1) = OneWord(o1, d1)
  BY <1>1, OneWordChanges
<1> QED
  BY <1>1, <1>3, <1>4, <1>5

LEMMA OneWordStart == OneWord(FALSE, Undef) = PowerUp(<<>>)
BY DEF OneWord, PowerUp

LEMMA RegReplays ==
  ASSUME OneWordInv, copy_mode = "reg",
         NEW in \in {<<>>} \cup {<<word>> : word \in CopyInputs},
         NEW rd \in BOOLEAN, NEW again \in BOOLEAN, CopyCycle(in, rd, again)
  PROVE  OneWordInv' /\ Replays
<1>1. RegCopyCycle(in, rd, again) /\ (again => OutVld(copy_reg)) /\ (copy_mode = "reg")'
  BY DEF CopyCycle
<1>2. PICK o \in BOOLEAN, d \in CopyWords \cup {Undef} :
         copy_reg = OneWord(o, d) /\ (o => d \in CopyWords /\ d.last = TRUE)
  BY DEF OneWordInv
<1>3. /\ OutVld(copy_reg) <=> o
      /\ o => OutWord(copy_reg) = d
      /\ InRd("latency", copy_reg, rd) <=> (o => rd)
      /\ Held(copy_reg) = IF o THEN <<d>> ELSE <<>>
  BY <1>2, OneWordIs
<1>4. in \in Seq(CopyWords) /\ (in # <<>> => in[1] \in CopyWords /\ in[1].last = TRUE /\ in = <<in[1]>>)
  <2>1. CASE in = <<>>
    BY <2>1
  <2>2. CASE in # <<>>
    <3>1. PICK new \in CopyInputs : in = <<new>>
      BY <2>2
    <3>2. new \in CopyWords /\ new.last = TRUE
      <4>1. new.last = TRUE
        BY DEF CopyInputs
      <4> QED
        BY <4>1, InputsAreWords
    <3> QED
      BY <3>1, <3>2
  <2> QED
    BY <2>1, <2>2
<1> DEFINE word == IF again THEN <<d>> ELSE in
           fed == [i \in 1 .. Len(word) |-> IF again THEN Other(word[i]) ELSE word[i]]
<1>5. fed = IF again THEN <<Other(d)>> ELSE in
  <2>1. CASE again
    <3>1. word = <<d>> /\ Len(word) = 1 /\ word[1] = d
      BY <2>1
    <3>2. fed = [i \in 1 .. 1 |-> Other(d)]
      BY <2>1, <3>1
    <3> QED
      BY <2>1, <3>2
  <2>2. CASE ~again
    <3>1. word = in /\ fed = [i \in 1 .. Len(in) |-> in[i]]
      BY <2>2
    <3> QED
      BY <1>4, <2>2, <3>1
  <2> QED
    BY <2>1, <2>2
<1>6. /\ copy_reg' = NextLatency(copy_reg, fed, rd)
      /\ in_xfer' = IF (o => rd) /\ ~again THEN in ELSE <<>>
      /\ out_xfer' = IF o /\ rd THEN <<d>> ELSE <<>>
      /\ again_xfer' <=> again /\ rd
  BY <1>1, <1>2, <1>3 DEF RegCopyCycle, CopyEn, Other
<1> HIDE DEF fed
<1>7. copy_reg' = OneWord(IF o THEN ~(rd /\ fed = <<>>) ELSE fed # <<>>,
                          IF fed # <<>> /\ (o => rd) THEN fed[1] ELSE d)
  BY <1>2, <1>6, OneWordNext
<1>8. CopyContents = Held(copy_reg) /\ CopyContents' = Held(copy_reg') /\ CopySent = <<>> /\ CopySent' = <<>>
  BY <1>1 DEF CopyContents, CopySent, Held
<1>9. CASE ~o
  <2>1. ~again
    BY <1>1, <1>3, <1>9
  <2>2. fed = in /\ in_xfer' = in /\ out_xfer' = <<>>
    BY <1>5, <1>6, <1>9, <2>1
  <2>3. /\ in = <<>> => copy_reg' = OneWord(FALSE, d)
        /\ in # <<>> => copy_reg' = OneWord(TRUE, in[1])
    BY <1>7, <1>9, <2>2
  <2>4. Held(copy_reg') = in
    BY <1>4, <2>3, OneWordIs
  <2>5. <<>> \o in = in
    BY <1>4, QueueJoins
  <2>6. Replays
    <3>1. CopyContents' = CopyContents \o in_xfer' /\ CopySent' = CopySent
      BY <1>3, <1>8, <1>9, <2>2, <2>4, <2>5
    <3> QED
      BY <2>2, <3>1 DEF Replays
  <2>7. OneWordInv'
    BY <1>2, <1>4, <2>3 DEF OneWordInv
  <2> QED
    BY <2>6, <2>7
<1>10. CASE o /\ ~rd
  <2>1. in_xfer' = <<>> /\ out_xfer' = <<>> /\ copy_reg' = OneWord(TRUE, d)
    BY <1>6, <1>7, <1>10
  <2>2. Held(copy_reg') = <<d>>
    BY <2>1, OneWordIs
  <2>3. <<d>> \in Seq(CopyWords) /\ <<d>> \o <<>> = <<d>>
    BY <1>2, <1>10, QueueJoins
  <2>4. Replays
    BY <1>3, <1>8, <1>10, <2>1, <2>2, <2>3 DEF Replays
  <2>5. OneWordInv'
    BY <1>2, <1>10, <2>1 DEF OneWordInv
  <2> QED
    BY <2>4, <2>5
<1>11. CASE o /\ rd /\ ~again
  <2>1. fed = in /\ in_xfer' = in /\ out_xfer' = <<d>> /\ again_xfer' = FALSE
    BY <1>5, <1>6, <1>11
  <2>2. /\ in = <<>> => copy_reg' = OneWord(FALSE, d)
        /\ in # <<>> => copy_reg' = OneWord(TRUE, in[1])
    BY <1>7, <1>11, <2>1
  <2>3. Held(copy_reg') = in
    BY <1>4, <2>2, OneWordIs
  <2>4. /\ <<d>> \in Seq(CopyWords) /\ <<d>> # <<>> /\ Head(<<d>>) = d /\ Tail(<<d>>) = <<>>
    BY <1>2, <1>11
  <2>5. Head(<<d>> \o in) = d /\ Tail(<<d>> \o in) = in /\ <<>> \o in = in
    <3>1. PICK p \in Seq(CopyWords) : p = <<d>>
      BY <2>4
    <3>2. Head(p \o in) = Head(p) /\ Tail(p \o in) = Tail(p) \o in
      BY <1>4, <2>4, <3>1, QueueHeads
    <3>3. <<>> \o in = in
      BY <1>4, QueueJoins
    <3> QED
      BY <2>4, <3>1, <3>2, <3>3
  <2>6. Replays
    <3>1. /\ out_xfer' # <<>> /\ out_xfer'[1] = d /\ d.last = TRUE /\ again_xfer' = FALSE
          /\ CopyContents # <<>> /\ d = Head(CopyContents \o in_xfer') /\ CopySent' = <<>>
          /\ CopyContents' = <<>> \o Tail(CopyContents \o in_xfer')
      BY <1>2, <1>3, <1>8, <1>11, <2>1, <2>3, <2>4, <2>5
    <3> QED
      BY <3>1 DEF Replays
  <2>7. OneWordInv'
    BY <1>2, <1>4, <2>2 DEF OneWordInv
  <2> QED
    BY <2>6, <2>7
<1>12. CASE o /\ rd /\ again
  <2>1. Other(d) \in CopyWords /\ Other(d).last = TRUE /\ <<Other(d)>> \in Seq(CopyWords)
    BY <1>2, <1>12, OtherIs
  <2>2. fed = <<Other(d)>> /\ in_xfer' = <<>> /\ out_xfer' = <<d>> /\ again_xfer' = TRUE
    BY <1>5, <1>6, <1>12
  <2>3. copy_reg' = OneWord(TRUE, Other(d))
    BY <1>7, <1>12, <2>2
  <2>4. Held(copy_reg') = <<Other(d)>>
    BY <2>3, OneWordIs
  <2>5. /\ <<d>> \in Seq(CopyWords) /\ <<d>> # <<>> /\ Head(<<d>>) = d /\ Tail(<<d>>) = <<>>
        /\ <<d>> \o <<>> = <<d>>
    <3>1. <<d>> \in Seq(CopyWords)
      BY <1>2, <1>12
    <3> QED
      BY <3>1, QueueJoins
  <2>6. Renamed(<<d>>) = <<Other(d)>>
    BY DEF Renamed, Other
  <2>7. <<Other(d)>> \o <<>> = <<Other(d)>>
    BY <2>1, QueueJoins
  <2>8. Replays
    BY <1>2, <1>3, <1>8, <1>12, <2>2, <2>4, <2>5, <2>6, <2>7 DEF Replays
  <2>9. OneWordInv'
    BY <2>1, <2>3 DEF OneWordInv
  <2> QED
    BY <2>8, <2>9
<1> QED
  BY <1>9, <1>10, <1>11, <1>12

\* The invariant of both.
CopyInv ==
    /\ copy_mode \in {"fifo", "reg"}
    /\ copy_mode = "fifo" => ReplayInv
    /\ copy_mode = "reg" => OneWordInv

LEMMA CopyInvStarts ==
  ASSUME copy_mode \in {"fifo", "reg"}, CopyInit
  PROVE  CopyInv
<1>1. FrameInv
  BY InitFrames
<1>2. NoWord \in CopyWords
  <2>1. Undef \in Data \cup {Undef} /\ OwnId \in {OwnId, OtherId} /\ FALSE \in BOOLEAN
    OBVIOUS
  <2> QED
    BY <2>1 DEF NoWord, CopyWords
<1>3. memory \in [Slots -> CopyWords] /\ replace_id = FALSE
  BY <1>2 DEF CopyInit
<1>4. ReplayInv
  BY <1>1, <1>3 DEF ReplayInv, EndIsInside
<1>5. copy_reg = OneWord(FALSE, Undef)
  BY OneWordStart DEF CopyInit
<1>6. OneWordInv
  BY <1>5 DEF OneWordInv
<1> QED
  BY <1>4, <1>6 DEF CopyInv

LEMMA CopyInvHolds ==
  ASSUME CopyInv, NEW in \in {<<>>} \cup {<<word>> : word \in CopyInputs},
         NEW rd \in BOOLEAN, NEW again \in BOOLEAN, CopyCycle(in, rd, again)
  PROVE  CopyInv' /\ Replays
<1>1. copy_mode' = copy_mode
  BY DEF CopyCycle
<1>2. CASE copy_mode = "fifo"
  <2>1. ReplayInv' /\ Replays
    BY <1>2, FifoReplays DEF CopyInv
  <2> QED
    BY <1>1, <1>2, <2>1 DEF CopyInv
<1>3. CASE copy_mode = "reg"
  <2>1. OneWordInv' /\ Replays
    BY <1>3, RegReplays DEF CopyInv
  <2> QED
    BY <1>1, <1>3, <2>1 DEF CopyInv
<1> QED
  BY <1>2, <1>3 DEF CopyInv

\* Frames are sent once, in order, and once more for each copy that is asked for.
THEOREM FramesStayReplayed == CopySpec => FramesAreReplayed
<1> DEFINE Step == \E in \in {<<>>} \cup {<<word>> : word \in CopyInputs}, rd, again \in BOOLEAN :
                       CopyCycle(in, rd, again)
<1>1. copy_mode \in {"fifo", "reg"} /\ CopyInit => CopyInv
  BY CopyInvStarts
<1>2. CopyInv /\ [Step]_copyVars => CopyInv'
  <2>1. CASE Step
    BY <2>1, CopyInvHolds
  <2>2. CASE UNCHANGED copyVars
    BY <2>2 DEF copyVars, CopyInv, ReplayInv, FrameInv, EndIsInside, OneWordInv
  <2> QED
    BY <2>1, <2>2
<1>3. CopyInv /\ [Step]_copyVars => [Replays]_copyVars
  BY CopyInvHolds
<1>4. CopySpec => [][Replays]_copyVars
  BY <1>1, <1>2, <1>3, PTL DEF CopySpec
<1> QED
  BY <1>4 DEF FramesAreReplayed, Replays
===========================================================================
