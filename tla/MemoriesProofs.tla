--------------------------- MODULE MemoriesProofs ---------------------------
(***************************************************************************)
(* Proofs about the memories that several users or ports share: the cache, *)
(* the RAMs with several write ports or with masks, the lists in one       *)
(* memory, the memory of items of several words, the hash table, and what  *)
(* goes through structures in memory over a datapump.  Each part has the   *)
(* inductive invariant of its component, a lemma for each way in which a   *)
(* step can disturb it, and ends with the theorem.                         *)
(***************************************************************************)
EXTENDS RamTransactional, FifoArray, RamPorts, AxiCache, CuckooHashTable,
        StructManipulators, FiniteSetTheorems, SequenceTheorems, WellFoundedInduction, TLAPS

---------------------------------------------------------------------------
(* A set of numbers has a least one. *)

LEMMA LeastExists ==
    ASSUME NEW S, S \subseteq Nat, S # {}
    PROVE  \E w \in S : \A v \in S : w <= v
<1> DEFINE R == {ss \in Nat \X Nat : ss[1] < ss[2]}
<1>1. IsWellFoundedOn(R, Nat)
  BY NatLessThanWellFounded, SMT DEF OpToRel
<1>2. PICK x \in S : \A y \in S : ~(<<y, x>> \in R)
  <2> HIDE DEF R
  <2> QED  BY <1>1, WFMin
<1>3. \A y \in S : x <= y
  <2> SUFFICES ASSUME NEW y \in S  PROVE x <= y
    OBVIOUS
  <2>1. x \in Nat /\ y \in Nat
    OBVIOUS
  <2>2. y < x => <<y, x>> \in R
    BY <2>1, SMT
  <2> QED  BY <1>2, <2>1, <2>2, SMT
<1> QED  BY <1>3

LEMMA LeastIsIn ==
    ASSUME NEW S, S \subseteq Nat, S # {}
    PROVE  (CHOOSE w \in S : \A v \in S : w <= v) \in S
  BY LeastExists

---------------------------------------------------------------------------
(* The cache *)

\* The types of what the tags and the data depend on; a port, a stage and the update of the
\* last clock hold one thing at most.
CacheTypeOK ==
    /\ tag_mem \in [Indexes -> AnyTags]
    /\ lookup_tmp \in [{"r", "w"} -> Offer]
    /\ tag_dout \in [{"r", "w"} -> AnyTags]
    /\ data_array \in [Indexes -> [Ways -> Tags \cup {Stale}]]
    /\ init_cntr \in 0 .. Cardinality(Indexes)
    /\ update_tmp \subseteq [index : Indexes, tag : Tags \cup {NoTag}, way_en : SUBSET Ways,
                             delete : BOOLEAN]
    /\ \A u, v \in update_tmp : u = v
    /\ \A s, t \in st0 : s = t

\* While the tags are being cleared nothing else happens.
Clearing ==
    init_in_progress =>
        /\ lookup_tmp["r"] = {} /\ lookup_tmp["w"] = {} /\ st0 = {} /\ memory = Lines
        /\ \A i \in Indexes, w \in Ways : i < init_cntr => tag_mem[i][w] = NoTag

\* A tag is in one way of its set, with its data; a line without a way is in the memory.
TagsLeadToData ==
    /\ \A i \in Indexes, v, w \in Ways :
           tag_mem[i][v] = tag_mem[i][w] /\ tag_mem[i][v] # NoTag => v = w
    /\ \A i \in Indexes, w \in Ways :
           tag_mem[i][w] # NoTag => data_array[i][w] = tag_mem[i][w]
    /\ \A l \in Lines : (\A w \in Ways : tag_mem[l.index][w] # l.tag) => l \in memory

\* The set of a write that is under way changes with it only.
LookupIsAlone ==
    \A l \in lookup_tmp["w"] :
        /\ tag_dout["w"] = tag_mem[l.index]
        /\ \A u \in update_tmp : u.index # l.index
        /\ \A s \in st0 : s.line.index # l.index

\* The write that gets its way knows the tags of its set.
StageKnows ==
    \A s \in st0 :
        /\ s.line \in Lines /\ s.tags = tag_mem[s.line.index]
        /\ s.tag_found <=> \E w \in Ways : s.tags[w] = s.line.tag
        /\ s.tag_found => s.found_way \in Ways /\ s.tags[s.found_way] = s.line.tag

\* The read port has the tags of the last clock; what changed since is in update_tmp.
ReadIsCorrected ==
    \A l \in lookup_tmp["r"], w \in Ways :
        tag_mem[l.index][w] =
            IF \E u \in update_tmp : u.index = l.index /\ w \in u.way_en
            THEN LET u == CHOOSE v \in update_tmp : TRUE IN IF u.delete THEN NoTag ELSE u.tag
            ELSE tag_dout["r"][w]

CacheInv ==
    /\ CacheTypeOK /\ Clearing
    /\ ~init_in_progress => TagsLeadToData
    /\ LookupIsAlone /\ StageKnows /\ ReadIsCorrected

LEMMA LinesAre ==
    ASSUME NEW l \in Lines
    PROVE  /\ l.index \in Indexes /\ l.tag \in Tags /\ l.tag # NoTag
           /\ l = [index |-> l.index, tag |-> l.tag]
  BY CacheAssumption DEF Indexes, Tags

LEMMA InitCacheInv == CacheInit => CacheInv
<1> SUFFICES ASSUME CacheInit  PROVE CacheInv
  OBVIOUS
<1>1. PICK n \in Nat : n = Cardinality(Indexes)
  BY CacheAssumption, FS_CardinalityType
<1>2. Indexes = 0 .. n - 1
  BY <1>1, CacheAssumption
<1>3. CacheTypeOK
  <2>1. init_cntr \in 0 .. Cardinality(Indexes)
    BY <1>1 DEF CacheInit
  <2>2. \A f \in [{"r", "w"} -> {[w \in Ways |-> NoTag]}] : f \in [{"r", "w"} -> AnyTags]
    BY DEF AnyTags
  <2> QED
    BY <2>1, <2>2 DEF CacheInit, CacheTypeOK, Offer
<1>4. Clearing
  BY <1>2 DEF CacheInit, Clearing
<1>5. ~init_in_progress => TagsLeadToData
  <2>1. ~init_in_progress => Indexes = {}
    BY <1>2 DEF init_in_progress, CacheInit
  <2> QED
    BY <2>1, LinesAre DEF TagsLeadToData
<1> QED
  BY <1>3, <1>4, <1>5 DEF CacheInv, CacheInit, LookupIsAlone, StageKnows, ReadIsCorrected

\* What a port looks up, and the tags it gets for it.
LEMMA LookingUp ==
    ASSUME CacheTypeOK, NEW p \in {"r", "w"}, NEW line \in Offer, NEW rd \in BOOLEAN
    PROVE  /\ NextLookup(p, line, rd) \in Offer
           /\ NextDout(p, line, rd) \in AnyTags
           /\ \A l \in NextLookup(p, line, rd) :
                 /\ l \in Lines
                 /\ NextDout(p, line, rd) = tag_mem[l.index]
                 /\ l \in line \/ (l \in lookup_tmp[p] /\ ~rd)
<1>1. NextLookup(p, line, rd) \in Offer
  BY DEF NextLookup, CacheTypeOK
<1>2. \A x \in Offer : \A l \in x : l \in Lines /\ x = {l} /\ (CHOOSE m \in x : TRUE) = l
  BY DEF Offer
<1>3. NextLookup(p, line, rd) = {} => NextDout(p, line, rd) = tag_dout[p]
  BY DEF NextDout
<1>4. ASSUME NEW l \in NextLookup(p, line, rd)
      PROVE  /\ l \in Lines
             /\ NextDout(p, line, rd) = tag_mem[l.index]
             /\ l \in line \/ (l \in lookup_tmp[p] /\ ~rd)
  <2>1. l \in Lines /\ (CHOOSE m \in NextLookup(p, line, rd) : TRUE) = l
    BY <1>1, <1>2, <1>4
  <2>2. NextDout(p, line, rd) = tag_mem[l.index]
    BY <1>4, <2>1 DEF NextDout
  <2>3. l \in line \/ (l \in lookup_tmp[p] /\ ~rd)
    BY <1>4 DEF NextLookup
  <2> QED
    BY <2>1, <2>2, <2>3
<1>5. NextDout(p, line, rd) \in AnyTags
  <2>1. CASE NextLookup(p, line, rd) = {}
    BY <1>3, <2>1 DEF CacheTypeOK
  <2>2. CASE NextLookup(p, line, rd) # {}
    <3>1. PICK l \in NextLookup(p, line, rd) : TRUE
      BY <2>2
    <3>2. l.index \in Indexes
      BY <1>4, <3>1, LinesAre
    <3> QED
      BY <1>4, <3>1, <3>2 DEF CacheTypeOK
  <2> QED
    BY <2>1, <2>2
<1> QED
  BY <1>1, <1>4, <1>5

\* The way of a write: the one with its tag; or, when there is none, an empty one or, when
\* there is none either, any.
LEMMA WayOf ==
    ASSUME CacheTypeOK, StageKnows, NEW s \in st0, NEW v \in Ways
    PROVE  LET way == VictimWay(s, v) IN
           /\ way \in Ways
           /\ s.tags[way] = s.line.tag \/ \A w \in Ways : s.tags[w] # s.line.tag
           /\ ~NeedToFlush(s) => s.tags[way] = s.line.tag \/ s.tags[way] = NoTag
           /\ NeedToFlush(s) => \A w \in Ways : s.tags[w] # NoTag /\ s.tags[w] # s.line.tag
<1>1. CASE s.tag_found
  BY <1>1 DEF VictimWay, NeedToFlush, StageKnows
<1>2. CASE ~s.tag_found /\ EmptyWays(s) # {}
  <2>1. VictimWay(s, v) \in EmptyWays(s)
    <3>1. EmptyWays(s) \subseteq Nat
      BY CacheAssumption DEF EmptyWays
    <3> QED
      BY <1>2, <3>1, LeastIsIn, Zenon DEF VictimWay
  <2> QED
    BY <1>2, <2>1 DEF EmptyWays, NeedToFlush, StageKnows
<1>3. CASE ~s.tag_found /\ EmptyWays(s) = {}
  BY <1>3 DEF VictimWay, EmptyWays, NeedToFlush, StageKnows
<1> QED
  BY <1>1, <1>2, <1>3

\* The data array takes a write.
LEMMA StoreLeadsToData ==
    ASSUME CacheTypeOK, StageKnows, TagsLeadToData, NEW s \in st0, NEW v \in Ways,
           NEW way, way = VictimWay(s, v),
           tag_mem' = [i \in Indexes |-> [w \in Ways |->
                          IF i = s.line.index /\ w = way THEN s.line.tag ELSE tag_mem[i][w]]],
           data_array' = DataStored(s, way), memory' = Flushed(s, way)
    PROVE  TagsLeadToData' /\ data_array' \in [Indexes -> [Ways -> Tags \cup {Stale}]]
                           /\ tag_mem' \in [Indexes -> AnyTags]
<1>1. /\ way \in Ways
      /\ s.tags[way] = s.line.tag \/ \A w \in Ways : s.tags[w] # s.line.tag
      /\ ~NeedToFlush(s) => s.tags[way] = s.line.tag \/ s.tags[way] = NoTag
      /\ NeedToFlush(s) => \A w \in Ways : s.tags[w] # NoTag /\ s.tags[w] # s.line.tag
  BY WayOf
<1>2. /\ s.line \in Lines /\ s.line.index \in Indexes /\ s.line.tag \in Tags
      /\ s.line.tag # NoTag /\ s.line = [index |-> s.line.index, tag |-> s.line.tag]
      /\ s.tags = tag_mem[s.line.index]
  BY LinesAre DEF StageKnows
<1>3. PICK i0, t0 : i0 = s.line.index /\ t0 = s.line.tag
  OBVIOUS
<1>4. \A i \in Indexes, w \in Ways :
          /\ tag_mem'[i][w] = IF i = i0 /\ w = way THEN t0 ELSE tag_mem[i][w]
          /\ data_array'[i][w] = IF i # i0 THEN data_array[i][w]
                                 ELSE IF w = way THEN t0
                                 ELSE IF data_array[i][w] = t0 THEN Stale ELSE data_array[i][w]
  BY <1>3 DEF DataStored
<1>5. \A w \in Ways : w # way => tag_mem[i0][w] # t0
  BY <1>1, <1>2, <1>3 DEF TagsLeadToData
<1>6. \A i \in Indexes, x, w \in Ways :
          tag_mem'[i][x] = tag_mem'[i][w] /\ tag_mem'[i][x] # NoTag => x = w
  BY <1>4, <1>5 DEF TagsLeadToData
<1>7. \A i \in Indexes, w \in Ways :
          tag_mem'[i][w] # NoTag => data_array'[i][w] = tag_mem'[i][w]
  BY <1>4, <1>5 DEF TagsLeadToData
<1>8. ASSUME NEW l \in Lines, \A w \in Ways : tag_mem'[l.index][w] # l.tag
      PROVE  l \in memory'
  <2>1. /\ l.index \in Indexes /\ l.tag \in Tags /\ l.tag # NoTag
        /\ l = [index |-> l.index, tag |-> l.tag]
    BY LinesAre
  <2>2. l # s.line
    BY <1>1, <1>2, <1>3, <1>4, <1>8
  <2>3. CASE \A w \in Ways : tag_mem[l.index][w] # l.tag
    <3>1. l \in memory
      BY <2>3 DEF TagsLeadToData
    <3>2. NeedToFlush(s) => data_array[s.line.index][way] = s.tags[way]
      BY <1>1, <1>2 DEF TagsLeadToData
    <3> QED
      BY <2>2, <3>1, <3>2 DEF Flushed
  <2>4. CASE \E w \in Ways : tag_mem[l.index][w] = l.tag
    <3>1. l.index = i0 /\ tag_mem[i0][way] = l.tag
      BY <1>4, <1>8, <2>1, <2>4
    <3>2. l.tag # t0
      BY <1>2, <1>3, <2>1, <2>2, <3>1
    <3>3. NeedToFlush(s)
      BY <1>1, <1>2, <1>3, <2>1, <3>1, <3>2
    <3>4. data_array[i0][way] = l.tag
      BY <1>1, <1>2, <1>3, <2>1, <3>1 DEF TagsLeadToData
    <3>5. l = [index |-> s.line.index, tag |-> s.tags[way]]
      BY <1>2, <1>3, <2>1, <3>1
    <3> QED
      BY <1>2, <1>3, <2>2, <3>1, <3>3, <3>4, <3>5 DEF Flushed
  <2> QED
    BY <2>3, <2>4
<1>9. data_array' \in [Indexes -> [Ways -> Tags \cup {Stale}]]
  BY <1>2 DEF DataStored, CacheTypeOK
<1>10. tag_mem' \in [Indexes -> AnyTags]
  BY <1>2 DEF CacheTypeOK, AnyTags
<1> QED
  BY <1>6, <1>7, <1>8, <1>9, <1>10 DEF TagsLeadToData

\* A clock in which tags are cleared.
LEMMA ClearKeepsInv ==
    ASSUME CacheInv, init_in_progress, NEW aw \in Offer, NEW ar \in Offer, NEW da_rd \in BOOLEAN,
           NEW done \in BOOLEAN, NEW r_rd \in BOOLEAN, NEW v \in Ways,
           CacheCycle(aw, ar, da_rd, done, r_rd, v)
    PROVE  CacheInv'
<1> USE DEF CacheInv
<1> DEFINE da_w_rd == da_rd /\ (~item_open \/ done)
<1>1. PICK n \in Nat : n = Cardinality(Indexes)
  BY CacheAssumption, FS_CardinalityType
<1>2. Indexes = 0 .. n - 1 /\ init_cntr \in Indexes /\ init_cntr \in Nat
  BY <1>1, CacheAssumption DEF init_in_progress
<1>3. lookup_tmp["r"] = {} /\ lookup_tmp["w"] = {} /\ st0 = {} /\ memory = Lines
  BY DEF Clearing
<1>4. Update(da_w_rd, v)
        = {[index |-> init_cntr, tag |-> NoTag, way_en |-> Ways, delete |-> TRUE]}
  BY DEF Update
<1>5. /\ update_tmp' = {[index |-> init_cntr, tag |-> NoTag, way_en |-> Ways, delete |-> TRUE]}
      /\ tag_mem' = NextTags(update_tmp')
      /\ lookup_tmp' = [r |-> {}, w |-> {}]
      /\ st0' = {} /\ init_cntr' = init_cntr + 1
      /\ data_array' = data_array /\ memory' = memory
      /\ tag_dout' \in [{"r", "w"} -> AnyTags]
  <2>1. {} \in Offer
    BY DEF Offer
  <2>2. PICK st0_rd \in BOOLEAN : st0_rd = (st0 = {} \/ da_w_rd)
    OBVIOUS
  <2>3. NextLookup("r", {}, r_rd) = {} /\ NextLookup("w", {}, st0_rd) = {}
    BY <1>3 DEF NextLookup
  <2>4. NextDout("r", {}, r_rd) \in AnyTags /\ NextDout("w", {}, st0_rd) \in AnyTags
    BY <2>1, LookingUp
  <2>5. /\ update_tmp' = Update(da_w_rd, v)
        /\ tag_mem' = NextTags(Update(da_w_rd, v))
        /\ lookup_tmp' = [r |-> NextLookup("r", {}, r_rd), w |-> NextLookup("w", {}, st0_rd)]
        /\ tag_dout' = [r |-> NextDout("r", {}, r_rd), w |-> NextDout("w", {}, st0_rd)]
        /\ st0' = {} /\ init_cntr' = init_cntr + 1
        /\ data_array' = data_array /\ memory' = memory
    BY <1>3, <2>2 DEF CacheCycle
  <2> QED
    BY <1>4, <2>3, <2>4, <2>5
<1>12. PICK u0 : u0 = [index |-> init_cntr, tag |-> NoTag, way_en |-> Ways, delete |-> TRUE]
  OBVIOUS
<1>13. /\ update_tmp' = {u0} /\ u0.index = init_cntr /\ u0.way_en = Ways /\ u0.delete
       /\ u0 \in [index : Indexes, tag : Tags \cup {NoTag}, way_en : SUBSET Ways,
                  delete : BOOLEAN]
  BY <1>2, <1>5, <1>12
<1>14. (CHOOSE x \in {u0} : TRUE) = u0
  OBVIOUS
<1>15. tag_mem' = [i \in Indexes |-> [w \in Ways |->
                      IF i = init_cntr THEN NoTag ELSE tag_mem[i][w]]]
  <2>1. tag_mem' = NextTags({u0})
    BY <1>5, <1>13
  <2>2. \A i \in Indexes, w \in Ways :
            (\E u \in {u0} : u.index = i /\ w \in u.way_en) <=> i = init_cntr
    BY <1>13
  <2> QED
    BY <1>13, <1>14, <2>1, <2>2 DEF NextTags
<1>6. \A i \in Indexes, w \in Ways :
          tag_mem'[i][w] = IF i = init_cntr THEN NoTag ELSE tag_mem[i][w]
  BY <1>15
<1>7. tag_mem' \in [Indexes -> AnyTags]
  BY <1>15 DEF AnyTags, CacheTypeOK
<1>8. CacheTypeOK'
  <2>1. {} \in Offer
    BY DEF Offer
  <2>2. /\ update_tmp' \subseteq [index : Indexes, tag : Tags \cup {NoTag},
                                  way_en : SUBSET Ways, delete : BOOLEAN]
        /\ \A x, y \in update_tmp' : x = y
    BY <1>13
  <2>3. init_cntr' \in 0 .. Cardinality(Indexes)
    <3>1. init_cntr \in 0 .. n - 1
      BY <1>2
    <3>2. init_cntr + 1 \in 0 .. n
      BY <1>1, <3>1
    <3> QED
      BY <1>1, <1>5, <3>2, Zenon
  <2>4. lookup_tmp' \in [{"r", "w"} -> Offer]
    BY <1>5, <2>1
  <2> QED
    BY <1>5, <1>7, <2>2, <2>3, <2>4 DEF CacheTypeOK
<1>9. \A i \in Indexes, w \in Ways : i < init_cntr' => tag_mem'[i][w] = NoTag
  <2>1. \A i \in Indexes : i < init_cntr' => i = init_cntr \/ i < init_cntr
    BY <1>2, <1>5
  <2> QED
    BY <1>6, <2>1 DEF Clearing
<1>10. Clearing'
  BY <1>3, <1>5, <1>9 DEF Clearing
<1>11. ~init_in_progress' => TagsLeadToData'
  <2> SUFFICES ASSUME ~init_in_progress'  PROVE TagsLeadToData'
    OBVIOUS
  <2>1. init_cntr' = n
    BY <1>2, <1>5 DEF init_in_progress
  <2>2. \A i \in Indexes, w \in Ways : tag_mem'[i][w] = NoTag
    BY <1>2, <1>9, <2>1
  <2> QED
    BY <1>3, <1>5, <2>2, LinesAre DEF TagsLeadToData
<1> QED
  BY <1>5, <1>8, <1>10, <1>11 DEF LookupIsAlone, StageKnows, ReadIsCorrected

\* What a write finds.
LEMMA FoundIs ==
    ASSUME CacheTypeOK, LookupIsAlone, NEW l \in lookup_tmp["w"]
    PROVE  FoundWays(l, tag_dout["w"]) = {w \in Ways : tag_mem[l.index][w] = l.tag}
<1>1. JustUpdated(l) = {}
  BY DEF JustUpdated, LookupIsAlone
<1> QED
  BY <1>1 DEF FoundWays, LookupIsAlone

\* The tags after a clock: nothing, or the way of one write has changed.
LEMMA TagsAfter ==
    ASSUME CacheTypeOK, StageKnows, ~init_in_progress, NEW da_w_rd \in BOOLEAN, NEW v \in Ways
    PROVE  LET upd == Update(da_w_rd, v) IN
           /\ \A u, x \in upd : u = x
           /\ upd \subseteq [index : Indexes, tag : Tags \cup {NoTag}, way_en : SUBSET Ways,
                             delete : BOOLEAN]
           /\ st0 = {} \/ ~da_w_rd => upd = {} /\ NextTags(upd) = tag_mem
           /\ \A u \in upd : /\ \E s \in st0 : u.index = s.line.index
                             /\ u.tag # NoTag /\ ~u.delete
           /\ \A s \in st0 : da_w_rd =>
                 /\ \A u \in upd : u.index = s.line.index
                 /\ NextTags(upd) = [i \in Indexes |-> [w \in Ways |->
                       IF i = s.line.index /\ w = VictimWay(s, v) THEN s.line.tag
                       ELSE tag_mem[i][w]]]
<1> DEFINE upd == Update(da_w_rd, v)
           U(s) == [index |-> s.line.index, tag |-> s.line.tag, delete |-> FALSE,
                    way_en |-> {VictimWay(s, v)}]
<1>1. upd = {U(s) : s \in {t \in st0 : da_w_rd}}
  BY DEF Update
<1>2. \A s \in st0 : /\ s.line.index \in Indexes /\ s.line.tag \in Tags /\ s.line.tag # NoTag
                     /\ VictimWay(s, v) \in Ways
  BY WayOf, LinesAre DEF StageKnows
<1>3. \A s, t \in st0 : s = t
  BY DEF CacheTypeOK
<1>4. CASE st0 = {} \/ ~da_w_rd
  <2>1. upd = {}
    BY <1>1, <1>4
  <2>2. NextTags({}) = [i \in Indexes |-> [w \in Ways |-> tag_mem[i][w]]]
    BY DEF NextTags
  <2>3. NextTags({}) = tag_mem
    BY <2>2 DEF CacheTypeOK, AnyTags
  <2> QED
    BY <1>4, <2>1, <2>3
<1>5. CASE st0 # {} /\ da_w_rd
  <2>1. PICK s \in st0 : st0 = {s}
    BY <1>3, <1>5
  <2>2. PICK u0 : u0 = U(s)
    OBVIOUS
  <2>3. upd = {u0}
    BY <1>1, <1>5, <2>1, <2>2
  <2>4. /\ u0.index = s.line.index /\ u0.tag = s.line.tag /\ ~u0.delete
        /\ u0.way_en = {VictimWay(s, v)}
        /\ u0 \in [index : Indexes, tag : Tags \cup {NoTag}, way_en : SUBSET Ways,
                   delete : BOOLEAN]
    BY <1>2, <2>2
  <2>5. (CHOOSE x \in {u0} : TRUE) = u0
    OBVIOUS
  <2>6. NextTags({u0}) = [i \in Indexes |-> [w \in Ways |->
                       IF i = s.line.index /\ w = VictimWay(s, v) THEN s.line.tag
                       ELSE tag_mem[i][w]]]
    <3>1. \A i \in Indexes, w \in Ways :
            (\E u \in {u0} : u.index = i /\ w \in u.way_en)
               <=> i = s.line.index /\ w = VictimWay(s, v)
      BY <2>4
    <3> QED
      BY <2>4, <2>5, <3>1 DEF NextTags
  <2>7. u0.tag # NoTag
    BY <1>2, <2>4
  <2> HIDE DEF U, upd
  <2>8. /\ \A u, x \in upd : u = x
        /\ upd \subseteq [index : Indexes, tag : Tags \cup {NoTag}, way_en : SUBSET Ways,
                         delete : BOOLEAN]
        /\ \A u \in upd : u.index = s.line.index /\ u.tag # NoTag /\ ~u.delete
    BY <2>3, <2>4, <2>7
  <2>9. NextTags(upd) = [i \in Indexes |-> [w \in Ways |->
                       IF i = s.line.index /\ w = VictimWay(s, v) THEN s.line.tag
                       ELSE tag_mem[i][w]]]
    BY <2>3, <2>6
  <2>10. \A t \in st0 : t = s
    BY <2>1
  <2>11. ~(st0 = {} \/ ~da_w_rd)
    BY <1>5
  <2>12. \A u \in upd : /\ \E t \in st0 : u.index = t.line.index
                        /\ u.tag # NoTag /\ ~u.delete
    BY <2>8
  <2>13. \A t \in st0 : da_w_rd =>
                 /\ \A u \in upd : u.index = t.line.index
                 /\ NextTags(upd) = [i \in Indexes |-> [w \in Ways |->
                       IF i = t.line.index /\ w = VictimWay(t, v) THEN t.line.tag
                       ELSE tag_mem[i][w]]]
    <3> SUFFICES ASSUME NEW t \in st0
                 PROVE  /\ \A u \in upd : u.index = t.line.index
                        /\ NextTags(upd) = [i \in Indexes |-> [w \in Ways |->
                              IF i = t.line.index /\ w = VictimWay(t, v) THEN t.line.tag
                              ELSE tag_mem[i][w]]]
      OBVIOUS
    <3>1. t = s
      BY <2>10
    <3>2. \A u \in upd : u.index = s.line.index
      BY <2>8
    <3> QED
      BY <2>9, <3>1, <3>2, Zenon
  <2> QED
    BY <2>8, <2>11, <2>12, <2>13, Zenon DEF upd
<1> QED
  BY <1>4, <1>5

\* A clock after the clearing.
LEMMA WorkKeepsInv ==
    ASSUME CacheInv, ~init_in_progress, ~SAME_SET_OVERLAP,
           NEW aw \in Offer, NEW ar \in Offer, NEW da_rd \in BOOLEAN,
           NEW done \in BOOLEAN, NEW r_rd \in BOOLEAN, NEW v \in Ways,
           \A l \in aw, u \in UnderWay : l.index # u.index,
           CacheCycle(aw, ar, da_rd, done, r_rd, v)
    PROVE  CacheInv'
<1> USE DEF CacheInv
<1>1. PICK da_w_rd \in BOOLEAN : da_w_rd = (da_rd /\ (~item_open \/ done))
  OBVIOUS
<1>2. PICK st0_rd \in BOOLEAN : st0_rd = (st0 = {} \/ da_w_rd)
  OBVIOUS
<1>3. PICK upd : upd = Update(da_w_rd, v)
  OBVIOUS
<1>4. /\ update_tmp' = upd /\ tag_mem' = NextTags(upd)
      /\ lookup_tmp' = [r |-> NextLookup("r", ar, r_rd), w |-> NextLookup("w", aw, st0_rd)]
      /\ tag_dout' = [r |-> NextDout("r", ar, r_rd), w |-> NextDout("w", aw, st0_rd)]
      /\ st0' = IF st0_rd THEN {St0(l, tag_dout["w"]) : l \in lookup_tmp["w"]} ELSE st0
      /\ init_cntr' = init_cntr
      /\ IF st0 # {} /\ da_w_rd
         THEN \E s \in st0 : /\ data_array' = DataStored(s, VictimWay(s, v))
                             /\ memory' = Flushed(s, VictimWay(s, v))
         ELSE data_array' = data_array /\ memory' = memory
  BY <1>1, <1>2, <1>3 DEF CacheCycle
<1>5. /\ \A u, x \in upd : u = x
      /\ upd \subseteq [index : Indexes, tag : Tags \cup {NoTag}, way_en : SUBSET Ways,
                        delete : BOOLEAN]
      /\ st0 = {} \/ ~da_w_rd => upd = {} /\ tag_mem' = tag_mem
      /\ \A u \in upd : /\ \E s \in st0 : u.index = s.line.index
                        /\ u.tag # NoTag /\ ~u.delete
      /\ \A s \in st0 : da_w_rd =>
            /\ \A u \in upd : u.index = s.line.index
            /\ tag_mem' = [i \in Indexes |-> [w \in Ways |->
                  IF i = s.line.index /\ w = VictimWay(s, v) THEN s.line.tag
                  ELSE tag_mem[i][w]]]
  BY <1>3, <1>4, TagsAfter
<1>6. /\ TagsLeadToData' /\ tag_mem' \in [Indexes -> AnyTags]
      /\ data_array' \in [Indexes -> [Ways -> Tags \cup {Stale}]]
  <2>1. CASE st0 # {} /\ da_w_rd
    <3>1. PICK s \in st0 : /\ data_array' = DataStored(s, VictimWay(s, v))
                           /\ memory' = Flushed(s, VictimWay(s, v))
      BY <1>4, <2>1
    <3> QED
      BY <1>5, <2>1, <3>1, StoreLeadsToData
  <2>2. CASE st0 = {} \/ ~da_w_rd
    <3>1. tag_mem' = tag_mem /\ data_array' = data_array /\ memory' = memory
      BY <1>4, <1>5, <2>2
    <3> QED
      BY <3>1 DEF TagsLeadToData, CacheTypeOK
  <2> QED
    BY <2>1, <2>2
\* Another set than that of the write in st0 keeps its tags.
<1>7. \A i \in Indexes : (\A s \in st0 : s.line.index # i) => tag_mem'[i] = tag_mem[i]
  <2> SUFFICES ASSUME NEW i \in Indexes, \A s \in st0 : s.line.index # i
               PROVE  tag_mem'[i] = tag_mem[i]
    OBVIOUS
  <2>1. CASE st0 # {} /\ da_w_rd
    <3>1. PICK s \in st0 : TRUE
      BY <2>1
    <3>2. tag_mem'[i] = [w \in Ways |-> tag_mem[i][w]]
      BY <1>5, <2>1, <3>1
    <3> QED
      BY <3>2 DEF CacheTypeOK, AnyTags
  <2>2. CASE st0 = {} \/ ~da_w_rd
    BY <1>5, <2>2
  <2> QED
    BY <2>1, <2>2
<1>8. /\ lookup_tmp'["w"] = NextLookup("w", aw, st0_rd)
      /\ tag_dout'["w"] = NextDout("w", aw, st0_rd)
      /\ lookup_tmp'["r"] = NextLookup("r", ar, r_rd)
      /\ tag_dout'["r"] = NextDout("r", ar, r_rd)
  BY <1>4
<1>9. /\ lookup_tmp' \in [{"r", "w"} -> Offer] /\ tag_dout' \in [{"r", "w"} -> AnyTags]
  BY <1>4, LookingUp
<1>10. \A l, m \in lookup_tmp["w"] : l = m
  BY DEF CacheTypeOK, Offer
<1>11. \A s, t \in st0' : s = t
  <2>1. CASE st0_rd
    BY <1>4, <1>10, <2>1
  <2>2. CASE ~st0_rd
    BY <1>4, <2>2 DEF CacheTypeOK
  <2> QED
    BY <2>1, <2>2
<1>12. CacheTypeOK'
  BY <1>4, <1>5, <1>6, <1>9, <1>11 DEF CacheTypeOK
<1>13. Clearing' /\ ~init_in_progress'
  BY <1>4 DEF Clearing, init_in_progress
\* A line that the write port looks up in the next clock is alone in its set.
<1>14. ASSUME NEW l \in lookup_tmp'["w"]
       PROVE  /\ l \in Lines /\ tag_dout'["w"] = tag_mem[l.index]
              /\ \A s \in st0 : s.line.index # l.index
              /\ st0_rd => \A m \in lookup_tmp["w"] : m.index # l.index
  <2>1. l \in Lines /\ tag_dout'["w"] = tag_mem[l.index]
        /\ (l \in aw \/ (l \in lookup_tmp["w"] /\ ~st0_rd))
    BY <1>8, <1>14, LookingUp
  <2>2. CASE l \in aw
    BY <2>1, <2>2 DEF UnderWay
  <2>3. CASE l \in lookup_tmp["w"] /\ ~st0_rd
    BY <2>1, <2>3 DEF LookupIsAlone
  <2> QED
    BY <2>1, <2>2, <2>3
<1>15. LookupIsAlone'
  <2> SUFFICES ASSUME NEW l \in lookup_tmp'["w"]
               PROVE  /\ tag_dout'["w"] = tag_mem'[l.index]
                      /\ \A u \in update_tmp' : u.index # l.index
                      /\ \A s \in st0' : s.line.index # l.index
    BY DEF LookupIsAlone
  <2>1. tag_mem'[l.index] = tag_mem[l.index]
    BY <1>7, <1>14, LinesAre
  <2>2. \A u \in update_tmp' : u.index # l.index
    BY <1>4, <1>5, <1>14
  <2>3. \A s \in st0' : s.line.index # l.index
    <3>1. CASE st0_rd
      <4>1. \A m : St0(m, tag_dout["w"]).line = m
        BY DEF St0
      <4>2. st0' = {St0(m, tag_dout["w"]) : m \in lookup_tmp["w"]}
        BY <1>4, <3>1
      <4> QED
        BY <1>14, <3>1, <4>1, <4>2
    <3>2. CASE ~st0_rd
      BY <1>4, <1>14, <3>2
    <3> QED
      BY <3>1, <3>2
  <2> QED
    BY <1>14, <2>1, <2>2, <2>3
<1>16. StageKnows'
  <2> SUFFICES ASSUME NEW s \in st0'
               PROVE  /\ s.line \in Lines /\ s.tags = tag_mem'[s.line.index]
                      /\ s.tag_found <=> \E w \in Ways : s.tags[w] = s.line.tag
                      /\ s.tag_found => s.found_way \in Ways /\ s.tags[s.found_way] = s.line.tag
    BY DEF StageKnows
  <2>1. CASE st0_rd
    <3>1. PICK l \in lookup_tmp["w"] : s = St0(l, tag_dout["w"])
      BY <1>4, <2>1
    <3>2. l \in Lines /\ l.index \in Indexes
      BY LinesAre DEF CacheTypeOK, Offer
    <3>3. tag_dout["w"] = tag_mem[l.index] /\ tag_mem'[l.index] = tag_mem[l.index]
      BY <1>7, <3>2 DEF LookupIsAlone
    <3>4. PICK F : F = FoundWays(l, tag_dout["w"])
      OBVIOUS
    <3>5. F = {w \in Ways : tag_dout["w"][w] = l.tag}
      BY <3>3, <3>4, FoundIs
    <3>6. s = [line |-> l, tags |-> tag_dout["w"], tag_found |-> F # {},
               found_way |-> IF F = {} THEN 0 ELSE CHOOSE w \in F : TRUE]
      BY <3>1, <3>4, Zenon DEF St0
    <3>7. F # {} => (CHOOSE w \in F : TRUE) \in F
      OBVIOUS
    <3>8. /\ s.line = l /\ s.tags = tag_dout["w"] /\ (s.tag_found <=> F # {})
          /\ F # {} => s.found_way \in F
      BY <3>6, <3>7
    <3> QED
      BY <3>2, <3>3, <3>5, <3>8
  <2>2. CASE ~st0_rd
    <3>1. s \in st0 /\ tag_mem' = tag_mem
      BY <1>2, <1>4, <1>5, <2>2
    <3> QED
      BY <3>1 DEF StageKnows
  <2> QED
    BY <2>1, <2>2
<1>17. ReadIsCorrected'
  <2> SUFFICES ASSUME NEW l \in lookup_tmp'["r"], NEW w \in Ways
               PROVE  tag_mem'[l.index][w] =
                        IF \E u \in update_tmp' : u.index = l.index /\ w \in u.way_en
                        THEN LET u == CHOOSE x \in update_tmp' : TRUE
                             IN IF u.delete THEN NoTag ELSE u.tag
                        ELSE tag_dout'["r"][w]
    BY DEF ReadIsCorrected
  <2>1. l \in Lines /\ l.index \in Indexes /\ tag_dout'["r"] = tag_mem[l.index]
    BY <1>8, LookingUp, LinesAre
  <2> QED
    BY <1>4, <2>1 DEF NextTags
<1> QED
  BY <1>6, <1>12, <1>13, <1>15, <1>16, <1>17

\* A lookup leads to the data: what LinesAreKept says.
LEMMA InvKeepsLines == CacheInv => LinesAreKept
<1> SUFFICES ASSUME CacheInv, ~init_in_progress  PROVE LinesAreKept
  BY DEF LinesAreKept
<1>1. TagsLeadToData /\ CacheTypeOK /\ ReadIsCorrected
  BY DEF CacheInv
<1>2. ASSUME NEW l \in Lines
      PROVE  LET here == {w \in Ways : tag_mem[l.index][w] = l.tag} IN
               /\ Cardinality(here) <= 1
               /\ \A w \in here : data_array[l.index][w] = l.tag
               /\ here = {} => l \in memory
  <2> DEFINE here == {w \in Ways : tag_mem[l.index][w] = l.tag}
  <2>1. l.index \in Indexes /\ l.tag # NoTag
    BY LinesAre
  <2>2. \A v, w \in here : v = w
    BY <1>1, <2>1 DEF TagsLeadToData
  <2>3. Cardinality(here) <= 1
    <3>1. CASE here = {}
      BY <3>1, FS_EmptySet
    <3>2. CASE here # {}
      <4>1. PICK w : here = {w}
        BY <2>2, <3>2
      <4>2. Cardinality({w}) = 1
        BY FS_Singleton, Zenon
      <4> HIDE DEF here
      <4> QED
        BY <4>1, <4>2
    <3> QED
      BY <3>1, <3>2
  <2>4. \A w \in here : data_array[l.index][w] = l.tag
    BY <1>1, <2>1 DEF TagsLeadToData
  <2>5. here = {} => l \in memory
    BY <1>1 DEF TagsLeadToData
  <2> QED
    BY <2>3, <2>4, <2>5, Zenon
<1>3. ASSUME NEW l \in lookup_tmp["r"]
      PROVE  FoundWays(l, tag_dout["r"]) = {w \in Ways : tag_mem[l.index][w] = l.tag}
  <2>1. l.tag # NoTag /\ l.tag \in Tags
    BY <1>1, LinesAre DEF CacheTypeOK, Offer
  <2>2. \A w \in Ways : tag_mem[l.index][w] =
            IF \E u \in update_tmp : u.index = l.index /\ w \in u.way_en
            THEN LET u == CHOOSE x \in update_tmp : TRUE IN IF u.delete THEN NoTag ELSE u.tag
            ELSE tag_dout["r"][w]
    BY <1>1 DEF ReadIsCorrected
  <2>3. \A u \in update_tmp : u = CHOOSE x \in update_tmp : TRUE
    BY <1>1 DEF CacheTypeOK
  <2>4. \A u \in update_tmp : u.way_en \subseteq Ways
    BY <1>1 DEF CacheTypeOK
  <2>5. ASSUME NEW w
        PROVE  w \in FoundWays(l, tag_dout["r"]) <=> w \in Ways /\ tag_mem[l.index][w] = l.tag
    <3>1. w \in FoundWays(l, tag_dout["r"]) <=>
            \/ /\ w \in Ways /\ tag_dout["r"][w] = l.tag
               /\ \A u \in update_tmp : u.index = l.index => w \notin u.way_en
            \/ \E u \in update_tmp : /\ u.index = l.index /\ ~u.delete /\ u.tag = l.tag
                                     /\ w \in u.way_en
      BY DEF FoundWays, JustUpdated
    <3>2. CASE \E u \in update_tmp : u.index = l.index /\ w \in u.way_en
      <4>1. PICK u \in update_tmp : u.index = l.index /\ w \in u.way_en
        BY <3>2
      <4>2. \A x \in update_tmp : x = u
        BY <2>3
      <4>3. tag_mem[l.index][w] = IF u.delete THEN NoTag ELSE u.tag
        BY <2>2, <2>3, <2>4, <4>1
      <4> QED
        BY <2>1, <2>4, <3>1, <4>1, <4>2, <4>3
    <3>3. CASE ~\E u \in update_tmp : u.index = l.index /\ w \in u.way_en
      BY <2>2, <3>1, <3>3
    <3> QED
      BY <3>2, <3>3
  <2> QED
    BY <2>5
<1> QED
  BY <1>2, <1>3 DEF LinesAreKept

\* Whatever is written, flushed and read in whatever order, a lookup leads to the latest data
\* of its line (AxiCacheWriteAllocWawOnlyWritePropagating, when writes to one set do not overlap).
THEOREM LinesStay ==
    ASSUME ~SAME_SET_OVERLAP
    PROVE  CacheSpec => []LinesAreKept
<1>1. CacheInv /\ [CacheNext]_cacheVars => CacheInv'
  <2> SUFFICES ASSUME CacheInv, [CacheNext]_cacheVars  PROVE CacheInv'
    OBVIOUS
  <2>1. CASE CacheNext
    <3>1. PICK aw, ar \in Offer, da_rd, done, r_rd \in BOOLEAN, v \in Ways :
             /\ \A l \in aw, u \in UnderWay : l.index # u.index
             /\ CacheCycle(aw, ar, da_rd, done, r_rd, v)
      BY <2>1 DEF CacheNext
    <3> QED
      BY <3>1, ClearKeepsInv, WorkKeepsInv
  <2>2. CASE UNCHANGED cacheVars
    BY <2>2 DEF cacheVars, CacheInv, CacheTypeOK, Clearing, TagsLeadToData, LookupIsAlone,
                StageKnows, ReadIsCorrected, init_in_progress
  <2> QED
    BY <2>1, <2>2
<1> QED
  BY <1>1, InitCacheInv, InvKeepsLines, PTL DEF CacheSpec

---------------------------------------------------------------------------
(* The memories with several ports *)

\* At most one thing of a kind is in a port or a register.
AtMostOne(S) == {{}} \cup {{g} : g \in S}

PortWrites == [addr : RamAddrs, data : Bit]

\* The ports that have a 1 at an address of their RAM.
Ones(a) == {i \in WritePorts : r_rams[i][a] = 1}

\* A is written in this clock.
Fresh(a) == \E i \in WritePorts : \E g \in w_reg[i] : g.addr = a

\* All copies of a RAM agree, and one port at most writes an address; the XOR of all RAMs is
\* what was written two clocks ago or earlier; a port that writes has read what the others
\* have, and so has a read of the same clock and address.
XorInv ==
    /\ w_reg \in [WritePorts -> AtMostOne(PortWrites)]
    /\ r_rams \in [WritePorts -> [RamAddrs -> Bit]]
    /\ r_dout \in [WritePorts -> Bit]
    /\ xor_stored \in [RamAddrs -> Bit]
    /\ \A i \in WritePorts : \A j \in WritePorts \ {i} : w_rams[i][j] = r_rams[j]
    /\ \A i, j \in WritePorts : \A g \in w_reg[i], h \in w_reg[j] : g.addr = h.addr => i = j
    /\ \A a \in RamAddrs : xor_settled[a] = XorOf(Ones(a))
    /\ \A a \in RamAddrs : ~Fresh(a) => xor_stored[a] = xor_settled[a]
    /\ \A i \in WritePorts : \A g \in w_reg[i] :
          /\ xor_stored[g.addr] = g.data
          /\ \A j \in WritePorts \ {i} : w_dout[i][j] = r_rams[j][g.addr]
    /\ \A x \in xor_read :
          /\ XorOf({i \in WritePorts : r_dout[i] = 1}) \in x.old
          /\ \A i \in WritePorts : \A g \in w_reg[i] : g.addr = x.addr =>
                /\ x.new = {g.data}
                /\ \A j \in WritePorts \ {i} : r_dout[j] = w_dout[i][j]
          /\ ~Fresh(x.addr) => x.new = {}
    /\ \A x \in xor_answer : x.got \in x.may

\* The masks are those of the user; in the second clock of an accumulation the mask of
\* before is at the output of the RAM, otherwise the mask that a read was accepted for.
MaskInv ==
    /\ mask_w \in AtMostOne(MaskRequests)
    /\ mask_ram = mask_stored
    /\ mask_ram \in [RamAddrs -> SUBSET Bytes]
    /\ preload \in BOOLEAN
    /\ preload => mask_w # {} /\ \A q \in mask_w : Accumulates(q) /\ mask_dout = mask_ram[q.addr]
    /\ \A word \in mask_read : mask_dout = word

LEMMA ParityAdds ==
    ASSUME NEW n \in Nat, NEW x \in Bit
    PROVE  /\ n % 2 \in Bit /\ (x + (n % 2)) % 2 \in Bit
           /\ (x + (n % 2)) % 2 = 0 => n % 2 = x
           /\ (x + (n % 2)) % 2 = 1 => (n + 1) % 2 = x
  BY DEF Bit

\* A set of ports has a parity.
LEMMA ParityIs ==
    ASSUME NEW T, T \subseteq WritePorts
    PROVE  XorOf(T) \in Bit /\ Cardinality(T) \in Nat /\ IsFiniteSet(T)
<1>1. IsFiniteSet(T) /\ Cardinality(T) \in Nat
  BY PortsAssumption, FS_Subset, FS_CardinalityType, Zenon
<1>2. PICK n \in Nat : n = Cardinality(T)
  BY <1>1
<1>3. n % 2 \in Bit
  BY DEF Bit
<1> QED
  BY <1>1, <1>2, <1>3, Zenon DEF XorOf

Completed(x, T) == (x + XorOf(T)) % 2
WithPort(T, p, y) == IF y = 1 THEN T \cup {p} ELSE T

\* A port that adds what the others do not have makes the XOR of all the word it writes.
LEMMA OneMorePort ==
    ASSUME NEW p \in WritePorts, NEW T \in SUBSET (WritePorts \ {p}), NEW x \in Bit
    PROVE  /\ Completed(x, T) \in Bit
           /\ XorOf(WithPort(T, p, Completed(x, T))) = x
<1>0. PICK y : y = Completed(x, T)
  OBVIOUS
<1>1. T \subseteq WritePorts /\ p \notin T
  OBVIOUS
<1>2. PICK n \in Nat : n = Cardinality(T)
  BY <1>1, ParityIs
<1>3. XorOf(T) = n % 2
  BY <1>2, Zenon DEF XorOf
<1>4. Cardinality(T \cup {p}) = n + 1
  <2>1. IsFiniteSet(T)
    BY <1>1, ParityIs
  <2> QED
    BY <1>1, <1>2, <2>1, FS_AddElement, Zenon
<1>5. XorOf(T \cup {p}) = (n + 1) % 2
  BY <1>4, Zenon DEF XorOf
<1>6. /\ y \in Bit
      /\ y = 0 => n % 2 = x
      /\ y = 1 => (n + 1) % 2 = x
  <2>1. y = (x + (n % 2)) % 2
    BY <1>0, <1>3, Zenon DEF Completed
  <2> QED
    BY <2>1, ParityAdds
<1>7. y = 0 \/ y = 1
  BY <1>6 DEF Bit
<1>8. y = 1 => XorOf(WithPort(T, p, y)) = x
  BY <1>5, <1>6, Zenon DEF WithPort
<1>9. y = 0 => XorOf(WithPort(T, p, y)) = x
  <2>1. y = 0 => WithPort(T, p, y) = T
    BY DEF WithPort
  <2> QED
    BY <1>3, <1>6, <2>1, Zenon
<1>10. y \in Bit /\ XorOf(WithPort(T, p, y)) = x
  BY <1>6, <1>7, <1>8, <1>9, Zenon
<1> QED
  BY <1>0, <1>10, Zenon

\* What a port writes makes the word.
LEMMA WriteMakesWord ==
    ASSUME XorInv, NEW p \in WritePorts, NEW g \in w_reg[p],
           NEW f, f[p] = Xored(p, g), \A j \in WritePorts \ {p} : f[j] = w_dout[p][j]
    PROVE  f[p] \in Bit /\ XorOf({i \in WritePorts : f[i] = 1}) = g.data
<1> DEFINE T == {j \in WritePorts \ {p} : w_dout[p][j] = 1}
           All == {i \in WritePorts : f[i] = 1}
<1>1. g.data \in Bit
  BY DEF XorInv, AtMostOne, PortWrites
<1>2. f[p] = (g.data + XorOf(T)) % 2
  BY Zenon DEF Xored
<1>3. \A j \in WritePorts \ {p} : w_dout[p][j] = f[j]
  OBVIOUS
<1>4. All = WithPort(T, p, f[p])
  BY <1>3 DEF WithPort
<1>5. T \in SUBSET (WritePorts \ {p})
  OBVIOUS
<1> HIDE DEF T, All
<1>6. f[p] \in Bit /\ XorOf(WithPort(T, p, f[p])) = g.data
  <2>1. PICK x \in Bit : x = g.data
    BY <1>1
  <2>2. PICK y : y = f[p]
    OBVIOUS
  <2>3. y = Completed(x, T)
    BY <1>2, <2>1, <2>2, Zenon DEF Completed
  <2>4. y \in Bit /\ XorOf(WithPort(T, p, y)) = x
    BY <1>5, <2>3, OneMorePort, Zenon
  <2> QED
    BY <2>1, <2>2, <2>4, Zenon
<1> QED
  BY <1>4, <1>6, Zenon DEF All

LEMMA InitXorInv == XorInit => XorInv
<1> SUFFICES ASSUME XorInit  PROVE XorInv
  OBVIOUS
<1>1. \A a \in RamAddrs : XorOf(Ones(a)) = 0
  <2> SUFFICES ASSUME NEW a \in RamAddrs  PROVE XorOf(Ones(a)) = 0
    OBVIOUS
  <2>1. Ones(a) = {}
    BY DEF Ones, XorInit, Zeros
  <2>2. Cardinality({}) = 0
    BY FS_EmptySet, Zenon
  <2> QED
    BY <2>1, <2>2 DEF XorOf
<1> QED
  BY <1>1 DEF XorInit, XorInv, Zeros, Bit, AtMostOne

\* One clock of all ports.
LEMMA XorKeepsInv ==
    ASSUME XorInv, ~HURRIED, ~MOVED_ON, XorNext
    PROVE  XorInv'
<1>1. PICK w \in [WritePorts -> {{}} \cup {{g} : g \in [addr : RamAddrs, data : Bit]}],
           r_en \in BOOLEAN, r_addr \in RamAddrs :
        /\ \A i, j \in WritePorts : \A g \in w[i], h \in w[j] : g.addr = h.addr => i = j
        /\ \A i, j \in WritePorts : \A g \in w_reg[i], h \in w[j] : g.addr = h.addr => i = j
        /\ \A x \in xor_read, i \in WritePorts : \A g \in w_reg[i] :
              g.addr = r_addr => r_addr = x.addr
        /\ XorCycle(w, r_en, r_addr)
  BY DEF XorNext
<1>2. \A i, j \in WritePorts : \A g \in w[i], h \in w[j] : g.addr = h.addr => i = j
  BY <1>1
<1>2a. \A x \in xor_read : r_addr = x.addr \/ ~Fresh(r_addr)
  BY <1>1 DEF Fresh
<1>3. /\ w_reg' = w
      /\ w_dout' = [i \in WritePorts |-> [j \in WritePorts \ {i} |->
                    IF w[i] = {} THEN w_dout[i][j]
                    ELSE w_rams[i][j][(CHOOSE g \in w[i] : TRUE).addr]]]
      /\ w_rams' = [i \in WritePorts |-> [j \in WritePorts \ {i} |-> Updated(w_rams[i][j], j)]]
      /\ r_rams' = [i \in WritePorts |-> Updated(r_rams[i], i)]
      /\ r_dout' = [i \in WritePorts |-> IF r_en THEN r_rams[i][r_addr] ELSE r_dout[i]]
      /\ xor_stored' = [a \in RamAddrs |-> IF WrittenTo(a, w) = {} THEN xor_stored[a]
                                            ELSE CHOOSE d \in WrittenTo(a, w) : TRUE]
      /\ xor_settled' = xor_stored
      /\ xor_read' = IF r_en THEN {[addr |-> r_addr, new |-> WrittenTo(r_addr, w),
                                    old |-> {xor_settled[r_addr], xor_stored[r_addr]}]}
                     ELSE {}
      /\ xor_answer' = {[got |-> XorDout(r_addr), may |-> MayReturn(x, r_addr)] : x \in xor_read}
  BY <1>1 DEF XorCycle
\* A port or a register holds one thing at most.
<1>4. /\ \A i \in WritePorts : \A g \in w_reg[i] : /\ g.addr \in RamAddrs /\ g.data \in Bit
                                                   /\ w_reg[i] = {g}
                                                   /\ (CHOOSE h \in w_reg[i] : TRUE) = g
      /\ \A i \in WritePorts : \A g \in w[i] : /\ g.addr \in RamAddrs /\ g.data \in Bit
                                               /\ w[i] = {g}
                                               /\ (CHOOSE h \in w[i] : TRUE) = g
  <2>1. \A g : (CHOOSE h \in {g} : TRUE) = g
    OBVIOUS
  <2>2. \A v \in [WritePorts -> AtMostOne(PortWrites)] : \A i \in WritePorts : \A g \in v[i] :
            g.addr \in RamAddrs /\ g.data \in Bit /\ v[i] = {g}
    BY DEF AtMostOne, PortWrites
  <2>3. w_reg \in [WritePorts -> AtMostOne(PortWrites)]
    BY DEF XorInv
  <2>4. w \in [WritePorts -> AtMostOne(PortWrites)]
    BY Zenon DEF AtMostOne, PortWrites, Bit
  <2> QED
    BY <2>1, <2>2, <2>3, <2>4, Zenon
\* How the RAMs change.
<1>5. \A i \in WritePorts, a \in RamAddrs :
          r_rams'[i][a] = IF \E g \in w_reg[i] : g.addr = a
                          THEN Xored(i, CHOOSE g \in w_reg[i] : TRUE) ELSE r_rams[i][a]
  BY <1>3 DEF Updated
<1>6. \A i \in WritePorts : \A g \in w_reg[i] :
          /\ r_rams'[i][g.addr] = Xored(i, g)
          /\ \A j \in WritePorts \ {i} : r_rams'[j][g.addr] = r_rams[j][g.addr]
  <2> SUFFICES ASSUME NEW i \in WritePorts, NEW g \in w_reg[i]
               PROVE  /\ r_rams'[i][g.addr] = Xored(i, g)
                      /\ \A j \in WritePorts \ {i} : r_rams'[j][g.addr] = r_rams[j][g.addr]
    OBVIOUS
  <2>1. g.addr \in RamAddrs /\ (CHOOSE h \in w_reg[i] : TRUE) = g
    BY <1>4
  <2>2. \A j \in WritePorts \ {i} : \A h \in w_reg[j] : h.addr # g.addr
    BY DEF XorInv
  <2> QED
    BY <1>5, <2>1, <2>2
<1>7. \A a \in RamAddrs : ~Fresh(a) => \A i \in WritePorts : r_rams'[i][a] = r_rams[i][a]
  BY <1>5 DEF Fresh
<1>8. \A i \in WritePorts : \A g \in w_reg[i] :
          r_rams'[i][g.addr] \in Bit /\ XorOf(Ones(g.addr)') = g.data
  <2> SUFFICES ASSUME NEW i \in WritePorts, NEW g \in w_reg[i]
               PROVE  r_rams'[i][g.addr] \in Bit /\ XorOf(Ones(g.addr)') = g.data
    OBVIOUS
  <2>1. PICK f : f = [j \in WritePorts |-> r_rams'[j][g.addr]]
    OBVIOUS
  <2>2. \A j \in WritePorts : f[j] = r_rams'[j][g.addr]
    BY <2>1
  <2>3. f[i] = Xored(i, g) /\ \A j \in WritePorts \ {i} : f[j] = r_rams[j][g.addr]
    BY <1>6, <2>2
  <2>3a. f[i] = Xored(i, g) /\ \A j \in WritePorts \ {i} : f[j] = w_dout[i][j]
    BY <2>3 DEF XorInv
  <2>4. f[i] \in Bit /\ XorOf({j \in WritePorts : f[j] = 1}) = g.data
    BY <2>3a, WriteMakesWord, Zenon
  <2>5. Ones(g.addr)' = {j \in WritePorts : f[j] = 1}
    BY <2>2 DEF Ones
  <2> QED
    BY <2>2, <2>4, <2>5, Zenon
<1>9. \A a \in RamAddrs : ~Fresh(a) => Ones(a)' = Ones(a)
  BY <1>7 DEF Ones
<1>10. r_rams' \in [WritePorts -> [RamAddrs -> Bit]]
  <2>1. ASSUME NEW i \in WritePorts, NEW a \in RamAddrs
        PROVE  r_rams'[i][a] \in Bit
    <3>1. CASE \E g \in w_reg[i] : g.addr = a
      BY <1>8, <3>1
    <3>2. CASE ~\E g \in w_reg[i] : g.addr = a
      <4>1. r_rams[i][a] \in Bit
        BY DEF XorInv
      <4>2. r_rams'[i][a] = r_rams[i][a]
        BY <1>5, <3>2, Zenon
      <4> QED
        BY <4>1, <4>2
    <3> QED
      BY <3>1, <3>2
  <2>2. /\ r_rams' = [i \in WritePorts |-> r_rams'[i]]
        /\ \A i \in WritePorts : r_rams'[i] = [a \in RamAddrs |-> r_rams'[i][a]]
    BY <1>3, Zenon DEF Updated
  <2> QED
    BY <2>1, <2>2
\* What the user has written.
<1>11. \A i \in WritePorts : \A g \in w[i] : WrittenTo(g.addr, w) = {g.data}
  <2>1. \A i \in WritePorts : \A g \in w[i] : \A j \in WritePorts : \A h \in w[j] :
            h.addr = g.addr => h = g
    BY <1>2, <1>4
  <2> QED
    BY <2>1 DEF WrittenTo
<1>11a. ASSUME NEW i \in WritePorts, NEW g \in w[i]
        PROVE  xor_stored'[g.addr] = g.data
  <2>1. (CHOOSE d \in {g.data} : TRUE) = g.data /\ {g.data} # {}
    OBVIOUS
  <2>2. g.addr \in RamAddrs /\ WrittenTo(g.addr, w) = {g.data}
    BY <1>4, <1>11
  <2>3. xor_stored'[g.addr] = IF WrittenTo(g.addr, w) = {} THEN xor_stored[g.addr]
                              ELSE CHOOSE d \in WrittenTo(g.addr, w) : TRUE
    BY <1>3, <2>2
  <2> QED
    BY <2>1, <2>2, <2>3, Zenon
<1>12. ASSUME NEW a \in RamAddrs, \A i \in WritePorts : \A g \in w[i] : g.addr # a
       PROVE  xor_stored'[a] = xor_stored[a] /\ WrittenTo(a, w) = {}
  <2>1. WrittenTo(a, w) = {}
    BY <1>12 DEF WrittenTo
  <2> QED
    BY <1>3, <2>1
<1>13. xor_stored' \in [RamAddrs -> Bit]
  <2>1. ASSUME NEW a \in RamAddrs
        PROVE  xor_stored'[a] \in Bit
    <3>1. CASE \E i \in WritePorts : \E g \in w[i] : g.addr = a
      BY <1>4, <1>11a, <3>1
    <3>2. CASE ~\E i \in WritePorts : \E g \in w[i] : g.addr = a
      BY <1>12, <3>2 DEF XorInv
    <3> QED
      BY <3>1, <3>2
  <2>2. xor_stored' = [a \in RamAddrs |-> IF WrittenTo(a, w) = {} THEN xor_stored[a]
                                          ELSE CHOOSE d \in WrittenTo(a, w) : TRUE]
    BY <1>3, Zenon
  <2> QED
    BY <2>1, <2>2
<1>14. \A a \in RamAddrs : Fresh(a)' <=> \E i \in WritePorts : \E g \in w[i] : g.addr = a
  BY <1>3 DEF Fresh
<1>15. \A a \in RamAddrs : xor_settled'[a] = XorOf(Ones(a)')
  <2> SUFFICES ASSUME NEW a \in RamAddrs  PROVE xor_stored[a] = XorOf(Ones(a)')
    BY <1>3
  <2>1. CASE Fresh(a)
    <3>1. PICK i \in WritePorts : \E g \in w_reg[i] : g.addr = a
      BY <2>1 DEF Fresh
    <3> QED
      BY <1>8, <3>1 DEF XorInv
  <2>2. CASE ~Fresh(a)
    <3>1. Ones(a)' = Ones(a)
      BY <1>9, <2>2
    <3>2. xor_stored[a] = XorOf(Ones(a))
      BY <2>2 DEF XorInv
    <3> QED
      BY <3>1, <3>2, Zenon
  <2> QED
    BY <2>1, <2>2
<1>15a. \A a \in RamAddrs : ~Fresh(a)' => xor_stored'[a] = xor_settled'[a]
  BY <1>3, <1>12, <1>14
<1>16. ASSUME NEW i \in WritePorts, NEW g \in w[i], NEW j \in WritePorts \ {i}
       PROVE  w_dout'[i][j] = r_rams'[j][g.addr]
  <2>1. g.addr \in RamAddrs /\ w[i] # {} /\ (CHOOSE h \in w[i] : TRUE) = g
    BY <1>4
  <2>2. w_dout'[i][j] = w_rams[i][j][g.addr]
    BY <1>3, <2>1
  <2>3. w_rams[i][j] = r_rams[j]
    BY DEF XorInv
  <2>4. r_rams'[j][g.addr] = r_rams[j][g.addr]
    <3>1. \A h \in w_reg[j] : h.addr # g.addr
      BY <1>1
    <3> QED
      BY <1>5, <2>1, <3>1
  <2> QED
    BY <2>2, <2>3, <2>4
<1>17. \A i \in WritePorts : \A j \in WritePorts \ {i} : w_rams'[i][j] = r_rams'[j]
  BY <1>3 DEF XorInv, Updated
\* The read.
<1>18. r_dout' \in [WritePorts -> Bit]
  BY <1>3 DEF XorInv
<1>19. ASSUME r_en
       PROVE  XorOf({i \in WritePorts : r_dout'[i] = 1}) = xor_settled[r_addr]
  <2>1. Ones(r_addr) = {i \in WritePorts : r_dout'[i] = 1}
    BY <1>3, <1>19 DEF Ones
  <2>2. xor_settled[r_addr] = XorOf(Ones(r_addr))
    BY DEF XorInv
  <2> QED
    BY <2>1, <2>2, Zenon
<1>20. ASSUME NEW x \in xor_read'
       PROVE  /\ XorOf({i \in WritePorts : r_dout'[i] = 1}) \in x.old
              /\ \A i \in WritePorts : \A g \in w_reg'[i] : g.addr = x.addr =>
                    /\ x.new = {g.data}
                    /\ \A j \in WritePorts \ {i} : r_dout'[j] = w_dout'[i][j]
              /\ ~Fresh(x.addr)' => x.new = {}
  <2>1. r_en
    BY <1>3, <1>20
  <2>2. /\ x.addr = r_addr /\ x.new = WrittenTo(r_addr, w)
        /\ x.old = {xor_settled[r_addr], xor_stored[r_addr]}
    BY <1>3, <1>20, <2>1
  <2>3. XorOf({i \in WritePorts : r_dout'[i] = 1}) \in x.old
    <3>1. xor_settled[r_addr] \in x.old
      BY <2>2
    <3> QED
      BY <1>19, <2>1, <3>1, Zenon
  <2>4. ASSUME NEW i \in WritePorts, NEW g \in w[i], g.addr = r_addr, NEW j \in WritePorts \ {i}
        PROVE  r_dout'[j] = w_dout'[i][j]
    <3>1. w[i] # {} /\ (CHOOSE h \in w[i] : TRUE) = g
      BY <1>4
    <3>2. w_dout'[i][j] = w_rams[i][j][r_addr]
      BY <1>3, <2>4, <3>1
    <3>3. w_rams[i][j] = r_rams[j]
      BY DEF XorInv
    <3>4. r_dout'[j] = r_rams[j][r_addr]
      BY <1>3, <2>1
    <3> QED
      BY <3>2, <3>3, <3>4
  <2>5. \A i \in WritePorts : \A g \in w[i] : g.addr = r_addr => x.new = {g.data}
    BY <1>11, <2>2
  <2>6. ~Fresh(r_addr)' => x.new = {}
    BY <1>12, <1>14, <2>2
  <2>7. w_reg' = w /\ (Fresh(x.addr)' <=> Fresh(r_addr)')
    BY <1>3, <2>2
  <2> QED
    BY <2>2, <2>3, <2>4, <2>5, <2>6, <2>7
\* The word that comes out is the one read, or the one that is just written to its address.
<1>21. ASSUME NEW x \in xor_read
       PROVE  XorDout(r_addr) \in MayReturn(x, r_addr)
  <2>1. CASE ~Fresh(r_addr)
    <3>1. \A i \in WritePorts : Share(i, r_addr) = r_dout[i]
      BY <2>1 DEF Share, Fresh
    <3>2. {i \in WritePorts : Share(i, r_addr) = 1} = {i \in WritePorts : r_dout[i] = 1}
      BY <3>1
    <3>3. XorDout(r_addr) \in x.old
      <4>1. XorOf({i \in WritePorts : r_dout[i] = 1}) \in x.old
        BY DEF XorInv
      <4> QED
        BY <3>2, <4>1, Zenon DEF XorDout
    <3>4. r_addr = x.addr => x.new = {}
      BY <2>1 DEF XorInv
    <3> QED
      BY <3>3, <3>4, Zenon DEF MayReturn
  <2>2. CASE Fresh(r_addr)
    <3>0. \A i \in WritePorts : \A g \in w_reg[i] : g.addr = x.addr =>
              /\ x.new = {g.data}
              /\ \A j \in WritePorts \ {i} : r_dout[j] = w_dout[i][j]
      BY DEF XorInv
    <3>1. r_addr = x.addr
      BY <1>2a, <2>2
    <3>2. PICK i \in WritePorts : \E g \in w_reg[i] : g.addr = r_addr
      BY <2>2 DEF Fresh
    <3>3. PICK g \in w_reg[i] : g.addr = r_addr
      BY <3>2
    <3>4. PICK f : f = [j \in WritePorts |-> Share(j, r_addr)]
      OBVIOUS
    <3>5. f[i] = Xored(i, g)
      BY <1>4, <3>3, <3>4 DEF Share
    <3>6. \A j \in WritePorts \ {i} : f[j] = w_dout[i][j]
      <4> SUFFICES ASSUME NEW j \in WritePorts \ {i}  PROVE f[j] = w_dout[i][j]
        OBVIOUS
      <4>1. \A h \in w_reg[j] : h.addr # r_addr
        BY <3>3 DEF XorInv
      <4>2. Share(j, r_addr) = r_dout[j]
        BY <4>1, Zenon DEF Share
      <4>3. r_dout[j] = w_dout[i][j]
        BY <3>0, <3>1, <3>2, <3>3, Zenon
      <4> QED
        BY <3>4, <4>2, <4>3
    <3>7. XorOf({j \in WritePorts : f[j] = 1}) = g.data
      BY <3>5, <3>6, WriteMakesWord, Zenon
    <3>8. {j \in WritePorts : f[j] = 1} = {j \in WritePorts : Share(j, r_addr) = 1}
      BY <3>4
    <3>9. XorDout(r_addr) = g.data
      BY <3>7, <3>8, Zenon DEF XorDout
    <3>10. x.new = {g.data}
      BY <3>0, <3>1, <3>2, <3>3, Zenon
    <3> QED
      BY <3>1, <3>9, <3>10 DEF MayReturn
  <2> QED
    BY <2>1, <2>2
<1>22. \A x \in xor_answer' : x.got \in x.may
  BY <1>3, <1>21
<1>23. w_reg' \in [WritePorts -> AtMostOne(PortWrites)]
  BY <1>3, Zenon DEF AtMostOne, PortWrites, Bit
<1>24. \A i, j \in WritePorts : \A g \in w_reg'[i], h \in w_reg'[j] : g.addr = h.addr => i = j
  BY <1>2, <1>3, Zenon
<1>25. \A i \in WritePorts : \A g \in w_reg'[i] :
          /\ xor_stored'[g.addr] = g.data
          /\ \A j \in WritePorts \ {i} : w_dout'[i][j] = r_rams'[j][g.addr]
  <2>1. w_reg' = w
    BY <1>3
  <2> QED
    BY <1>11a, <1>16, <2>1
<1> HIDE <1>3
<1> QED
  BY <1>10, <1>13, <1>15, <1>15a, <1>17, <1>18, <1>20, <1>22, <1>23, <1>24, <1>25, Zenon
     DEF XorInv


LEMMA InitMaskInv == MaskInit => MaskInv
  BY DEF MaskInit, MaskInv, AtMostOne

\* The bytes that a request leaves written.
Added(q) == q.we \cup IF Accumulates(q) THEN mask_stored[q.addr] ELSE {}

\* What is added to a mask is what the user adds.
LEMMA MaskIsAdded ==
    ASSUME MaskInv, NEW q \in mask_w, ~Accumulates(q) \/ preload
    PROVE  /\ NextMask(q) = Added(q)
           /\ NextMask(q) \in SUBSET Bytes
           /\ q.addr \in RamAddrs
<1>1. q \in MaskRequests
  BY DEF MaskInv, AtMostOne
<1>2. q.addr \in RamAddrs /\ q.we \in SUBSET Bytes
  BY <1>1 DEF MaskRequests
<1>3. mask_ram[q.addr] \in SUBSET Bytes /\ mask_stored = mask_ram
  BY <1>2 DEF MaskInv
<1>4. CASE preload
  <2>1. Accumulates(q) /\ mask_dout = mask_ram[q.addr]
    BY <1>4 DEF MaskInv
  <2> QED
    BY <1>2, <1>3, <1>4, <2>1 DEF NextMask, Added
<1>5. CASE ~preload
  BY <1>2, <1>5 DEF NextMask, Added
<1> QED
  BY <1>4, <1>5

\* One clock of the RAM with the masks.
LEMMA MaskKeepsInv ==
    ASSUME MaskInv, ~READ_IN_ACCUMULATE, MaskNext
    PROVE  MaskInv'
<1>1. PICK r \in {{}} \cup {{a} : a \in RamAddrs},
           next \in {{}} \cup {{q} : q \in MaskRequests} :
        /\ ~preload \/ r \subseteq {q.addr : q \in mask_w}
        /\ MaskCycle(r, next)
  BY DEF MaskNext
<1> DEFINE will_preload == \E q \in mask_w : Accumulates(q)
           written == IF MaskWriteRd THEN mask_w ELSE {}
           address == IF will_preload THEN {q.addr : q \in mask_w} ELSE r
<1>5. /\ preload' = IF mask_w = {} THEN preload ELSE ~preload /\ will_preload
      /\ mask_ram' = [a \in RamAddrs |->
                       IF \E q \in written : q.addr = a
                       THEN NextMask(CHOOSE q \in written : TRUE) ELSE mask_ram[a]]
      /\ mask_dout' = IF address = {} THEN mask_dout ELSE mask_ram[CHOOSE a \in address : TRUE]
      /\ mask_w' = IF MaskWriteRd THEN next ELSE mask_w
      /\ mask_stored' = [a \in RamAddrs |->
                           IF \E q \in written : q.addr = a
                           THEN Added(CHOOSE q \in written : TRUE) ELSE mask_stored[a]]
      /\ mask_read' = IF MaskReadRd THEN {mask_stored[a] : a \in r} ELSE {}
  BY <1>1, Zenon DEF MaskCycle, Added
<1>2. will_preload <=> \E q \in mask_w : Accumulates(q)
  OBVIOUS
<1>3. written = IF MaskWriteRd THEN mask_w ELSE {}
  OBVIOUS
<1>4. address = IF will_preload THEN {q.addr : q \in mask_w} ELSE r
  OBVIOUS
<1> HIDE DEF will_preload, written, address
<1>6. mask_w' \in AtMostOne(MaskRequests)
  BY <1>5 DEF MaskInv, AtMostOne
<1>7. preload' \in BOOLEAN
  BY <1>5 DEF MaskInv
\* What is written is one request that does not accumulate or has been preloaded.
<1>8. \A q \in written : /\ q = (CHOOSE p \in written : TRUE)
                         /\ q \in mask_w
                         /\ ~Accumulates(q) \/ preload
  <2>1. \A q : (CHOOSE p \in {q} : TRUE) = q
    OBVIOUS
  <2>2. \A q \in mask_w : mask_w = {q}
    BY DEF MaskInv, AtMostOne
  <2>3. written # {} => MaskWriteRd /\ written = mask_w
    BY <1>3
  <2> QED
    BY <2>1, <2>2, <2>3, Zenon DEF MaskWriteRd
<1>9. mask_ram' = mask_stored' /\ mask_ram' \in [RamAddrs -> SUBSET Bytes]
  <2> DEFINE next_mask == NextMask(CHOOSE q \in written : TRUE)
             added == Added(CHOOSE q \in written : TRUE)
  <2>1. written # {} => next_mask = added /\ next_mask \in SUBSET Bytes
    BY <1>8, MaskIsAdded, Zenon
  <2>2. mask_ram = mask_stored /\ mask_ram \in [RamAddrs -> SUBSET Bytes]
    BY DEF MaskInv
  <2>3. /\ mask_ram' = [a \in RamAddrs |-> IF \E q \in written : q.addr = a
                                           THEN next_mask ELSE mask_ram[a]]
        /\ mask_stored' = [a \in RamAddrs |-> IF \E q \in written : q.addr = a
                                              THEN added ELSE mask_stored[a]]
    BY <1>5, Zenon
  <2> HIDE DEF next_mask, added
  <2> QED
    BY <2>1, <2>2, <2>3
\* The first clock of an accumulation reads the mask of before.
<1>10. ASSUME preload'
       PROVE  mask_w' # {} /\ \A q \in mask_w' : Accumulates(q) /\ mask_dout' = mask_ram'[q.addr]
  <2>1. PICK q \in mask_w : ~preload /\ Accumulates(q)
    BY <1>2, <1>5, <1>10 DEF MaskInv
  <2>2. mask_w = {q}
    BY <2>1 DEF MaskInv, AtMostOne
  <2>3. ~MaskWriteRd
    BY <2>1 DEF MaskWriteRd
  <2>4. mask_w' = {q}
    BY <1>5, <2>2, <2>3, Zenon
  <2>5. address = {q.addr}
    BY <1>2, <1>4, <2>1, <2>2
  <2>6. (CHOOSE a \in {q.addr} : TRUE) = q.addr
    OBVIOUS
  <2>7. mask_dout' = mask_ram[q.addr]
    BY <1>5, <2>5, <2>6, Zenon
  <2>8. q.addr \in RamAddrs /\ written = {}
    BY <1>3, <2>1, <2>3 DEF MaskInv, AtMostOne, MaskRequests
  <2>9. mask_ram'[q.addr] = mask_ram[q.addr]
    BY <1>5, <2>8
  <2> QED
    BY <2>1, <2>4, <2>7, <2>9
\* In the second clock of an accumulation the RAM reads the address of the accumulation.
<1>11. ASSUME NEW word \in mask_read'
       PROVE  mask_dout' = word
  <2>1. MaskReadRd /\ \E a \in r : word = mask_stored[a]
    BY <1>5, <1>11
  <2>2. PICK a \in r : word = mask_stored[a]
    BY <2>1
  <2>3. r = {a} /\ (CHOOSE b \in {a} : TRUE) = a
    BY <2>2
  <2>4. address = {a}
    <3>1. CASE will_preload
      <4>1. PICK q \in mask_w : Accumulates(q)
        BY <1>2, <3>1
      <4>2. mask_w = {q}
        BY <4>1 DEF MaskInv, AtMostOne
      <4>3. preload
        BY <2>1, <4>1 DEF MaskReadRd, MaskWriteRd
      <4>4. a = q.addr
        BY <1>1, <2>3, <4>2, <4>3
      <4> QED
        BY <1>4, <3>1, <4>2, <4>4
    <3>2. CASE ~will_preload
      BY <1>4, <2>3, <3>2
    <3> QED
      BY <3>1, <3>2
  <2>5. mask_dout' = mask_ram[a]
    BY <1>5, <2>3, <2>4, Zenon
  <2> QED
    BY <2>2, <2>5 DEF MaskInv
<1> HIDE <1>5
<1> QED
  BY <1>6, <1>7, <1>9, <1>10, <1>11, Zenon DEF MaskInv

\* For any number of ports, addresses and bytes a read returns what was written, or what was
\* there before while the write is under way, unless two ports write an address in
\* neighbouring clocks, the read port goes on to an address that was just written, or
\* another word is read in the second clock of an accumulation.
THEOREM ReadsSeeTheirWrites ==
    ASSUME ~HURRIED, ~MOVED_ON, ~READ_IN_ACCUMULATE
    PROVE  PortsSpec => []ReadsSeeWrites
<1> DEFINE Inv == XorInv /\ MaskInv
           vars == <<xorVars, maskVars>>
           Next == \/ XorNext /\ UNCHANGED maskVars
                   \/ MaskNext /\ UNCHANGED xorVars
<1>1. XorInit /\ MaskInit => Inv
  BY InitXorInv, InitMaskInv, Zenon
<1>2. Inv /\ [Next]_vars => Inv'
  <2>1. XorInv /\ UNCHANGED xorVars => XorInv'
    <3> SUFFICES ASSUME XorInv, UNCHANGED xorVars  PROVE XorInv'
      OBVIOUS
    <3>1. /\ w_rams' = w_rams /\ w_dout' = w_dout /\ w_reg' = w_reg /\ r_rams' = r_rams
          /\ r_dout' = r_dout /\ xor_stored' = xor_stored /\ xor_settled' = xor_settled
          /\ xor_read' = xor_read /\ xor_answer' = xor_answer
      BY DEF xorVars
    <3>2. /\ \A a : (Fresh(a)' <=> Fresh(a)) /\ Ones(a)' = Ones(a)
          /\ {i \in WritePorts : r_dout'[i] = 1} = {i \in WritePorts : r_dout[i] = 1}
      BY <3>1 DEF Fresh, Ones
    <3>3. \A x \in xor_read : Fresh(x.addr)' <=> Fresh(x.addr)
      BY <3>2, Zenon
    <3>4. \A a \in RamAddrs : xor_settled[a] = XorOf(Ones(a)')
      BY <3>2, Zenon DEF XorInv
    <3>5. \A x \in xor_read : /\ XorOf({i \in WritePorts : r_dout'[i] = 1}) \in x.old
                              /\ ~Fresh(x.addr)' => x.new = {}
      BY <3>2, <3>3, Zenon DEF XorInv
    <3>6. \A a \in RamAddrs : ~Fresh(a)' => xor_stored[a] = xor_settled[a]
      BY <3>2, Zenon DEF XorInv
    <3>7. /\ w_reg' \in [WritePorts -> AtMostOne(PortWrites)]
          /\ r_rams' \in [WritePorts -> [RamAddrs -> Bit]]
          /\ r_dout' \in [WritePorts -> Bit]
          /\ xor_stored' \in [RamAddrs -> Bit]
          /\ \A i \in WritePorts : \A j \in WritePorts \ {i} : w_rams'[i][j] = r_rams'[j]
          /\ \A i, j \in WritePorts : \A g \in w_reg'[i], h \in w_reg'[j] :
                g.addr = h.addr => i = j
      BY <3>1 DEF XorInv
    <3>8. \A i \in WritePorts : \A g \in w_reg'[i] :
              /\ xor_stored'[g.addr] = g.data
              /\ \A j \in WritePorts \ {i} : w_dout'[i][j] = r_rams'[j][g.addr]
      BY <3>1 DEF XorInv
    <3>9. \A x \in xor_read' : \A i \in WritePorts : \A g \in w_reg'[i] : g.addr = x.addr =>
                /\ x.new = {g.data}
                /\ \A j \in WritePorts \ {i} : r_dout'[j] = w_dout'[i][j]
      <4>1. \A x \in xor_read : \A i \in WritePorts : \A g \in w_reg[i] : g.addr = x.addr =>
                /\ x.new = {g.data}
                /\ \A j \in WritePorts \ {i} : r_dout[j] = w_dout[i][j]
        BY Zenon DEF XorInv
      <4> QED
        BY <3>1, <4>1
    <3>10. \A x \in xor_answer' : x.got \in x.may
      BY <3>1 DEF XorInv
    <3>11. /\ \A x \in xor_read' : /\ XorOf({i \in WritePorts : r_dout'[i] = 1}) \in x.old
                                   /\ ~Fresh(x.addr)' => x.new = {}
           /\ \A a \in RamAddrs : xor_settled'[a] = XorOf(Ones(a)')
           /\ \A a \in RamAddrs : ~Fresh(a)' => xor_stored'[a] = xor_settled'[a]
      BY <3>1, <3>4, <3>5, <3>6
    <3> HIDE <3>1
    <3> QED
      BY <3>7, <3>8, <3>9, <3>10, <3>11, Zenon DEF XorInv
  <2>2. MaskInv /\ UNCHANGED maskVars => MaskInv'
    BY DEF MaskInv, maskVars
  <2>3. XorInv /\ XorNext => XorInv'
    BY XorKeepsInv, Zenon
  <2>4. MaskInv /\ MaskNext => MaskInv'
    BY MaskKeepsInv, Zenon
  <2>5. UNCHANGED vars => UNCHANGED xorVars /\ UNCHANGED maskVars
    BY Zenon DEF vars
  <2> QED
    BY <2>1, <2>2, <2>3, <2>4, <2>5, Zenon
<1>3. Inv => ReadsSeeWrites
  BY Zenon DEF XorInv, MaskInv, ReadsSeeWrites
<1> QED
  BY <1>1, <1>2, <1>3, PTL DEF PortsSpec
---------------------------------------------------------------------------
(* Lists in one memory *)

ListRecords == [head : Addresses, tail : Addresses, items : Seq(Data)]

SlotsOf(p) == {p[n] : n \in 1 .. Len(p)}

\* The slots p, in their order, are the list l: linked from its head to its tail, which alone
\* is marked last, with its items in them.
Chain(l, p) ==
    /\ l \in ListRecords /\ p \in Seq(Addresses)
    /\ Len(p) = Len(l.items) /\ Len(p) > 0
    /\ p[1] = l.head /\ p[Len(p)] = l.tail
    /\ \A n \in 1 .. Len(p) - 1 : next_ptrs[p[n]] = p[n + 1]
    /\ \A n, m \in 1 .. Len(p) : p[n] = p[m] => n = m
    /\ \A n \in 1 .. Len(p) : /\ values[p[n]] = l.items[n]
                              /\ p[n] \in item_last <=> n = Len(p)

\* W has a chain for each list; no two share a slot, and together they have those of `used'.
Chains(W, used) ==
    /\ \A w \in W : Chain(w.list, w.path)
    /\ \A w, v \in W : w # v => SlotsOf(w.path) \cap SlotsOf(v.path) = {}
    /\ \A a : a \in used <=> \E w \in W : a \in SlotsOf(w.path)

SlotsInv ==
    /\ item_valid \subseteq Addresses
    /\ insert_addr_next \in Addresses
    /\ InsertRd => insert_addr_next \notin item_valid
    /\ next_ptrs \in [Addresses -> Addresses]

ChainsInv == \E W : Chains(W, item_valid) /\ lists = {w.list : w \in W}

\* The links are what leads from slot to slot.
LEMMA NodesAreSlots ==
    ASSUME NEW l, NEW p, Chain(l, p), NEW n \in 0 .. Len(p) - 1
    PROVE  Node(l, n) = p[n + 1]
<1> DEFINE IsFrom(f) == f = [i \in 0 .. n |-> IF i = 0 THEN l.head ELSE next_ptrs[f[i - 1]]]
<1>1. n \in Nat /\ Len(p) \in Nat /\ n < Len(p)
  BY DEF Chain
<1>2. IsFrom([i \in 0 .. n |-> p[i + 1]])
  <2>1. ASSUME NEW i \in 0 .. n
        PROVE  p[i + 1] = IF i = 0 THEN l.head
                          ELSE next_ptrs[[k \in 0 .. n |-> p[k + 1]][i - 1]]
    <3>1. CASE i = 0
      BY <3>1 DEF Chain
    <3>2. CASE i # 0
      <4>1. i - 1 \in 0 .. n /\ i \in 1 .. Len(p) - 1 /\ (i - 1) + 1 = i
        BY <1>1, <3>2
      <4>2. next_ptrs[p[i]] = p[i + 1]
        BY <4>1 DEF Chain
      <4> QED
        BY <3>2, <4>1, <4>2
    <3> QED
      BY <3>1, <3>2
  <2> QED
    BY <2>1
<1>3. ASSUME NEW f, IsFrom(f)
      PROVE  f[n] = p[n + 1]
  <2> DEFINE Wrong == {i \in 0 .. n : f[i] # p[i + 1]}
  <2>1. \A i \in 0 .. n : f[i] = IF i = 0 THEN l.head ELSE next_ptrs[f[i - 1]]
    BY <1>3
  <2> HIDE DEF IsFrom
  <2>2. ASSUME Wrong # {}
        PROVE  FALSE
    <3>1. PICK k \in Wrong : \A v \in Wrong : k <= v
      <4>1. Wrong \subseteq Nat
        BY <1>1
      <4> QED
        BY <2>2, <4>1, LeastExists
    <3>2. k \in 0 .. n /\ f[k] # p[k + 1]
      OBVIOUS
    <3>3. k # 0
      BY <1>1, <2>1, <3>2 DEF Chain
    <3>4. k - 1 \in 0 .. n /\ k \in 1 .. Len(p) - 1 /\ (k - 1) + 1 = k /\ ~(k <= k - 1)
      BY <1>1, <3>2, <3>3
    <3>5. f[k - 1] = p[k]
      BY <3>1, <3>4
    <3>6. next_ptrs[p[k]] = p[k + 1]
      BY <3>4 DEF Chain
    <3> QED
      BY <2>1, <3>2, <3>3, <3>5, <3>6
  <2> QED
    BY <1>1, <2>2
<1>4. Node(l, n) = (CHOOSE f : IsFrom(f))[n]
  BY DEF Node
<1> HIDE DEF IsFrom
<1>5. IsFrom(CHOOSE f : IsFrom(f))
  BY <1>2
<1> QED
  BY <1>3, <1>4, <1>5

\* A list of n items has n nodes.
LEMMA NodesOfChain ==
    ASSUME NEW l, NEW p, Chain(l, p)
    PROVE  Nodes(l) = SlotsOf(p) /\ Cardinality(Nodes(l)) = Len(l.items)
<1>1. Len(p) \in Nat /\ Len(l.items) = Len(p)
  BY DEF Chain
<1>2. Nodes(l) = SlotsOf(p)
  <2>1. \A a : a \in Nodes(l) <=> \E n \in 0 .. Len(p) - 1 : a = p[n + 1]
    <3>1. \A n \in 0 .. Len(p) - 1 : Node(l, n) = p[n + 1]
      BY NodesAreSlots, Zenon
    <3>2. Nodes(l) = {Node(l, n) : n \in 0 .. Len(p) - 1}
      BY <1>1, Zenon DEF Nodes
    <3> QED
      BY <3>1, <3>2
  <2>2. \A n \in 0 .. Len(p) - 1 : n + 1 \in 1 .. Len(p)
    BY <1>1
  <2>3. \A n \in 1 .. Len(p) : n - 1 \in 0 .. Len(p) - 1 /\ (n - 1) + 1 = n
    BY <1>1
  <2>4. \A a : a \in Nodes(l) <=> a \in SlotsOf(p)
    BY <2>1, <2>2, <2>3 DEF SlotsOf
  <2> QED
    BY <2>4
<1>3. Cardinality(SlotsOf(p)) = Len(p)
  <2> DEFINE S == SlotsOf(p)
  <2>1. p \in [1 .. Len(p) -> Addresses]
    BY DEF Chain
  <2>2. p \in [1 .. Len(p) -> S]
    BY <2>1 DEF SlotsOf
  <2>3. p \in Bijection(1 .. Len(p), S)
    BY <2>2 DEF Chain, SlotsOf, Bijection, Injection, Surjection, IsInjective
  <2>4. ExistsBijection(1 .. Len(p), S)
    BY <2>3 DEF ExistsBijection
  <2> HIDE DEF S
  <2>5. Cardinality(S) = Len(p)
    BY <1>1, <2>4, FS_CountingElements, Zenon
  <2> QED
    BY <2>5 DEF S
<1> QED
  BY <1>1, <1>2, <1>3, Zenon

\* What is known of the chains is what the user relies on.
LEMMA ChainsAreIntact == SlotsInv /\ ChainsInv => ListsAreIntact
<1> SUFFICES ASSUME SlotsInv, ChainsInv  PROVE ListsAreIntact
  OBVIOUS
<1>1. PICK W : Chains(W, item_valid) /\ lists = {w.list : w \in W}
  BY DEF ChainsInv
<1>2. \A l \in lists : \E w \in W : w.list = l
  BY <1>1
<1>3. ASSUME NEW l \in lists
      PROVE  /\ Node(l, Len(l.items) - 1) = l.tail
             /\ Cardinality(Nodes(l)) = Len(l.items)
             /\ \A n \in 1 .. Len(l.items) : values[Node(l, n - 1)] = l.items[n]
             /\ Nodes(l) \cap item_last = {l.tail}
  <2>1. PICK w \in W : w.list = l
    BY <1>2
  <2>2. PICK p : p = w.path
    OBVIOUS
  <2>3. Chain(l, p)
    BY <1>1, <2>1, <2>2, Zenon DEF Chains
  <2>4. Len(p) \in Nat /\ Len(l.items) = Len(p) /\ Len(p) > 0
    BY <2>3 DEF Chain
  <2>5. Nodes(l) = SlotsOf(p) /\ Cardinality(Nodes(l)) = Len(l.items)
    BY <2>3, NodesOfChain, Zenon
  <2>6. \A n \in 1 .. Len(p) : Node(l, n - 1) = p[n]
    <3> SUFFICES ASSUME NEW n \in 1 .. Len(p)  PROVE Node(l, n - 1) = p[n]
      OBVIOUS
    <3>1. n - 1 \in 0 .. Len(p) - 1 /\ (n - 1) + 1 = n
      BY <2>4
    <3>2. Node(l, n - 1) = p[(n - 1) + 1]
      BY <2>3, <3>1, NodesAreSlots, Zenon
    <3> QED
      BY <3>1, <3>2, Zenon
  <2>7. Node(l, Len(l.items) - 1) = l.tail
    BY <2>3, <2>4, <2>6 DEF Chain
  <2>8. \A n \in 1 .. Len(l.items) : values[Node(l, n - 1)] = l.items[n]
    BY <2>3, <2>4, <2>6 DEF Chain
  <2>9. SlotsOf(p) \cap item_last = {l.tail}
    BY <2>3, <2>4 DEF Chain, SlotsOf
  <2> QED
    BY <2>5, <2>7, <2>8, <2>9, Zenon
<1>4. ASSUME NEW l \in lists, NEW m \in lists, l # m
      PROVE  Nodes(l) \cap Nodes(m) = {}
  <2>1. PICK w \in W : w.list = l
    BY <1>2
  <2>2. PICK v \in W : v.list = m
    BY <1>2
  <2>3. SlotsOf(w.path) \cap SlotsOf(v.path) = {}
    BY <1>1, <1>4, <2>1, <2>2, Zenon DEF Chains
  <2>4. Nodes(l) = SlotsOf(w.path) /\ Nodes(m) = SlotsOf(v.path)
    BY <1>1, <2>1, <2>2, NodesOfChain, Zenon DEF Chains
  <2> QED
    BY <2>3, <2>4, Zenon
<1>5. UNION {Nodes(l) : l \in lists} = item_valid
  <2>1. \A w \in W : Nodes(w.list) = SlotsOf(w.path)
    BY <1>1, NodesOfChain, Zenon DEF Chains
  <2>2. \A a : a \in item_valid <=> \E w \in W : a \in Nodes(w.list)
    BY <1>1, <2>1 DEF Chains
  <2>3. \A a : a \in item_valid <=> \E l \in lists : a \in Nodes(l)
    BY <1>1, <1>2, <2>2
  <2> QED
    BY <2>3
<1> QED
  BY <1>3, <1>4, <1>5, Zenon DEF SlotsInv, ListsAreIntact

---------------------------------------------------------------------------
(* One item leaves *)

Popped(l, pop) == IF l.head \in pop THEN AfterPop(l) ELSE {l}

\* A list and its chain after the pop of the head.
AfterPopChain(w) ==
    IF PopLast(w.list.head) THEN {}
    ELSE {[list |-> [w.list EXCEPT !.head = next_ptrs[w.list.head], !.items = Tail(@)],
           path |-> Tail(w.path)]}

PoppedChain(w, pop) == IF w.list.head \in pop THEN AfterPopChain(w) ELSE {w}

LEMMA RestIsChain ==
    ASSUME NEW l, NEW p, Chain(l, p), Len(p) # 1, next_ptrs \in [Addresses -> Addresses],
           NEW m, m = [l EXCEPT !.head = next_ptrs[l.head], !.items = Tail(@)]
    PROVE  /\ Chain(m, Tail(p))
           /\ SlotsOf(Tail(p)) = SlotsOf(p) \ {l.head}
<1>1. /\ l \in ListRecords /\ p \in Seq(Addresses) /\ Len(p) \in Nat /\ Len(p) > 1
      /\ Len(l.items) = Len(p) /\ l.items \in Seq(Data) /\ l.head \in Addresses
  <2>1. l \in ListRecords /\ p \in Seq(Addresses) /\ Len(p) > 0 /\ Len(l.items) = Len(p)
    BY DEF Chain
  <2>2. Len(p) \in Nat
    BY <2>1
  <2>3. l.items \in Seq(Data) /\ l.head \in Addresses
    BY <2>1 DEF ListRecords
  <2>4. Len(p) > 1
    <3>1. PICK n \in Nat : n = Len(p)
      BY <2>2
    <3>2. n > 0 /\ n # 1
      BY <2>1, <3>1
    <3>3. n > 1
      BY <3>2
    <3> QED
      BY <3>1, <3>3
  <2> QED
    BY <2>1, <2>2, <2>3, <2>4
<1>2. PICK q : q = Tail(p)
  OBVIOUS
<1>3. PICK rest : rest = Tail(l.items)
  OBVIOUS
<1>4. q \in Seq(Addresses) /\ Len(q) = Len(p) - 1 /\ \A n \in 1 .. Len(q) : q[n] = p[n + 1]
  BY <1>1, <1>2, HeadTailProperties
<1>5. /\ rest \in Seq(Data) /\ Len(rest) = Len(p) - 1
      /\ \A n \in 1 .. Len(q) : rest[n] = l.items[n + 1]
  BY <1>1, <1>3, <1>4, HeadTailProperties
<1>6. m.head = next_ptrs[l.head] /\ m.tail = l.tail /\ m.items = rest /\ m \in ListRecords
  BY <1>1, <1>5, <1>3 DEF ListRecords
<1>7. \A n \in 1 .. Len(q) : n + 1 \in 1 .. Len(p) /\ (n + 1 = Len(p) <=> n = Len(q))
  BY <1>1, <1>4
<1>8. \A n \in 1 .. Len(q) - 1 : n + 1 \in 1 .. Len(p) - 1 /\ n + 1 \in 1 .. Len(q)
  BY <1>1, <1>4
<1>9. q[1] = m.head
  <2>1. next_ptrs[p[1]] = p[2]
    BY <1>1 DEF Chain
  <2> QED
    BY <1>1, <1>4, <1>6, <2>1 DEF Chain
<1>10. q[Len(q)] = m.tail
  BY <1>1, <1>4, <1>6 DEF Chain
<1>11. \A n \in 1 .. Len(q) - 1 : next_ptrs[q[n]] = q[n + 1]
  <2> SUFFICES ASSUME NEW n \in 1 .. Len(q) - 1  PROVE next_ptrs[q[n]] = q[n + 1]
    OBVIOUS
  <2>1. /\ n + 1 \in 1 .. Len(p) - 1 /\ n + 1 \in 1 .. Len(q) /\ n \in 1 .. Len(q)
    BY <1>1, <1>4, <1>8
  <2>2. next_ptrs[p[n + 1]] = p[(n + 1) + 1]
    BY <2>1 DEF Chain
  <2>3. q[n] = p[n + 1] /\ q[n + 1] = p[(n + 1) + 1]
    BY <1>4, <2>1
  <2> QED
    BY <2>2, <2>3
<1>12. \A n, k \in 1 .. Len(q) : q[n] = q[k] => n = k
  BY <1>1, <1>4, <1>7 DEF Chain
<1>13. \A n \in 1 .. Len(q) : /\ values[q[n]] = m.items[n]
                              /\ q[n] \in item_last <=> n = Len(q)
  BY <1>4, <1>5, <1>6, <1>7 DEF Chain
<1>14. Chain(m, q)
  BY <1>1, <1>4, <1>5, <1>6, <1>9, <1>10, <1>11, <1>12, <1>13 DEF Chain
<1>15. SlotsOf(q) = SlotsOf(p) \ {l.head}
  <2>1. \A n \in 1 .. Len(p) : p[n] = l.head <=> n = 1
    <3>1. 1 \in 1 .. Len(p)
      BY <1>1
    <3> QED
      BY <3>1 DEF Chain
  <2>2. \A n \in 1 .. Len(p) : n # 1 => n - 1 \in 1 .. Len(q) /\ (n - 1) + 1 = n
    BY <1>1, <1>4
  <2>3. \A a \in SlotsOf(q) : a \in SlotsOf(p) /\ a # l.head
    BY <1>1, <1>4, <1>7, <2>1 DEF SlotsOf
  <2>4. \A a \in SlotsOf(p) : a # l.head => a \in SlotsOf(q)
    <3> SUFFICES ASSUME NEW a \in SlotsOf(p), a # l.head  PROVE a \in SlotsOf(q)
      OBVIOUS
    <3>1. PICK n \in 1 .. Len(p) : a = p[n]
      BY DEF SlotsOf
    <3>2. PICK k \in 1 .. Len(q) : k + 1 = n
      BY <2>1, <2>2, <3>1
    <3>3. a = q[k]
      BY <1>4, <3>1, <3>2
    <3> QED
      BY <3>3 DEF SlotsOf
  <2> QED
    BY <2>3, <2>4
<1> QED
  BY <1>2, <1>14, <1>15

\* What the pop makes of one list.
LEMMA PoppedIsChain ==
    ASSUME SlotsInv, NEW w, Chain(w.list, w.path), NEW pop,
           SlotsOf(w.path) \subseteq item_valid,
           pop \cap SlotsOf(w.path) \subseteq {w.list.head}
    PROVE  /\ \A v \in PoppedChain(w, pop) :
                 /\ Chain(v.list, v.path)
                 /\ SlotsOf(v.path) = SlotsOf(w.path) \ pop
                 /\ PoppedChain(w, pop) = {v}
           /\ PoppedChain(w, pop) = {} => SlotsOf(w.path) \subseteq pop
           /\ {v.list : v \in PoppedChain(w, pop)} =
                 IF w.list.head \in pop THEN AfterPop(w.list) ELSE {w.list}
<1>1. PICK p : p = w.path
  OBVIOUS
<1>2. PICK l : l = w.list
  OBVIOUS
<1>3. Chain(l, p) /\ SlotsOf(p) \subseteq item_valid /\ pop \cap SlotsOf(p) \subseteq {l.head}
  BY <1>1, <1>2, Zenon
<1>4. CASE l.head \notin pop
  <2>1. PoppedChain(w, pop) = {w}
    BY <1>2, <1>4 DEF PoppedChain
  <2>2. SlotsOf(p) \cap pop = {}
    BY <1>3, <1>4
  <2>3. SlotsOf(p) \ pop = SlotsOf(p)
    BY <2>2
  <2> QED
    BY <1>1, <1>2, <1>3, <1>4, <2>1, <2>3
<1>5. CASE l.head \in pop
  <2>1. Len(p) \in Nat /\ Len(p) > 0 /\ p[1] = l.head /\ l.head \in SlotsOf(p)
    BY <1>3 DEF Chain, SlotsOf
  <2>2. PopLast(l.head) <=> Len(p) = 1
    <3>1. 1 \in 1 .. Len(p) /\ l.head \in item_valid
      BY <1>3, <2>1
    <3>2. p[1] \in item_last <=> 1 = Len(p)
      BY <1>3, <3>1 DEF Chain
    <3> QED
      BY <2>1, <3>1, <3>2 DEF PopLast
  <2>3. SlotsOf(p) \ pop = SlotsOf(p) \ {l.head}
    BY <1>3, <1>5, <2>1
  <2>4. PoppedChain(w, pop) = AfterPopChain(w)
    BY <1>2, <1>5 DEF PoppedChain
  <2>5. CASE Len(p) = 1
    <3>1. PoppedChain(w, pop) = {} /\ AfterPop(l) = {}
      BY <1>2, <2>2, <2>4, <2>5 DEF AfterPopChain, AfterPop
    <3>2. SlotsOf(p) \subseteq pop
      BY <1>5, <2>1, <2>5 DEF SlotsOf
    <3> QED
      BY <1>1, <1>2, <1>5, <3>1, <3>2
  <2>6. CASE Len(p) # 1
    <3>1. PICK m : m = [l EXCEPT !.head = next_ptrs[l.head], !.items = Tail(@)]
      OBVIOUS
    <3>2. PICK v : v = [list |-> m, path |-> Tail(p)]
      OBVIOUS
    <3>3. PoppedChain(w, pop) = {v} /\ AfterPop(l) = {m}
      BY <1>1, <1>2, <2>2, <2>4, <2>6, <3>1, <3>2, Zenon DEF AfterPopChain, AfterPop
    <3>4. Chain(m, Tail(p)) /\ SlotsOf(Tail(p)) = SlotsOf(p) \ {l.head}
      BY <1>3, <2>6, <3>1, RestIsChain DEF SlotsInv
    <3>5. v.list = m /\ v.path = Tail(p)
      BY <3>2
    <3>6. {u.list : u \in {v}} = {m}
      BY <3>5
    <3> HIDE DEF PoppedChain
    <3> QED
      BY <1>1, <1>2, <1>5, <2>3, <3>3, <3>4, <3>5, <3>6, Zenon
  <2> QED
    BY <2>5, <2>6
<1> QED
  BY <1>4, <1>5

\* After the pop there are chains for the lists that are left.
PopStep(W, pop, V) ==
    /\ Chains(W, item_valid)
    /\ pop = {} \/ \E w \in W : pop = {w.list.head}
    /\ V = UNION {PoppedChain(w, pop) : w \in W}

LEMMA PopKeepsChains ==
    ASSUME SlotsInv, NEW W, NEW pop, NEW V, PopStep(W, pop, V)
    PROVE  /\ pop \subseteq item_valid
           /\ Chains(V, item_valid \ pop)
           /\ \A w, x \in W : w # x => PoppedChain(w, pop) \cap PoppedChain(x, pop) = {}
           /\ \A w \in W :
                 /\ \A v \in PoppedChain(w, pop) : PoppedChain(w, pop) = {v}
                 /\ PoppedChain(w, pop) = {} => w.path[Len(w.path)] \in pop
                 /\ \A m : m \in Popped(w.list, pop)
                              <=> \E v \in PoppedChain(w, pop) : m = v.list
<1>0. Chains(W, item_valid) /\ V = UNION {PoppedChain(w, pop) : w \in W}
  BY DEF PopStep
<1>1. \A w \in W : /\ Chain(w.list, w.path) /\ SlotsOf(w.path) \subseteq item_valid
                   /\ w.list.head \in SlotsOf(w.path)
                   /\ w.path[Len(w.path)] \in SlotsOf(w.path)
  <2>1. \A w \in W : Chain(w.list, w.path) /\ SlotsOf(w.path) \subseteq item_valid
    BY <1>0 DEF Chains
  <2>2. \A l, p : Chain(l, p) => l.head \in SlotsOf(p) /\ p[Len(p)] \in SlotsOf(p)
    BY DEF Chain, SlotsOf
  <2> QED
    BY <2>1, <2>2
<1>2. pop = {} \/ \E u \in W : pop = {u.list.head}
  BY DEF PopStep
<1>3. \A w \in W : pop \cap SlotsOf(w.path) \subseteq {w.list.head}
  <2> SUFFICES ASSUME NEW w \in W, NEW a \in pop, a \in SlotsOf(w.path)
               PROVE  a = w.list.head
    OBVIOUS
  <2>1. PICK u \in W : a = u.list.head
    BY <1>2
  <2>2. a \in SlotsOf(u.path)
    BY <1>1, <2>1
  <2>3. u = w
    BY <1>0, <2>2 DEF Chains
  <2> QED
    BY <2>1, <2>3
<1>4. ASSUME NEW w \in W
      PROVE  /\ \A v \in PoppedChain(w, pop) :
                   /\ Chain(v.list, v.path)
                   /\ SlotsOf(v.path) = SlotsOf(w.path) \ pop
                   /\ PoppedChain(w, pop) = {v}
             /\ PoppedChain(w, pop) = {} => SlotsOf(w.path) \subseteq pop
             /\ {v.list : v \in PoppedChain(w, pop)} =
                   IF w.list.head \in pop THEN AfterPop(w.list) ELSE {w.list}
  <2>1. /\ Chain(w.list, w.path) /\ SlotsOf(w.path) \subseteq item_valid
        /\ pop \cap SlotsOf(w.path) \subseteq {w.list.head}
    BY <1>1, <1>3
  <2> QED
    BY <2>1, PoppedIsChain, Zenon
<1>5. pop \subseteq item_valid
  BY <1>1, <1>2
<1>6. \A v \in V : \E w \in W : v \in PoppedChain(w, pop)
  BY <1>0
<1>7. \A w \in W : PoppedChain(w, pop) \subseteq V
  BY <1>0
<1>8. \A v \in V : Chain(v.list, v.path)
  BY <1>4, <1>6, Zenon
<1>9. ASSUME NEW u \in V, NEW v \in V, u # v
      PROVE  SlotsOf(u.path) \cap SlotsOf(v.path) = {}
  <2>1. PICK w \in W : u \in PoppedChain(w, pop)
    BY <1>6
  <2>2. PICK x \in W : v \in PoppedChain(x, pop)
    BY <1>6
  <2>3. w # x
    <3> SUFFICES ASSUME w = x  PROVE FALSE
      OBVIOUS
    <3>1. PoppedChain(w, pop) = {u} /\ PoppedChain(w, pop) = {v}
      BY <1>4, <2>1, <2>2
    <3> QED
      BY <1>9, <3>1
  <2>4. SlotsOf(w.path) \cap SlotsOf(x.path) = {}
    BY <1>0, <2>3, Zenon DEF Chains
  <2>5. SlotsOf(u.path) = SlotsOf(w.path) \ pop /\ SlotsOf(v.path) = SlotsOf(x.path) \ pop
    BY <1>4, <2>1, <2>2, Zenon
  <2> QED
    BY <2>4, <2>5
<1>10. ASSUME NEW a
       PROVE  a \in item_valid \ pop <=> \E v \in V : a \in SlotsOf(v.path)
  <2>1. ASSUME a \in item_valid, a \notin pop
        PROVE  \E v \in V : a \in SlotsOf(v.path)
    <3>1. PICK w \in W : a \in SlotsOf(w.path)
      BY <1>0, <2>1 DEF Chains
    <3>2. PoppedChain(w, pop) # {}
      BY <1>4, <2>1, <3>1
    <3>3. PICK v \in PoppedChain(w, pop) : TRUE
      BY <3>2
    <3>4. v \in V /\ SlotsOf(v.path) = SlotsOf(w.path) \ pop
      BY <1>4, <1>7, <3>3, Zenon
    <3> QED
      BY <2>1, <3>1, <3>4
  <2>2. ASSUME NEW v \in V, a \in SlotsOf(v.path)
        PROVE  a \in item_valid /\ a \notin pop
    <3>1. PICK w \in W : v \in PoppedChain(w, pop)
      BY <1>6
    <3>2. SlotsOf(v.path) = SlotsOf(w.path) \ pop
      BY <1>4, <3>1, Zenon
    <3> QED
      BY <1>1, <2>2, <3>2
  <2> QED
    BY <2>1, <2>2
<1>11. Chains(V, item_valid \ pop)
  BY <1>8, <1>9, <1>10, Zenon DEF Chains
<1>12. \A w \in W : PoppedChain(w, pop) = {} => w.path[Len(w.path)] \in pop
  BY <1>1, <1>4
<1>13. ASSUME NEW w \in W, NEW x \in W, w # x, NEW v \in PoppedChain(w, pop),
              v \in PoppedChain(x, pop)
       PROVE  FALSE
  <2>1. SlotsOf(v.path) = SlotsOf(w.path) \ pop /\ SlotsOf(v.path) = SlotsOf(x.path) \ pop
    BY <1>4, <1>13, Zenon
  <2>2. v.list.head \in SlotsOf(v.path)
    <3>1. Chain(v.list, v.path)
      BY <1>4, <1>13, Zenon
    <3> QED
      BY <3>1 DEF Chain, SlotsOf
  <2>3. SlotsOf(w.path) \cap SlotsOf(x.path) = {}
    BY <1>0, <1>13, Zenon DEF Chains
  <2> QED
    BY <2>1, <2>2, <2>3
<1>14. \A w, x \in W : w # x => PoppedChain(w, pop) \cap PoppedChain(x, pop) = {}
  BY <1>13
<1>15. ASSUME NEW w \in W, NEW m
       PROVE  m \in Popped(w.list, pop) <=> \E v \in PoppedChain(w, pop) : m = v.list
  <2>1. {v.list : v \in PoppedChain(w, pop)} = Popped(w.list, pop)
    BY <1>4, Zenon DEF Popped
  <2> QED
    BY <2>1
<1> QED
  BY <1>4, <1>5, <1>11, <1>12, <1>14, <1>15, Zenon

---------------------------------------------------------------------------
(* One item comes *)

\* How the links change with an item in slot `ins'; the marks of `gone' are taken away.
InsertStep(ins, parent, gone, data) ==
    /\ item_last' = (item_last \ gone) \cup {ins}
    /\ values' = [a \in Addresses |-> IF a = ins THEN data ELSE values[a]]
    /\ next_ptrs' = [a \in Addresses |-> IF a = parent THEN ins ELSE next_ptrs[a]]
    /\ gone \subseteq {parent}
    /\ ins \in Addresses /\ data \in Data

NewChain(ins, data) ==
    [list |-> [head |-> ins, tail |-> ins, items |-> <<data>>], path |-> <<ins>>]

GrownList(l, ins, data) == [l EXCEPT !.tail = ins, !.items = Append(@, data)]

GrownChain(w, ins, data) ==
    [list |-> GrownList(w.list, ins, data), path |-> Append(w.path, ins)]

\* The slots of a list whose links, marks and values stay.
LEMMA UntouchedChain ==
    ASSUME NEW l, NEW p, Chain(l, p),
           \A n \in 1 .. Len(p) :
               /\ values'[p[n]] = values[p[n]]
               /\ p[n] \in item_last' <=> p[n] \in item_last
               /\ next_ptrs'[p[n]] = next_ptrs[p[n]]
    PROVE  Chain(l, p)'
<1>1. Len(p) \in Nat /\ \A n \in 1 .. Len(p) - 1 : n \in 1 .. Len(p)
  BY DEF Chain
<1>2. \A n \in 1 .. Len(p) - 1 : next_ptrs'[p[n]] = p[n + 1]
  BY <1>1 DEF Chain
<1>3. \A n \in 1 .. Len(p) : /\ values'[p[n]] = l.items[n]
                             /\ p[n] \in item_last' <=> n = Len(p)
  BY DEF Chain
<1> QED
  BY <1>2, <1>3 DEF Chain

LEMMA OtherChainStays ==
    ASSUME NEW l, NEW p, Chain(l, p), NEW ins, NEW parent, NEW gone, NEW data,
           InsertStep(ins, parent, gone, data), ins \notin SlotsOf(p), parent \notin SlotsOf(p)
    PROVE  Chain(l, p)'
<1>1. \A n \in 1 .. Len(p) : p[n] \in Addresses /\ p[n] # ins /\ p[n] # parent
  BY DEF Chain, SlotsOf
<1>2. \A n \in 1 .. Len(p) :
          /\ values'[p[n]] = values[p[n]]
          /\ p[n] \in item_last' <=> p[n] \in item_last
          /\ next_ptrs'[p[n]] = next_ptrs[p[n]]
  BY <1>1 DEF InsertStep
<1> QED
  BY <1>2, UntouchedChain

LEMMA NewIsChain ==
    ASSUME NEW ins, NEW parent, NEW gone, NEW data, InsertStep(ins, parent, gone, data),
           NEW x, x = NewChain(ins, data)
    PROVE  Chain(x.list, x.path)' /\ SlotsOf(x.path) = {ins}
<1>1. /\ x.path = <<ins>> /\ x.list.items = <<data>> /\ x.list.head = ins /\ x.list.tail = ins
      /\ x.list \in ListRecords
  BY DEF NewChain, ListRecords, InsertStep
<1>2. ins \in item_last' /\ values'[ins] = data
  BY DEF InsertStep
<1>3. SlotsOf(x.path) = {ins}
  BY <1>1 DEF SlotsOf
<1>4. x.path \in Seq(Addresses)
  BY <1>1 DEF InsertStep
<1> QED
  BY <1>1, <1>2, <1>3, <1>4 DEF Chain

\* The item goes to the end of the list l.
AppendStep(l, p, ins, parent, gone, data, m, q) ==
    /\ Chain(l, p)
    /\ InsertStep(ins, parent, gone, data)
    /\ ins \notin SlotsOf(p)
    /\ parent = l.tail /\ gone = {parent}
    /\ m = GrownList(l, ins, data) /\ q = Append(p, ins)

LEMMA GrownIsChain ==
    ASSUME NEW l, NEW p, NEW ins, NEW parent, NEW gone, NEW data, NEW m, NEW q,
           AppendStep(l, p, ins, parent, gone, data, m, q)
    PROVE  Chain(m, q)' /\ SlotsOf(q) = SlotsOf(p) \cup {ins}
<1>0. /\ Chain(l, p) /\ InsertStep(ins, parent, gone, data) /\ ins \notin SlotsOf(p)
      /\ parent = l.tail /\ gone = {parent}
      /\ m = GrownList(l, ins, data) /\ q = Append(p, ins)
  BY DEF AppendStep
<1>1. /\ l \in ListRecords /\ p \in Seq(Addresses) /\ Len(p) \in Nat /\ Len(p) > 0
      /\ Len(l.items) = Len(p) /\ l.items \in Seq(Data)
      /\ ins \in Addresses /\ data \in Data
  BY <1>0 DEF Chain, ListRecords, InsertStep
<1>3. PICK more : more = Append(l.items, data)
  OBVIOUS
<1>4. /\ q \in Seq(Addresses) /\ Len(q) = Len(p) + 1
      /\ \A n \in 1 .. Len(p) : q[n] = p[n]
      /\ q[Len(p) + 1] = ins
  BY <1>0, <1>1, AppendProperties
<1>5. /\ more \in Seq(Data) /\ Len(more) = Len(p) + 1
      /\ \A n \in 1 .. Len(p) : more[n] = l.items[n]
      /\ more[Len(p) + 1] = data
  BY <1>1, <1>3, AppendProperties
<1>6. m.head = l.head /\ m.tail = ins /\ m.items = more /\ m \in ListRecords
  BY <1>0, <1>1, <1>3, <1>5 DEF ListRecords, GrownList
<1>7. /\ 1 \in 1 .. Len(p) /\ Len(p) \in 1 .. Len(p)
      /\ \A n \in 1 .. Len(q) : n \in 1 .. Len(p) \/ n = Len(p) + 1
      /\ \A n \in 1 .. Len(p) : n \in 1 .. Len(q) /\ n # Len(p) + 1
      /\ Len(p) + 1 \in 1 .. Len(q)
  BY <1>1, <1>4
<1>8. \A n \in 1 .. Len(p) : /\ p[n] \in Addresses /\ p[n] # ins
                             /\ p[n] = parent <=> n = Len(p)
  BY <1>0, <1>1, <1>7 DEF Chain, SlotsOf
<1>9. \A n \in 1 .. Len(q) - 1 : next_ptrs'[q[n]] = q[n + 1]
  <2> SUFFICES ASSUME NEW n \in 1 .. Len(q) - 1  PROVE next_ptrs'[q[n]] = q[n + 1]
    OBVIOUS
  <2>1. n \in 1 .. Len(p)
    BY <1>1, <1>4
  <2>2. next_ptrs'[p[n]] = IF n = Len(p) THEN ins ELSE next_ptrs[p[n]]
    BY <1>0, <1>8, <2>1 DEF InsertStep
  <2>3. CASE n = Len(p)
    BY <1>4, <2>1, <2>2, <2>3
  <2>4. CASE n # Len(p)
    <3>1. n \in 1 .. Len(p) - 1 /\ n + 1 \in 1 .. Len(p)
      BY <1>1, <2>1, <2>4
    <3>2. next_ptrs[p[n]] = p[n + 1]
      BY <1>0, <3>1 DEF Chain
    <3> QED
      BY <1>4, <2>1, <2>2, <2>4, <3>1, <3>2
  <2> QED
    BY <2>3, <2>4
<1>10. \A n, k \in 1 .. Len(q) : q[n] = q[k] => n = k
  BY <1>0, <1>4, <1>7, <1>8 DEF Chain
<1>11. ASSUME NEW n \in 1 .. Len(q)
       PROVE  /\ values'[q[n]] = m.items[n]
              /\ q[n] \in item_last' <=> n = Len(q)
  <2>1. CASE n = Len(p) + 1
    <3>1. values'[ins] = data /\ ins \in item_last'
      BY <1>0, <1>1 DEF InsertStep
    <3> QED
      BY <1>4, <1>5, <1>6, <2>1, <3>1
  <2>2. CASE n \in 1 .. Len(p)
    <3>1. q[n] = p[n] /\ m.items[n] = l.items[n] /\ n # Len(q)
      BY <1>4, <1>5, <1>6, <1>7, <2>2
    <3>2. values'[p[n]] = values[p[n]]
      BY <1>0, <1>8, <2>2 DEF InsertStep
    <3>3. p[n] \in item_last' <=> p[n] \in item_last /\ p[n] # parent
      BY <1>0, <1>8, <2>2 DEF InsertStep
    <3>4. values[p[n]] = l.items[n] /\ (p[n] \in item_last <=> n = Len(p))
      BY <1>0, <2>2 DEF Chain
    <3> QED
      BY <1>8, <2>2, <3>1, <3>2, <3>3, <3>4
  <2> QED
    BY <1>7, <2>1, <2>2
<1>12. q[1] = m.head /\ q[Len(q)] = m.tail
  BY <1>0, <1>4, <1>6, <1>7 DEF Chain
<1>13. Len(q) = Len(m.items) /\ Len(q) > 0
  BY <1>1, <1>4, <1>5, <1>6
<1>14. Chain(m, q)'
  BY <1>0, <1>4, <1>6, <1>9, <1>10, <1>11, <1>12, <1>13 DEF Chain
<1>15. SlotsOf(q) = SlotsOf(p) \cup {ins}
  <2>1. \A a \in SlotsOf(q) : a \in SlotsOf(p) \/ a = ins
    BY <1>4, <1>7 DEF SlotsOf
  <2>2. \A a \in SlotsOf(p) : a \in SlotsOf(q)
    BY <1>4, <1>7 DEF SlotsOf
  <2>3. ins \in SlotsOf(q)
    BY <1>4, <1>7 DEF SlotsOf
  <2> QED
    BY <2>1, <2>2, <2>3
<1> QED
  BY <1>14, <1>15

\* A new list.
LEMMA NewListKeepsChains ==
    ASSUME NEW V, NEW used, Chains(V, used),
           NEW ins, NEW parent, NEW gone, NEW data, InsertStep(ins, parent, gone, data),
           ins \notin used, parent \notin used,
           NEW x, x = NewChain(ins, data)
    PROVE  Chains(V \cup {x}, used \cup {ins})'
<1>1. \A w \in V : /\ Chain(w.list, w.path)
                   /\ ins \notin SlotsOf(w.path) /\ parent \notin SlotsOf(w.path)
  BY Zenon DEF Chains
<1>2. \A w \in V : Chain(w.list, w.path)'
  BY <1>1, OtherChainStays, Zenon
<1>3. Chain(x.list, x.path)' /\ SlotsOf(x.path) = {ins}
  BY NewIsChain, Zenon
<1>4. \A w, v \in V \cup {x} : w # v => SlotsOf(w.path) \cap SlotsOf(v.path) = {}
  BY <1>1, <1>3 DEF Chains
<1>5. \A a : a \in used \cup {ins} <=> \E w \in V \cup {x} : a \in SlotsOf(w.path)
  BY <1>3 DEF Chains
<1> QED
  BY <1>2, <1>3, <1>4, <1>5 DEF Chains

\* One item more in a list.
LEMMA AppendKeepsChains ==
    ASSUME NEW V, NEW used, Chains(V, used),
           NEW ins, NEW parent, NEW gone, NEW data, InsertStep(ins, parent, gone, data),
           ins \notin used, NEW t \in V, parent = t.list.tail, gone = {parent},
           NEW x, x = GrownChain(t, ins, data)
    PROVE  Chains((V \ {t}) \cup {x}, used \cup {ins})'
<1>1. \A w \in V : Chain(w.list, w.path) /\ ins \notin SlotsOf(w.path)
  BY Zenon DEF Chains
<1>2. parent \in SlotsOf(t.path)
  <2>1. Chain(t.list, t.path)
    BY <1>1
  <2> QED
    BY <2>1 DEF Chain, SlotsOf
<1>3. \A w \in V \ {t} : parent \notin SlotsOf(w.path)
  BY <1>2 DEF Chains
<1>4. \A w \in V \ {t} : Chain(w.list, w.path)'
  BY <1>1, <1>3, OtherChainStays
<1>5. Chain(x.list, x.path)' /\ SlotsOf(x.path) = SlotsOf(t.path) \cup {ins}
  <2>1. PICK l : l = t.list
    OBVIOUS
  <2>2. PICK p : p = t.path
    OBVIOUS
  <2>3. PICK m : m = GrownList(l, ins, data)
    OBVIOUS
  <2>4. PICK q : q = Append(p, ins)
    OBVIOUS
  <2>5. AppendStep(l, p, ins, parent, gone, data, m, q)
    BY <1>1, <2>1, <2>2, <2>3, <2>4 DEF AppendStep
  <2>6. Chain(m, q)' /\ SlotsOf(q) = SlotsOf(p) \cup {ins}
    BY <2>5, GrownIsChain
  <2>7. x.list = m /\ x.path = q
    BY <2>1, <2>2, <2>3, <2>4 DEF GrownChain
  <2> QED
    BY <2>2, <2>6, <2>7, Zenon
<1>6. \A w, v \in (V \ {t}) \cup {x} : w # v => SlotsOf(w.path) \cap SlotsOf(v.path) = {}
  <2>1. \A w \in V \ {t} : SlotsOf(w.path) \cap SlotsOf(x.path) = {}
    BY <1>1, <1>5 DEF Chains
  <2>2. \A w, v \in V \ {t} : w # v => SlotsOf(w.path) \cap SlotsOf(v.path) = {}
    BY DEF Chains
  <2> QED
    BY <2>1, <2>2
<1>7. \A a : a \in used \cup {ins} <=> \E w \in (V \ {t}) \cup {x} : a \in SlotsOf(w.path)
  <2> SUFFICES ASSUME NEW a
               PROVE  a \in used \cup {ins} <=> \E w \in (V \ {t}) \cup {x} : a \in SlotsOf(w.path)
    OBVIOUS
  <2>1. a \in used <=> \E w \in V : a \in SlotsOf(w.path)
    BY DEF Chains
  <2>2. a \in SlotsOf(x.path) <=> a \in SlotsOf(t.path) \/ a = ins
    BY <1>5
  <2> QED
    BY <2>1, <2>2
<1> QED
  BY <1>4, <1>5, <1>6, <1>7 DEF Chains

---------------------------------------------------------------------------
(* One clock *)

LEMMA InitLists == ArrayInit => SlotsInv /\ ChainsInv
<1> SUFFICES ASSUME ArrayInit  PROVE SlotsInv /\ ChainsInv
  OBVIOUS
<1>1. 0 \in Addresses
  BY ArrayAssumption DEF Addresses
<1>2. SlotsInv
  BY <1>1 DEF ArrayInit, SlotsInv
<1>3. Chains({}, item_valid) /\ lists = {w.list : w \in {}}
  BY DEF ArrayInit, Chains
<1> QED
  BY <1>2, <1>3 DEF ChainsInv

\* The slot for the next item is a free one when there is any.
LEMMA NextSlotIsFree ==
    ASSUME NEW valid, valid \subseteq Addresses
    PROVE  /\ NextInsertAddr(valid) \in Addresses
           /\ valid # Addresses => NextInsertAddr(valid) \notin valid
<1>1. ARRAY_ITEMS - 1 \in Addresses /\ Addresses \subseteq Nat
  BY ArrayAssumption DEF Addresses
<1>2. Addresses \ valid # {} => NextInsertAddr(valid) \in Addresses \ valid
  BY <1>1, LeastIsIn, Zenon DEF NextInsertAddr, OneHotToBin
<1>3. Addresses \ valid = {} => NextInsertAddr(valid) = ARRAY_ITEMS - 1
  BY Zenon DEF NextInsertAddr, OneHotToBin
<1> QED
  BY <1>1, <1>2, <1>3

LEMMA CycleKeepsLists ==
    ASSUME SlotsInv, ChainsInv, ~STRAY_ADDR, ArrayNext
    PROVE  SlotsInv' /\ ChainsInv'
<1>1. PICK to \in {{}} \cup {{l} : l \in lists}, from \in {{}} \cup {{l} : l \in lists},
           new \in BOOLEAN, data \in Data, addr \in NewListAddrs :
        /\ ~(new /\ to # {})
        /\ UserCycle(to, new, from, data, addr)
  BY DEF ArrayNext
<1>2. PICK ins : ins = insert_addr_next
  OBVIOUS
<1>3. addr = ins
  BY <1>1, <1>2 DEF NewListAddrs
<1>4. PICK pop : pop = {l.head : l \in from}
  OBVIOUS
<1> DEFINE inserts == (to # {} \/ new) /\ InsertRd
           insert == IF ~inserts THEN {}
                     ELSE IF new THEN {[addr |-> addr, append |-> FALSE, data |-> data]}
                     ELSE {[addr |-> l.tail, append |-> TRUE, data |-> data] : l \in to}
<1>5. PICK W : Chains(W, item_valid) /\ lists = {w.list : w \in W}
  BY DEF ChainsInv
<1>6. \A w \in W : Chain(w.list, w.path) /\ w.list.head \in item_valid
  <2>1. \A l, p : Chain(l, p) => l.head \in SlotsOf(p)
    BY DEF Chain, SlotsOf
  <2> QED
    BY <1>5, <2>1 DEF Chains
<1>7. pop = IF PopVld THEN {l.head : l \in from} ELSE {}
  BY <1>1, <1>4, <1>5, <1>6 DEF PopVld
<1>8. /\ ArrayCycle(insert, pop)
      /\ lists' = (UNION {IF inserts /\ l \in to THEN AfterAppend(Popped(l, pop), data)
                         ELSE Popped(l, pop) : l \in lists})
                  \cup (IF inserts /\ new THEN AfterAppend({}, data) ELSE {})
  BY <1>1, <1>7, Zenon DEF UserCycle, Popped
<1>9. from = {} \/ \E w \in W : from = {w.list}
  BY <1>1, <1>5
<1>10. PICK V : V = UNION {PoppedChain(w, pop) : w \in W}
  OBVIOUS
<1>11. /\ pop \subseteq item_valid
       /\ Chains(V, item_valid \ pop)
       /\ \A w, x \in W : w # x => PoppedChain(w, pop) \cap PoppedChain(x, pop) = {}
       /\ \A w \in W :
             /\ \A v \in PoppedChain(w, pop) : PoppedChain(w, pop) = {v}
             /\ PoppedChain(w, pop) = {} => w.path[Len(w.path)] \in pop
             /\ \A m : m \in Popped(w.list, pop) <=> \E v \in PoppedChain(w, pop) : m = v.list
  <2>1. PopStep(W, pop, V)
    BY <1>4, <1>5, <1>9, <1>10 DEF PopStep
  <2> QED
    BY <2>1, PopKeepsChains, Zenon
<1>11a. \A m : m \in lists' <=>
                 \/ \E l \in lists : l \in to /\ inserts /\ m \in AfterAppend(Popped(l, pop), data)
                 \/ \E l \in lists : ~(l \in to /\ inserts) /\ m \in Popped(l, pop)
                 \/ inserts /\ new /\ m \in AfterAppend({}, data)
  <2>1. PICK b \in BOOLEAN : b = inserts
    OBVIOUS
  <2>2. lists' = (UNION {IF b /\ l \in to THEN AfterAppend(Popped(l, pop), data)
                         ELSE Popped(l, pop) : l \in lists})
                  \cup (IF b /\ new THEN AfterAppend({}, data) ELSE {})
    BY <1>8, <2>1, Zenon
  <2> HIDE DEF inserts
  <2>3. \A m : m \in lists' <=>
                 \/ \E l \in lists : l \in to /\ b /\ m \in AfterAppend(Popped(l, pop), data)
                 \/ \E l \in lists : ~(l \in to /\ b) /\ m \in Popped(l, pop)
                 \/ b /\ new /\ m \in AfterAppend({}, data)
    <3> DEFINE Of(l) == IF b /\ l \in to THEN AfterAppend(Popped(l, pop), data)
                        ELSE Popped(l, pop)
               More == IF b /\ new THEN AfterAppend({}, data) ELSE {}
    <3>1. lists' = (UNION {Of(l) : l \in lists}) \cup More
      BY <2>2, Zenon
    <3>2. \A m, l : m \in Of(l) <=> \/ l \in to /\ b /\ m \in AfterAppend(Popped(l, pop), data)
                                    \/ ~(l \in to /\ b) /\ m \in Popped(l, pop)
      OBVIOUS
    <3>3. \A m : m \in More <=> b /\ new /\ m \in AfterAppend({}, data)
      OBVIOUS
    <3> HIDE DEF Of, More
    <3>4. \A m : m \in lists' <=> (\E l \in lists : m \in Of(l)) \/ m \in More
      <4> SUFFICES ASSUME NEW m
                   PROVE  m \in lists' <=> (\E l \in lists : m \in Of(l)) \/ m \in More
        OBVIOUS
      <4>1. PICK U : U = UNION {Of(l) : l \in lists}
        OBVIOUS
      <4>2. m \in U <=> \E l \in lists : m \in Of(l)
        BY <4>1
      <4>3. lists' = U \cup More
        BY <3>1, <4>1, Zenon
      <4> QED
        BY <4>2, <4>3
    <3> QED
      BY <3>2, <3>3, <3>4, Zenon
  <2> QED
    BY <2>1, <2>3, Zenon
\* The lists after the pop.
<1>11b. PICK used : used = item_valid \ pop
  OBVIOUS
<1>12. \A m : (\E v \in V : m = v.list) <=> \E w \in W : m \in Popped(w.list, pop)
  <2>1. \A v : v \in V <=> \E w \in W : v \in PoppedChain(w, pop)
    BY <1>10
  <2>2. \A m : \A w \in W :
            m \in Popped(w.list, pop) <=> \E v \in PoppedChain(w, pop) : m = v.list
    BY <1>11, Zenon
  <2> QED
    BY <2>1, <2>2, Zenon
<1>13. /\ item_valid' = (item_valid \ pop) \cup {insert_addr_next : i \in insert}
       /\ item_last' = NextItemLast(insert)
       /\ insert_addr_next' = NextInsertAddr(item_valid')
       /\ values' = [a \in Addresses |->
                        IF insert # {} /\ a = insert_addr_next
                        THEN (CHOOSE i \in insert : TRUE).data ELSE values[a]]
       /\ next_ptrs' = [a \in Addresses |->
                           IF \E i \in insert : i.addr = a THEN insert_addr_next ELSE next_ptrs[a]]
  BY <1>8, Zenon DEF ArrayCycle
<1>14. SlotsInv'
  <2>1. /\ item_valid \subseteq Addresses /\ insert_addr_next \in Addresses
        /\ next_ptrs \in [Addresses -> Addresses]
    BY DEF SlotsInv
  <2>2. PICK valid : valid = item_valid'
    OBVIOUS
  <2>3. valid \subseteq Addresses
    BY <1>13, <2>1, <2>2
  <2>4. NextInsertAddr(valid) \in Addresses /\ (valid # Addresses => NextInsertAddr(valid) \notin valid)
    BY <2>3, NextSlotIsFree, Zenon
  <2>5. insert_addr_next' = NextInsertAddr(valid)
    BY <1>13, <2>2, Zenon
  <2>6. next_ptrs' \in [Addresses -> Addresses]
    BY <1>13, <2>1
  <2> QED
    BY <2>2, <2>3, <2>4, <2>5, <2>6 DEF SlotsInv, InsertRd
<1>15. CASE ~inserts
  <2>1. insert = {}
    BY <1>15
  <2> HIDE DEF insert
  <2>2. item_valid' = item_valid \ pop /\ item_last' = item_last
    BY <1>13, <2>1 DEF NextItemLast
  <2>3. \A a \in Addresses : values'[a] = values[a] /\ next_ptrs'[a] = next_ptrs[a]
    BY <1>13, <2>1
  <2>4. \A v \in V : Chain(v.list, v.path)'
    <3> SUFFICES ASSUME NEW v \in V  PROVE Chain(v.list, v.path)'
      OBVIOUS
    <3>1. Chain(v.list, v.path)
      BY <1>11, Zenon DEF Chains
    <3>2. \A n \in 1 .. Len(v.path) : v.path[n] \in Addresses
      BY <3>1 DEF Chain
    <3> QED
      BY <2>2, <2>3, <3>1, <3>2, UntouchedChain
  <2>5. Chains(V, item_valid)'
    BY <1>11, <2>2, <2>4 DEF Chains
  <2>6. \A m : m \in lists' <=> \E l \in lists : m \in Popped(l, pop)
    BY <1>11a, <1>15
  <2>7. lists' = {v.list : v \in V}
    BY <1>5, <1>12, <2>6
  <2> QED
    BY <1>14, <2>5, <2>7 DEF ChainsInv
<1>16. ASSUME NEW W2, NEW valid, Chains(W2, valid)', item_valid' = valid,
              lists' = {w.list : w \in W2}
       PROVE  ChainsInv'
  <2>1. Chains(W2, item_valid)'
    BY <1>16 DEF Chains
  <2> QED
    BY <1>16, <2>1 DEF ChainsInv
<1>17. ASSUME inserts
       PROVE  ins \notin item_valid /\ ins \in Addresses /\ ins \notin used
  BY <1>11b, <1>2, <1>17 DEF SlotsInv
<1>18. ASSUME NEW i, insert = {i}, i.data = data, inserts,
              NEW gone, gone = IF i.append THEN {i.addr} ELSE {}
       PROVE  InsertStep(ins, i.addr, gone, data) /\ item_valid' = used \cup {ins}
  <2> HIDE DEF insert, inserts
  <2>1. (CHOOSE j \in insert : TRUE) = i
    <3>1. (CHOOSE j \in {i} : TRUE) = i
      OBVIOUS
    <3> QED
      BY <1>18, <3>1
  <2>2. item_last' = (item_last \ gone) \cup {ins}
    BY <1>2, <1>13, <1>18 DEF NextItemLast
  <2>3. values' = [a \in Addresses |-> IF a = ins THEN data ELSE values[a]]
    BY <1>2, <1>13, <1>18, <2>1
  <2>4. next_ptrs' = [a \in Addresses |-> IF a = i.addr THEN ins ELSE next_ptrs[a]]
    BY <1>2, <1>13, <1>18
  <2>5. gone \subseteq {i.addr}
    BY <1>18
  <2>6. item_valid' = used \cup {ins}
    BY <1>11b, <1>2, <1>13, <1>18
  <2> QED
    BY <1>1, <1>17, <1>18, <2>2, <2>3, <2>4, <2>5, <2>6 DEF InsertStep
<1>19. PICK x : x = NewChain(ins, data)
  OBVIOUS
<1>20. AfterAppend({}, data) = {x.list}
  BY <1>2, <1>19 DEF AfterAppend, NewChain
<1>21. ASSUME NEW parent, NEW gone, InsertStep(ins, parent, gone, data), inserts,
              parent \notin used
       PROVE  Chains(V \cup {x}, used \cup {ins})'
  <2>1. Chains(V, used) /\ ins \notin used
    BY <1>11b, <1>11, <1>17, <1>21
  <2> QED
    BY <1>19, <1>21, <2>1, NewListKeepsChains, Zenon
\* A new list.
<1>22. CASE inserts /\ new
  <2>1. PICK i : i = [addr |-> ins, append |-> FALSE, data |-> data]
    OBVIOUS
  <2>2. insert = {i} /\ i.addr = ins /\ i.data = data /\ i.append = FALSE
    BY <1>3, <1>22, <2>1
  <2>3. to = {}
    BY <1>1, <1>22
  <2>4. InsertStep(ins, ins, {}, data) /\ item_valid' = used \cup {ins}
    <3>1. {} = IF i.append THEN {i.addr} ELSE {}
      BY <2>2
    <3> QED
      BY <1>18, <1>22, <2>2, <3>1
  <2>5. Chains(V \cup {x}, used \cup {ins})'
    BY <1>17, <1>21, <1>22, <2>4
  <2>6. \A m : m \in lists' <=> m = x.list \/ \E l \in lists : m \in Popped(l, pop)
    BY <1>20, <1>22, <1>11a, <2>3
  <2>7. \A m : m \in lists' <=> m = x.list \/ \E v \in V : m = v.list
    BY <1>5, <1>12, <2>6
  <2>8. PICK W2 : W2 = V \cup {x}
    OBVIOUS
  <2>9. lists' = {w.list : w \in W2}
    BY <2>7, <2>8
  <2>10. PICK valid : valid = used \cup {ins}
    OBVIOUS
  <2>11. Chains(W2, valid)'
    BY <2>5, <2>8, <2>10
  <2> QED
    BY <1>14, <1>16, <2>4, <2>9, <2>10, <2>11
\* An item more in a list.
<1>23. CASE inserts /\ ~new
  <2>1. PICK t \in W : to = {t.list}
    BY <1>1, <1>5, <1>23
  <2>2. PICK l : l = t.list
    OBVIOUS
  <2>3. PICK i : i = [addr |-> l.tail, append |-> TRUE, data |-> data]
    OBVIOUS
  <2>4. insert = {i} /\ i.addr = l.tail /\ i.data = data /\ i.append = TRUE
    BY <1>23, <2>1, <2>2, <2>3
  <2>5. InsertStep(ins, l.tail, {l.tail}, data) /\ item_valid' = used \cup {ins}
    <3>1. {l.tail} = IF i.append THEN {i.addr} ELSE {}
      BY <2>4
    <3> QED
      BY <1>18, <1>23, <2>4, <3>1
  <2>6. \A m : m \in lists' <=> \/ m \in AfterAppend(Popped(l, pop), data)
                                \/ \E k \in lists : k # l /\ m \in Popped(k, pop)
    BY <1>11a, <1>5, <1>23, <2>1, <2>2
  <2>7. \A w \in W : w.list = l => w = t
    <3>1. \A w \in W : w.list.head \in SlotsOf(w.path)
      <4>1. \A k, p : Chain(k, p) => k.head \in SlotsOf(p)
        BY DEF Chain, SlotsOf
      <4> QED
        BY <1>6, <4>1
    <3> SUFFICES ASSUME NEW w \in W, w.list = l, w # t  PROVE FALSE
      OBVIOUS
    <3>2. SlotsOf(w.path) \cap SlotsOf(t.path) = {}
      BY <1>5 DEF Chains
    <3> QED
      BY <2>2, <3>1, <3>2
  <2>8. \A m : m \in lists' <=> \/ m \in AfterAppend(Popped(l, pop), data)
                                \/ \E w \in W \ {t} : m \in Popped(w.list, pop)
    BY <1>5, <2>2, <2>6, <2>7
  <2>9. \A m, w : w \in W => (m \in Popped(w.list, pop) <=> \E v \in PoppedChain(w, pop) : m = v.list)
    BY <1>11
  <2>10. CASE PoppedChain(t, pop) = {}
    <3>1. Popped(l, pop) = {}
      BY <2>2, <2>9, <2>10
    <3>2. l.tail \notin used
      <4>1. l.tail = t.path[Len(t.path)]
        BY <1>6, <2>2 DEF Chain
      <4> QED
        BY <1>11b, <1>11, <2>10, <4>1
    <3>3. Chains(V \cup {x}, used \cup {ins})'
      BY <1>21, <1>23, <2>5, <3>2
    <3>4. \A m : m \in lists' <=> m = x.list \/ \E v \in V : m = v.list
      <4>1. \A v : v \in V <=> \E w \in W \ {t} : v \in PoppedChain(w, pop)
        BY <1>10, <2>10
      <4>2. \A m : m \in lists' <=> m = x.list \/ \E w \in W \ {t} : m \in Popped(w.list, pop)
        BY <1>20, <2>8, <3>1
      <4> QED
        BY <2>9, <4>1, <4>2
    <3>5. PICK W2 : W2 = V \cup {x}
      OBVIOUS
    <3>6. lists' = {w.list : w \in W2}
      BY <3>4, <3>5
    <3>7. PICK valid : valid = used \cup {ins}
      OBVIOUS
    <3>8. Chains(W2, valid)'
      BY <3>3, <3>5, <3>7
    <3> QED
      BY <1>14, <1>16, <2>5, <3>6, <3>7, <3>8
  <2>11. CASE PoppedChain(t, pop) # {}
    <3>1. PICK u : PoppedChain(t, pop) = {u}
      BY <1>11, <2>11
    <3>2. Popped(l, pop) = {u.list}
      BY <1>11, <2>2, <3>1
    <3>3. u \in V /\ V \ {u} = UNION {PoppedChain(w, pop) : w \in W \ {t}}
      BY <1>10, <1>11, <3>1
    <3>4. u.list.tail = l.tail
      <4>1. Popped(l, pop) = {l} \/ Popped(l, pop) = {[l EXCEPT !.head = next_ptrs[l.head], !.items = Tail(@)]}
        BY <3>2 DEF Popped, AfterPop
      <4>2. l \in ListRecords
        BY <1>6, <2>2 DEF Chain
      <4>3. [l EXCEPT !.head = next_ptrs[l.head], !.items = Tail(@)].tail = l.tail
        BY <4>2 DEF ListRecords
      <4> QED
        BY <3>2, <4>1, <4>3
    <3>5. PICK y : y = GrownChain(u, ins, data)
      OBVIOUS
    <3>6. AfterAppend(Popped(l, pop), data) = {y.list}
      <4>1. y.list = [u.list EXCEPT !.tail = insert_addr_next, !.items = Append(@, data)]
        BY <1>2, <3>5 DEF GrownChain, GrownList
      <4> QED
        BY <3>2, <4>1 DEF AfterAppend
    <3>7. Chains((V \ {u}) \cup {y}, used \cup {ins})'
      <4>1. Chains(V, used) /\ ins \notin used
        BY <1>11b, <1>11, <1>17, <1>23
      <4>2. PICK parent : parent = l.tail
        OBVIOUS
      <4>3. PICK gone : gone = {parent}
        OBVIOUS
      <4>4. InsertStep(ins, parent, gone, data) /\ parent = u.list.tail
        BY <2>5, <3>4, <4>2, <4>3
      <4> QED
        BY <3>3, <3>5, <4>1, <4>3, <4>4, AppendKeepsChains, Zenon
    <3>8. \A m : m \in lists' <=> m = y.list \/ \E v \in V \ {u} : m = v.list
      <4>1. \A v : v \in V \ {u} <=> \E w \in W \ {t} : v \in PoppedChain(w, pop)
        BY <3>3
      <4>2. \A m : m \in lists' <=> m = y.list \/ \E w \in W \ {t} : m \in Popped(w.list, pop)
        BY <2>8, <3>6
      <4> QED
        BY <2>9, <4>1, <4>2
    <3>9. PICK W2 : W2 = (V \ {u}) \cup {y}
      OBVIOUS
    <3>10. lists' = {w.list : w \in W2}
      BY <3>8, <3>9
    <3>11. PICK valid : valid = used \cup {ins}
      OBVIOUS
    <3>12. Chains(W2, valid)'
      BY <3>7, <3>9, <3>11
    <3> QED
      BY <1>14, <1>16, <2>5, <3>10, <3>11, <3>12
  <2> QED
    BY <2>10, <2>11
<1> QED
  BY <1>15, <1>22, <1>23

\* The links never mix up the lists, whatever the user does with them, if the addr that comes
\* with a new list is that of its node.
THEOREM ListsStayIntact ==
    ASSUME ~STRAY_ADDR
    PROVE  ArraySpec => []ListsAreIntact
<1>1. (SlotsInv /\ ChainsInv) /\ [ArrayNext]_arrayVars => (SlotsInv /\ ChainsInv)'
  <2>1. SlotsInv /\ ChainsInv /\ ArrayNext => (SlotsInv /\ ChainsInv)'
    BY CycleKeepsLists, Zenon
  <2>2. SlotsInv /\ ChainsInv /\ UNCHANGED arrayVars => (SlotsInv /\ ChainsInv)'
    <3> SUFFICES ASSUME SlotsInv, ChainsInv, UNCHANGED arrayVars  PROVE (SlotsInv /\ ChainsInv)'
      OBVIOUS
    <3>1. /\ item_valid' = item_valid /\ item_last' = item_last /\ lists' = lists
          /\ insert_addr_next' = insert_addr_next /\ values' = values /\ next_ptrs' = next_ptrs
      BY DEF arrayVars
    <3>2. SlotsInv'
      BY <3>1 DEF SlotsInv, InsertRd
    <3>3. PICK W : Chains(W, item_valid) /\ lists = {w.list : w \in W}
      BY DEF ChainsInv
    <3>4. \A l, p : Chain(l, p) => Chain(l, p)'
      BY <3>1, Zenon DEF Chain
    <3>5. Chains(W, item_valid)'
      BY <3>1, <3>3, <3>4 DEF Chains
    <3> QED
      BY <3>1, <3>2, <3>3, <3>5 DEF ChainsInv
  <2> QED
    BY <2>1, <2>2
<1> QED
  BY <1>1, InitLists, ChainsAreIntact, PTL DEF ArraySpec
---------------------------------------------------------------------------
(* RamTransactional *)

AllVersions == Versions \cup {Version0}
Runs(index, b) == index.vld /\ index.item_index = b

IndexOK(index) ==
    /\ index.vld \in BOOLEAN /\ index.flushing \in BOOLEAN
    /\ index.item_index \in Blocks
    /\ index = [item_index |-> index.item_index, word_index |-> index.word_index,
                vld |-> index.vld, flushing |-> index.flushing]
    /\ index.vld => index.word_index \in 1 .. ITEM_WORDS - 1
    /\ ~index.vld => index = Idle0

\* A write changes the words of its item one after the other.
MemoryInv ==
    /\ ram_memory \in [Blocks -> [Words -> [version : AllVersions, word : Words]]]
    /\ newest \in [Blocks -> AllVersions]
    /\ \A b \in Blocks, k \in Words :
          /\ ram_memory[b][k].word = k
          /\ ~Runs(w_index, b) \/ k < w_index.word_index => ram_memory[b][k].version = newest[b]
    /\ w_index.vld => newest[w_index.item_index] = writing

\* A read that a write overtook or found ahead is to see what is written, another one finds
\* what is left to read untouched.
Sees(b) ==
    IF Runs(w_index, b) /\ r_index.word_index < w_index.word_index
    THEN reading.version = writing
    ELSE \A k \in Words :
            k >= r_index.word_index => ram_memory[b][k].version = reading.version

ReadingInv == \A b \in Blocks : Runs(r_index, b) => Sees(b)

\* A write with flush and the read before it go together; users who are apart use different items.
UsersInv ==
    /\ users \in {"together", "apart"}
    /\ reading.flush \in BOOLEAN
    /\ w_index.flushing <=> r_index.vld /\ reading.flush
    /\ w_index.flushing => w_index.vld
                           /\ w_index.word_index = r_index.word_index
                           /\ w_index.item_index = r_index.item_index
    /\ users = "together" => da_r.overflow = <<>>
    /\ users = "apart" => ~w_index.flushing
                          /\ (r_index.vld /\ w_index.vld => r_index.item_index # w_index.item_index)

\* The word that goes with m.
Right(word, m) ==
    /\ word = [version |-> m.seen.version, word |-> m.at.word_index]
    /\ m.info.is_first <=> m.at.word_index = 0
    /\ m.info.is_last <=> m.at.word_index = ITEM_WORDS - 1
    /\ m.info.flushing <=> m.seen.flush

OneOrNone(register) == register = <<>> \/ register = <<register[1]>>

\* Each word of the read port has its entry in r_meta, the older one first.
PipeInv ==
    /\ da_r = [pending |-> da_r.pending, readData |-> da_r.readData, overflow |-> da_r.overflow]
    /\ r_meta = <<r_meta[1], r_meta[2]>>
    /\ OneOrNone(da_r.pending) /\ OneOrNone(da_r.readData) /\ OneOrNone(da_r.overflow)
    /\ OneOrNone(r_meta[1]) /\ OneOrNone(r_meta[2])
    /\ da_r.readData = <<>> <=> r_meta[2] = <<>>
    /\ da_r.pending = <<>> /\ da_r.overflow = <<>> <=> r_meta[1] = <<>>
    /\ da_r.pending = <<>> \/ da_r.overflow = <<>>
    /\ da_r.readData = <<>> => da_r.overflow = <<>>
    /\ r_meta[2] # <<>> => Right(da_r.readData[1], r_meta[2][1])
    /\ da_r.pending # <<>> => Right(da_r.pending[1], r_meta[1][1])
    /\ da_r.overflow # <<>> => Right(da_r.overflow[1], r_meta[1][1])

TransInv == IndexOK(r_index) /\ IndexOK(w_index) /\ MemoryInv /\ ReadingInv /\ UsersInv /\ PipeInv

---------------------------------------------------------------------------

LEMMA ResultAnswers ==
    ASSUME NEW r_rd \in BOOLEAN, NEW f_rd \in BOOLEAN, da_r.readData = <<>> <=> r_meta[2] = <<>>
    PROVE  /\ Answer(ResultNode(r_rd, f_rd), "da_r") \in BOOLEAN
           /\ Answer(ResultNode(r_rd, f_rd), "meta") = Answer(ResultNode(r_rd, f_rd), "da_r")
           /\ Answer(ResultNode(r_rd, f_rd), "da_r") => da_r.readData # <<>>
           /\ r_rd /\ f_rd /\ da_r.readData # <<>> => Answer(ResultNode(r_rd, f_rd), "da_r")
<1> DEFINE node == ResultNode(r_rd, f_rd)
           full == da_r.readData # <<>>
           flushing == r_meta[2] # <<>> /\ r_meta[2][1].info.flushing
<1>1. DOMAIN node = {"da_r", "meta", "data", "flush_data", "flush_addr"}
  BY DEF ResultNode
<1>3. /\ ~node["da_r"].skip /\ ~node["meta"].skip
      /\ node["da_r"].extra /\ node["meta"].extra
      /\ node["da_r"].up <=> full
      /\ node["meta"].up <=> full
  BY DEF ResultNode, PlainPort, Port
<1>4. r_rd /\ f_rd => node["data"].up /\ node["flush_data"].up /\ node["flush_addr"].up
  BY DEF ResultNode, Port
<1> HIDE DEF node, full
<1> DEFINE others == /\ ~InTheWay(node, "data") /\ ~InTheWay(node, "flush_data")
                     /\ ~InTheWay(node, "flush_addr")
<1>5. Answer(node, "da_r") = (others /\ full)
  BY <1>1, <1>3 DEF Answer, InTheWay
<1>6. Answer(node, "meta") = (others /\ full)
  BY <1>1, <1>3 DEF Answer, InTheWay
<1>7. r_rd /\ f_rd => others
  BY <1>4 DEF InTheWay
<1> HIDE DEF others
<1> QED
  BY <1>5, <1>6, <1>7 DEF node, full

LEMMA ReadsTogether ==
    ASSUME NEW r, NEW w, NEW rd
    PROVE  /\ Ack(ReadNode(r, w, rd)) <=>
                 (FlushReq(w) \/ r_index.vld \/ r # <<>>) /\ REn(rd) /\ MetaRd(rd)
           /\ "da_r" \in Transfers(ReadNode(r, w, rd), TRUE) <=> Ack(ReadNode(r, w, rd))
           /\ "meta" \in Transfers(ReadNode(r, w, rd), TRUE) <=> Ack(ReadNode(r, w, rd))
<1> DEFINE node == ReadNode(r, w, rd)
           skip == FlushReq(w) \/ r_index.vld
<1>1. DOMAIN node = {"addr", "da_r", "meta"}
  BY DEF ReadNode
<1>2. /\ node["addr"].up <=> r # <<>>
      /\ node["addr"].extra <=> ~skip
      /\ node["addr"].skip <=> skip
      /\ node["da_r"].up <=> REn(rd)
      /\ node["da_r"].extra <=> skip \/ r # <<>>
      /\ node["meta"].up <=> MetaRd(rd)
      /\ node["meta"].extra <=> skip \/ r # <<>>
      /\ ~node["da_r"].skip /\ ~node["meta"].skip
  BY DEF ReadNode, Port
<1> HIDE DEF node, skip
<1>3. Ack(node) <=> (skip \/ r # <<>>) /\ REn(rd) /\ MetaRd(rd)
  BY <1>1, <1>2 DEF Ack
<1>4. "da_r" \in Transfers(node, TRUE) <=> (skip \/ r # <<>>) /\ REn(rd) /\ MetaRd(rd)
  BY <1>1, <1>2 DEF Transfers, Answer, InTheWay
<1>5. "meta" \in Transfers(node, TRUE) <=> (skip \/ r # <<>>) /\ REn(rd) /\ MetaRd(rd)
  BY <1>1, <1>2 DEF Transfers, Answer, InTheWay
<1> QED
  BY <1>3, <1>4, <1>5 DEF node, skip

\* Data are there when an address is, and a write with flush is ready when its read is.
LEMMA WritesTogether ==
    ASSUME NEW w, NEW data, NEW rd,
           w_index.vld => w = <<>>,
           w # <<>> /\ w[1].flush => ~r_index.vld /\ REn(rd) /\ MetaRd(rd)
    PROVE  /\ Ack(WriteNode(w, data, rd)) <=> (w_index.vld \/ w # <<>>) /\ data # <<>>
           /\ "da_w" \in Transfers(WriteNode(w, data, rd), TRUE) <=> Ack(WriteNode(w, data, rd))
           /\ "addr" \in Transfers(WriteNode(w, data, rd), TRUE) <=>
                 Ack(WriteNode(w, data, rd)) /\ ~w_index.vld
<1> DEFINE node == WriteNode(w, data, rd)
           ready == ~w_index.vld /\ (w = <<>> \/ ~w[1].flush
                                     \/ (~r_index.vld /\ REn(rd) /\ MetaRd(rd)))
<1>1. DOMAIN node = {"addr", "data", "da_w"}
  BY DEF WriteNode
<1>2. ready <=> ~w_index.vld
  BY Zenon
<1>3. /\ node["addr"].up <=> w # <<>>
      /\ node["addr"].extra <=> ready
      /\ node["addr"].skip <=> w_index.vld
      /\ node["data"].up <=> data # <<>>
      /\ node["data"].extra <=> w_index.vld \/ w # <<>>
      /\ ~node["data"].skip
      /\ node["da_w"].up /\ node["da_w"].extra /\ ~node["da_w"].skip
  BY DEF WriteNode, Port, PlainPort
<1> HIDE DEF node, ready
<1>4. Ack(node) <=> (w_index.vld \/ w # <<>>) /\ data # <<>>
  BY <1>1, <1>2, <1>3 DEF Ack
<1>5. "da_w" \in Transfers(node, TRUE) <=> (w_index.vld \/ w # <<>>) /\ data # <<>>
  BY <1>1, <1>2, <1>3 DEF Transfers, Answer, InTheWay
<1>6. "addr" \in Transfers(node, TRUE) <=> w # <<>> /\ ~w_index.vld /\ data # <<>>
  BY <1>1, <1>2, <1>3 DEF Transfers, Answer, InTheWay
<1> QED
  BY <1>4, <1>5, <1>6 DEF node

---------------------------------------------------------------------------

\* The item and word that are read and written, and what the read is to see.
ReadAt(r, w) ==
    At(r_index, IF FlushReq(w) THEN w[1].addr ELSE IF r # <<>> THEN r[1] ELSE NoBlock)
WriteAt(w) == At(w_index, IF w # <<>> THEN w[1].addr ELSE NoBlock)
Seen(r, w) ==
    IF r_index.vld THEN reading
    ELSE [version |-> newest[ReadAt(r, w).item_index], flush |-> FlushReq(w)]
WordRead(r, w) == ram_memory[ReadAt(r, w).item_index][ReadAt(r, w).word_index]
MetaRead(r, w) == [info |-> Meta(w, ReadAt(r, w)), at |-> ReadAt(r, w), seen |-> Seen(r, w)]

\* What may be asked for in one clock, and what is done of it.
Asked(r, w, version) ==
    /\ r = <<>> \/ \E b \in Blocks : r = <<b>>
    /\ w = <<>> \/ \E b \in Blocks, f \in BOOLEAN : w = <<[addr |-> b, flush |-> f]>>
    /\ version \in Versions
    /\ w_index.vld => w = <<>> /\ version = writing
    /\ w # <<>> /\ w[1].flush => users = "together" /\ ~r_index.vld
    /\ users = "apart" => Apart(r, w)

Done(r, w, rd, reads, writes) ==
    /\ rd \in BOOLEAN /\ reads \in BOOLEAN /\ writes \in BOOLEAN
    /\ rd => da_r.readData # <<>>
    /\ reads => (FlushReq(w) \/ r_index.vld \/ r # <<>>) /\ REn(rd) /\ MetaRd(rd)
    /\ writes => w_index.vld \/ w # <<>>
    /\ users = "together" => /\ da_r.readData # <<>> => rd
                             /\ FlushReq(w) \/ r_index.vld => reads
                             /\ w_index.vld \/ w # <<>> => writes

\* The effect of the clock.
ReadEffect(r, w, rd, reads) ==
    /\ da_r' = NextDaR(IF reads THEN <<WordRead(r, w)>> ELSE <<>>, rd)
    /\ r_meta' = NextMeta(IF reads THEN <<MetaRead(r, w)>> ELSE <<>>, rd)
    /\ r_index' = IF reads THEN NextIndex(ReadAt(r, w)) ELSE r_index
    /\ reading' = IF reads THEN Seen(r, w) ELSE reading

WriteEffect(w, version, writes) ==
    LET at == WriteAt(w) IN
    /\ w_index' = IF writes THEN [NextIndex(at) EXCEPT
                                    !.flushing = @ \/ (~w_index.vld /\ w[1].flush)]
                  ELSE w_index
    /\ ram_memory' = IF writes
                     THEN [ram_memory EXCEPT ![at.item_index][at.word_index] =
                                [version |-> version, word |-> at.word_index]]
                     ELSE ram_memory
    /\ newest' = IF writes /\ ~w_index.vld THEN [newest EXCEPT ![w[1].addr] = version]
                 ELSE newest
    /\ writing' = IF writes /\ ~w_index.vld THEN version ELSE writing

\* What the users give: data are <<>> or <<version>>.
Given(w, version, data, ready) ==
    /\ ready \in BOOLEAN
    /\ data # <<>> => data = <<version>> /\ (w_index.vld \/ w # <<>>)
    /\ users = "together" => ready /\ (w_index.vld \/ w # <<>> => data # <<>>)

LEMMA OneStep ==
    ASSUME TransInv, Disturbances = {}, TransNext
    PROVE  \E r, w, version, data, ready :
              /\ Asked(r, w, version) /\ Given(w, version, data, ready)
              /\ TransCycle(r, w, data, ready, ready)
              /\ users' = users
<1>1. PICK late \in May("late_data"), slow \in May("slow_reader") : TransStep(late, slow)
  BY DEF TransNext
<1>2. /\ late \in BOOLEAN /\ slow \in BOOLEAN
      /\ users = "together" => ~late /\ ~slow
  BY DEF May, TransInv, UsersInv
<1>3. PICK r, w, version, data :
          /\ r \in {<<>>} \cup {<<b>> : b \in Blocks}
          /\ w \in {<<>>} \cup {<<[addr |-> b, flush |-> f]>> : b \in Blocks, f \in BOOLEAN}
          /\ version \in Versions
          /\ users = "apart" => Apart(r, w)
          /\ w # <<>> /\ w[1].flush /\ r_index.vld => "flush_in_read" \in Disturbances
          /\ w_index.vld => w = <<>> /\ version = writing
          /\ data = IF late \/ (w = <<>> /\ ~w_index.vld) THEN <<>> ELSE <<version>>
          /\ TransCycle(r, w, data, ~slow, ~slow)
          /\ UNCHANGED users
  BY <1>1, SMT DEF TransStep
<1>4. Asked(r, w, version)
  <2>1. r = <<>> \/ \E b \in Blocks : r = <<b>>
    BY <1>3
  <2>2. w = <<>> \/ \E b \in Blocks, f \in BOOLEAN : w = <<[addr |-> b, flush |-> f]>>
    BY <1>3
  <2>3. w # <<>> /\ w[1].flush => users = "together" /\ ~r_index.vld
    BY <1>3 DEF Apart, TransInv, UsersInv
  <2> QED
    BY <1>3, <2>1, <2>2, <2>3 DEF Asked
<1>6. PICK ready : ready = ~slow
  OBVIOUS
<1>7. TransCycle(r, w, data, ready, ready) /\ users' = users
  BY <1>3, <1>6
<1>8. Given(w, version, data, ready)
  BY <1>2, <1>3, <1>6 DEF Given
<1> QED
  BY <1>4, <1>7, <1>8

LEMMA OneClock ==
    ASSUME TransInv, Disturbances = {}, TransNext
    PROVE  \E r, w, version, rd, reads, writes :
              /\ Asked(r, w, version) /\ Done(r, w, rd, reads, writes)
              /\ ReadEffect(r, w, rd, reads) /\ WriteEffect(w, version, writes)
              /\ users' = users
<1>1. PICK r, w, version, data, ready :
          /\ Asked(r, w, version) /\ Given(w, version, data, ready)
          /\ TransCycle(r, w, data, ready, ready)
          /\ users' = users
  BY OneStep
<1> DEFINE result == ResultNode(ready, ready)
<1>2. PICK rd \in BOOLEAN : /\ rd = Answer(result, "da_r") /\ rd = Answer(result, "meta")
                            /\ rd => da_r.readData # <<>>
                            /\ ready /\ da_r.readData # <<>> => rd
  <2>1. ready \in BOOLEAN
    BY <1>1 DEF Given
  <2>2. da_r.readData = <<>> <=> r_meta[2] = <<>>
    BY DEF TransInv, PipeInv
  <2> QED
    BY <2>1, <2>2, ResultAnswers
<1> DEFINE readers == ReadNode(r, w, rd)
           writers == WriteNode(w, data, rd)
<1>3. PICK reads \in BOOLEAN : reads <=> Ack(readers)
  <2> HIDE DEF readers
  <2> QED
    OBVIOUS
<1>4. PICK writes \in BOOLEAN : writes <=> Ack(writers)
  <2> HIDE DEF writers
  <2> QED
    OBVIOUS
<1>5. /\ reads <=> (FlushReq(w) \/ r_index.vld \/ r # <<>>) /\ REn(rd) /\ MetaRd(rd)
      /\ "da_r" \in Transfers(readers, TRUE) <=> reads
      /\ "meta" \in Transfers(readers, TRUE) <=> reads
  <2>1. /\ Ack(readers) <=> (FlushReq(w) \/ r_index.vld \/ r # <<>>) /\ REn(rd) /\ MetaRd(rd)
        /\ "da_r" \in Transfers(readers, TRUE) <=> Ack(readers)
        /\ "meta" \in Transfers(readers, TRUE) <=> Ack(readers)
    BY ReadsTogether, Zenon
  <2> HIDE DEF readers
  <2> QED
    BY <1>3, <2>1, Zenon
<1>6. users = "together" => REn(rd) /\ MetaRd(rd)
  BY <1>1, <1>2 DEF Given, REn, MetaRd, TransInv, UsersInv, PipeInv
<1>7. /\ writes <=> (w_index.vld \/ w # <<>>) /\ data # <<>>
      /\ "da_w" \in Transfers(writers, TRUE) <=> writes
      /\ "addr" \in Transfers(writers, TRUE) <=> writes /\ ~w_index.vld
  <2>1. /\ w_index.vld => w = <<>>
        /\ w # <<>> /\ w[1].flush => ~r_index.vld /\ REn(rd) /\ MetaRd(rd)
    BY <1>1, <1>6 DEF Asked
  <2>2. /\ Ack(writers) <=> (w_index.vld \/ w # <<>>) /\ data # <<>>
        /\ "da_w" \in Transfers(writers, TRUE) <=> Ack(writers)
        /\ "addr" \in Transfers(writers, TRUE) <=> Ack(writers) /\ ~w_index.vld
    BY <2>1, WritesTogether, Zenon
  <2> HIDE DEF writers
  <2> QED
    BY <1>4, <2>2, Zenon
<1>8. Done(r, w, rd, reads, writes)
  BY <1>1, <1>2, <1>5, <1>6, <1>7 DEF Done, Given
<1>9. ReadEffect(r, w, rd, reads)
  BY <1>1, <1>2, <1>3, <1>5 DEF TransCycle, ReadEffect, ReadAt, Seen, WordRead, MetaRead
<1>10. WriteEffect(w, version, writes)
  <2>1. writes => data[1] = version
    BY <1>1, <1>7 DEF Given
  <2> DEFINE at == WriteAt(w)
  <2>2. w_index' = IF writes THEN [NextIndex(at) EXCEPT
                                     !.flushing = @ \/ (~w_index.vld /\ w[1].flush)]
                   ELSE w_index
    BY <1>1, <1>2, <1>4 DEF TransCycle, WriteAt
  <2>3. ram_memory' = IF writes
                      THEN [ram_memory EXCEPT ![at.item_index][at.word_index] =
                                [version |-> version, word |-> at.word_index]]
                      ELSE ram_memory
    <3>1. ram_memory' = IF writes
                        THEN [ram_memory EXCEPT ![at.item_index][at.word_index] =
                                [version |-> data[1], word |-> at.word_index]]
                        ELSE ram_memory
      BY <1>1, <1>2, <1>7 DEF TransCycle, WriteAt
    <3> QED
      BY <2>1, <3>1
  <2>4. /\ newest' = IF writes /\ ~w_index.vld THEN [newest EXCEPT ![w[1].addr] = version]
                     ELSE newest
        /\ writing' = IF writes /\ ~w_index.vld THEN version ELSE writing
    <3>1. /\ newest' = IF writes /\ ~w_index.vld THEN [newest EXCEPT ![w[1].addr] = data[1]]
                       ELSE newest
          /\ writing' = IF writes /\ ~w_index.vld THEN data[1] ELSE writing
      BY <1>1, <1>2, <1>7 DEF TransCycle
    <3> QED
      BY <2>1, <3>1
  <2> QED
    BY <2>2, <2>3, <2>4, Zenon DEF WriteEffect
<1> QED
  BY <1>1, <1>8, <1>9, <1>10

---------------------------------------------------------------------------

\* A word of an item that is being read or written.
Place(at) ==
    /\ at = [item_index |-> at.item_index, word_index |-> at.word_index,
             vld |-> at.vld, flushing |-> at.flushing]
    /\ at.item_index \in Blocks /\ at.word_index \in Words
    /\ at.vld = TRUE /\ at.flushing \in BOOLEAN

LEMMA NoBlockIsBlock == NoBlock \in Blocks
BY TransAssumption DEF NoBlock

LEMMA PlaceOfTransfer ==
    ASSUME NEW index, NEW block \in Blocks, IndexOK(index)
    PROVE  /\ Place(At(index, block))
           /\ index.vld => At(index, block) = index
           /\ ~index.vld => /\ At(index, block).item_index = block
                            /\ At(index, block).word_index = 0
                            /\ At(index, block).flushing = FALSE
<1>1. CASE index.vld
  <2>1. At(index, block) = index
    BY <1>1 DEF At
  <2>2. Place(index)
    BY <1>1, TransAssumption DEF IndexOK, Place, Words
  <2> QED
    BY <1>1, <2>1, <2>2
<1>2. CASE ~index.vld
  <2>1. At(index, block) = [item_index |-> block, word_index |-> 0, vld |-> TRUE,
                            flushing |-> FALSE]
    BY <1>2 DEF At, Idle0
  <2> QED
    BY <1>2, <2>1, TransAssumption DEF Place, Words
<1> QED
  BY <1>1, <1>2

\* Where a transfer goes on: LastOf is where it ends.
GoesOn(at, next) ==
    /\ next.vld <=> at.word_index < ITEM_WORDS - 1
    /\ next.vld => /\ next.item_index = at.item_index
                   /\ next.word_index = at.word_index + 1

LEMMA NextPlace ==
    ASSUME NEW at, Place(at)
    PROVE  /\ IndexOK(NextIndex(at))
           /\ GoesOn(at, NextIndex(at))
           /\ NextIndex(at).flushing \in BOOLEAN
           /\ NextIndex(at).flushing <=> NextIndex(at).vld /\ at.flushing
<1>1. CASE at.word_index = ITEM_WORDS - 1
  <2>1. NextIndex(at) = Idle0
    BY <1>1 DEF NextIndex
  <2> QED
    BY <1>1, <2>1, NoBlockIsBlock, TransAssumption DEF IndexOK, GoesOn, Idle0, Place, Words
<1>2. CASE at.word_index # ITEM_WORDS - 1
  <2>1. NextIndex(at) = [item_index |-> at.item_index, word_index |-> at.word_index + 1,
                         vld |-> TRUE, flushing |-> at.flushing]
    BY <1>2 DEF NextIndex, Place
  <2>2. at.word_index + 1 \in 1 .. ITEM_WORDS - 1
    BY <1>2, TransAssumption DEF Place, Words
  <2> QED
    BY <1>2, <2>1, <2>2, TransAssumption DEF IndexOK, GoesOn, Place, Words
<1> QED
  BY <1>1, <1>2

LEMMA ReadPlace ==
    ASSUME NEW r, NEW w, NEW version, NEW rd, NEW reads, NEW writes,
           IndexOK(r_index), Asked(r, w, version), Done(r, w, rd, reads, writes), reads
    PROVE  /\ Place(ReadAt(r, w))
           /\ r_index.vld => ReadAt(r, w) = r_index
           /\ ~r_index.vld => /\ ReadAt(r, w).word_index = 0
                              /\ ReadAt(r, w).flushing = FALSE
                              /\ FlushReq(w) => ReadAt(r, w).item_index = w[1].addr
                              /\ ~FlushReq(w) => r = <<ReadAt(r, w).item_index>>
<1>1. PICK block : block = IF FlushReq(w) THEN w[1].addr ELSE IF r # <<>> THEN r[1] ELSE NoBlock
  OBVIOUS
<1>2. ReadAt(r, w) = At(r_index, block)
  BY <1>1 DEF ReadAt
<1>3. FlushReq(w) => w[1].addr \in Blocks
  BY DEF Asked, FlushReq
<1>4. r # <<>> => r[1] \in Blocks /\ r = <<r[1]>>
  BY DEF Asked
<1>5. block \in Blocks
  BY <1>1, <1>3, <1>4, NoBlockIsBlock
<1>6. FlushReq(w) \/ r_index.vld \/ r # <<>>
  BY DEF Done
<1>7. /\ Place(ReadAt(r, w))
      /\ r_index.vld => ReadAt(r, w) = r_index
      /\ ~r_index.vld => /\ ReadAt(r, w).item_index = block
                        /\ ReadAt(r, w).word_index = 0
                        /\ ReadAt(r, w).flushing = FALSE
  <2>1. /\ Place(At(r_index, block))
        /\ r_index.vld => At(r_index, block) = r_index
        /\ ~r_index.vld => /\ At(r_index, block).item_index = block
                          /\ At(r_index, block).word_index = 0
                          /\ At(r_index, block).flushing = FALSE
    BY <1>5, PlaceOfTransfer
  <2> QED
    BY <1>2, <2>1, Zenon
<1> QED
  BY <1>1, <1>4, <1>6, <1>7

LEMMA WritePlace ==
    ASSUME NEW r, NEW w, NEW version, NEW rd, NEW reads, NEW writes,
           IndexOK(w_index), Asked(r, w, version), Done(r, w, rd, reads, writes), writes
    PROVE  /\ Place(WriteAt(w))
           /\ w_index.vld => WriteAt(w) = w_index
           /\ ~w_index.vld => /\ WriteAt(w).word_index = 0
                              /\ WriteAt(w).flushing = FALSE
                              /\ w # <<>> /\ WriteAt(w).item_index = w[1].addr
                              /\ w[1].flush \in BOOLEAN
<1>1. PICK block : block = IF w # <<>> THEN w[1].addr ELSE NoBlock
  OBVIOUS
<1>2. WriteAt(w) = At(w_index, block)
  BY <1>1 DEF WriteAt
<1>3. w # <<>> => w[1].addr \in Blocks /\ w[1].flush \in BOOLEAN
  BY DEF Asked
<1>4. block \in Blocks
  BY <1>1, <1>3, NoBlockIsBlock
<1>5. w_index.vld \/ w # <<>>
  BY DEF Done
<1>7. /\ Place(WriteAt(w))
      /\ w_index.vld => WriteAt(w) = w_index
      /\ ~w_index.vld => /\ WriteAt(w).item_index = block
                        /\ WriteAt(w).word_index = 0
                        /\ WriteAt(w).flushing = FALSE
  <2>1. /\ Place(At(w_index, block))
        /\ w_index.vld => At(w_index, block) = w_index
        /\ ~w_index.vld => /\ At(w_index, block).item_index = block
                          /\ At(w_index, block).word_index = 0
                          /\ At(w_index, block).flushing = FALSE
    BY <1>4, PlaceOfTransfer
  <2> QED
    BY <1>2, <2>1, Zenon
<1> QED
  BY <1>1, <1>3, <1>5, <1>7

---------------------------------------------------------------------------

LEMMA WordOfMemory ==
    ASSUME MemoryInv, NEW at, Place(at)
    PROVE  ram_memory[at.item_index][at.word_index] =
              [version |-> ram_memory[at.item_index][at.word_index].version, word |-> at.word_index]
<1>1. at.item_index \in Blocks /\ at.word_index \in Words
  BY DEF Place
<1>2. ram_memory[at.item_index][at.word_index] \in [version : AllVersions, word : Words]
  BY <1>1 DEF MemoryInv
<1>3. ram_memory[at.item_index][at.word_index].word = at.word_index
  BY <1>1 DEF MemoryInv
<1> QED
  BY <1>2, <1>3

\* What is read is what the read is to see.
LEMMA VersionIsRead ==
    ASSUME TransInv, NEW r, NEW w, NEW version, NEW rd, NEW reads, NEW writes,
           Asked(r, w, version), Done(r, w, rd, reads, writes), reads
    PROVE  WordRead(r, w).version = Seen(r, w).version
<1> DEFINE at == ReadAt(r, w)
<1>1. /\ Place(at)
      /\ r_index.vld => at = r_index
      /\ ~r_index.vld => at.word_index = 0
  BY ReadPlace DEF TransInv
<1>2. WordRead(r, w) = ram_memory[at.item_index][at.word_index]
  BY DEF WordRead
<1>3. at.item_index \in Blocks /\ at.word_index \in Words
  BY <1>1 DEF Place
<1> HIDE DEF at
<1>4. CASE r_index.vld
  <2>1. Seen(r, w) = reading
    BY <1>4 DEF Seen
  <2>2. Runs(r_index, at.item_index)
    BY <1>1, <1>4 DEF Runs
  <2>3. at.word_index >= r_index.word_index /\ at.word_index \in Nat
    BY <1>1, <1>3, <1>4, TransAssumption DEF Words
  <2>4. CASE Runs(w_index, at.item_index) /\ r_index.word_index < w_index.word_index
    <3>1. reading.version = writing
      BY <1>3, <2>2, <2>4 DEF TransInv, ReadingInv, Sees
    <3>2. ram_memory[at.item_index][at.word_index].version = newest[at.item_index]
      BY <1>1, <1>3, <1>4, <2>4 DEF TransInv, MemoryInv
    <3>3. newest[at.item_index] = writing
      BY <2>4 DEF TransInv, MemoryInv, Runs
    <3> QED
      BY <1>2, <2>1, <3>1, <3>2, <3>3
  <2>5. CASE ~(Runs(w_index, at.item_index) /\ r_index.word_index < w_index.word_index)
    <3>1. ram_memory[at.item_index][at.word_index].version = reading.version
      BY <1>3, <2>2, <2>3, <2>5 DEF TransInv, ReadingInv, Sees
    <3> QED
      BY <1>2, <2>1, <3>1
  <2> QED
    BY <2>4, <2>5
<1>5. CASE ~r_index.vld
  <2>1. Seen(r, w).version = newest[at.item_index]
    BY <1>5 DEF Seen, at
  <2>2. ~Runs(w_index, at.item_index) \/ 0 < w_index.word_index
    BY TransAssumption DEF TransInv, IndexOK, Runs
  <2>3. ram_memory[at.item_index][at.word_index].version = newest[at.item_index]
    BY <1>1, <1>3, <1>5, <2>2 DEF TransInv, MemoryInv
  <2> QED
    BY <1>2, <2>1, <2>3
<1> QED
  BY <1>4, <1>5

\* The flags that go with the word.
LEMMA FlagsAreRight ==
    ASSUME TransInv, NEW r, NEW w, NEW version, NEW rd, NEW reads, NEW writes,
           Asked(r, w, version), Done(r, w, rd, reads, writes), reads
    PROVE  LET info == Meta(w, ReadAt(r, w)) IN
           /\ info.is_first <=> ReadAt(r, w).word_index = 0
           /\ info.is_last <=> ReadAt(r, w).word_index = ITEM_WORDS - 1
           /\ info.flushing <=> Seen(r, w).flush
<1> DEFINE at == ReadAt(r, w)
<1>1. /\ Place(at)
      /\ r_index.vld => at = r_index
      /\ ~r_index.vld => at.word_index = 0
  BY ReadPlace DEF TransInv
<1> HIDE DEF at
<1>2. /\ reading.flush \in BOOLEAN
      /\ w_index.flushing <=> r_index.vld /\ reading.flush
      /\ w_index.flushing => w_index.vld /\ w_index.word_index = r_index.word_index
  BY DEF TransInv, UsersInv
<1>3. r_index.vld => r_index.word_index > 0
  BY TransAssumption DEF TransInv, IndexOK
<1>4. Seen(r, w).flush <=> IF r_index.vld THEN reading.flush ELSE FlushReq(w)
  BY DEF Seen
<1>5. CASE w_index.vld /\ w_index.flushing
  <2>1. /\ Meta(w, at).flushing /\ ~Meta(w, at).is_first
        /\ Meta(w, at).is_last <=> w_index.word_index = ITEM_WORDS - 1
    BY <1>5 DEF Meta
  <2>2. r_index.vld /\ reading.flush /\ at = r_index /\ at.word_index > 0
    BY <1>1, <1>2, <1>3, <1>5
  <2>3. w_index.word_index = at.word_index
    BY <1>2, <1>5, <2>2
  <2>4. Meta(w, at).is_last <=> at.word_index = ITEM_WORDS - 1
    BY <2>1, <2>3
  <2>5. Meta(w, at).is_first <=> at.word_index = 0
    BY <2>1, <2>2
  <2>6. Meta(w, at).flushing <=> Seen(r, w).flush
    BY <1>4, <2>1, <2>2
  <2> QED
    BY <2>4, <2>5, <2>6 DEF at
<1>6. CASE ~(w_index.vld /\ w_index.flushing)
  <2>1. /\ Meta(w, at).flushing <=> FlushReq(w)
        /\ Meta(w, at).is_first <=> ~r_index.vld
        /\ Meta(w, at).is_last <=> r_index.vld /\ at.word_index = ITEM_WORDS - 1
    BY <1>6 DEF Meta
  <2>2. FlushReq(w) => ~r_index.vld
    BY DEF FlushReq
  <2>3. Meta(w, at).is_first <=> at.word_index = 0
    BY <1>1, <1>3, <2>1
  <2>4. Meta(w, at).is_last <=> at.word_index = ITEM_WORDS - 1
    BY <1>1, <2>1, TransAssumption
  <2>5. Meta(w, at).flushing <=> Seen(r, w).flush
    BY <1>2, <1>4, <1>6, <2>1, <2>2
  <2> QED
    BY <2>3, <2>4, <2>5 DEF at
<1> QED
  BY <1>5, <1>6

LEMMA RightIsRead ==
    ASSUME TransInv, NEW r, NEW w, NEW version, NEW rd, NEW reads, NEW writes,
           Asked(r, w, version), Done(r, w, rd, reads, writes), reads
    PROVE  Right(WordRead(r, w), MetaRead(r, w))
<1>1. Place(ReadAt(r, w))
  BY ReadPlace DEF TransInv
<1>2. WordRead(r, w) = [version |-> WordRead(r, w).version, word |-> ReadAt(r, w).word_index]
  BY <1>1, WordOfMemory DEF TransInv, WordRead
<1>3. WordRead(r, w).version = Seen(r, w).version
  BY VersionIsRead
<1>4. /\ Meta(w, ReadAt(r, w)).is_first <=> ReadAt(r, w).word_index = 0
      /\ Meta(w, ReadAt(r, w)).is_last <=> ReadAt(r, w).word_index = ITEM_WORDS - 1
      /\ Meta(w, ReadAt(r, w)).flushing <=> Seen(r, w).flush
  BY FlagsAreRight
<1>5. /\ MetaRead(r, w).info = Meta(w, ReadAt(r, w))
      /\ MetaRead(r, w).at = ReadAt(r, w)
      /\ MetaRead(r, w).seen = Seen(r, w)
  BY DEF MetaRead
<1> QED
  BY <1>2, <1>3, <1>4, <1>5 DEF Right

---------------------------------------------------------------------------

\* One word is written, of the item that is being written from now on.
Wrote(at, version) ==
    /\ Place(at) /\ version \in Versions
    /\ IF w_index.vld THEN w_index = at /\ version = writing ELSE at.word_index = 0
    /\ GoesOn(at, w_index')
    /\ ram_memory' = [ram_memory EXCEPT ![at.item_index][at.word_index] =
                                [version |-> version, word |-> at.word_index]]
    /\ newest' = [newest EXCEPT ![at.item_index] = version]
    /\ writing' = version

LEMMA WriteMoves ==
    ASSUME TransInv, NEW r, NEW w, NEW version, NEW rd, NEW reads, NEW writes,
           Asked(r, w, version), Done(r, w, rd, reads, writes), WriteEffect(w, version, writes),
           writes
    PROVE  /\ Wrote(WriteAt(w), version)
           /\ IndexOK(w_index')
           /\ w_index'.flushing <=> /\ w_index'.vld
                                    /\ IF w_index.vld THEN w_index.flushing ELSE w[1].flush
<1> DEFINE at == WriteAt(w)
<1>1. /\ Place(at)
      /\ w_index.vld => at = w_index
      /\ ~w_index.vld => /\ at.word_index = 0 /\ at.flushing = FALSE
                         /\ at.item_index = w[1].addr
                         /\ w[1].flush \in BOOLEAN
  BY WritePlace, Zenon DEF TransInv
<1>2. /\ version \in Versions
      /\ w_index.vld => version = writing
  BY DEF Asked
<1>3. /\ w_index' = [NextIndex(at) EXCEPT !.flushing = @ \/ (~w_index.vld /\ w[1].flush)]
      /\ ram_memory' = [ram_memory EXCEPT ![at.item_index][at.word_index] =
                                [version |-> version, word |-> at.word_index]]
      /\ newest' = IF ~w_index.vld THEN [newest EXCEPT ![w[1].addr] = version] ELSE newest
      /\ writing' = IF ~w_index.vld THEN version ELSE writing
  BY DEF WriteEffect
<1> HIDE DEF at
<1>4. newest' = [newest EXCEPT ![at.item_index] = version]
  <2>1. CASE w_index.vld
    <3>1. newest[at.item_index] = version
      BY <1>1, <1>2, <2>1 DEF TransInv, MemoryInv
    <3>2. newest = [b \in Blocks |-> newest[b]]
      BY DEF TransInv, MemoryInv
    <3> QED
      BY <1>3, <2>1, <3>1, <3>2
  <2>2. CASE ~w_index.vld
    BY <1>1, <1>3, <2>2
  <2> QED
    BY <2>1, <2>2
<1>5. writing' = version
  BY <1>2, <1>3
<1>6. /\ IndexOK(NextIndex(at)) /\ GoesOn(at, NextIndex(at))
      /\ NextIndex(at).flushing \in BOOLEAN
      /\ NextIndex(at).flushing <=> NextIndex(at).vld /\ at.flushing
  BY <1>1, NextPlace
<1>7. PICK f \in BOOLEAN : f <=> NextIndex(at).flushing \/ (~w_index.vld /\ w[1].flush)
  BY <1>1
<1>8. w_index' = [NextIndex(at) EXCEPT !.flushing = f]
  BY <1>3, <1>7
<1>9. ~w_index.vld => NextIndex(at).vld
  BY <1>1, <1>6, TransAssumption DEF GoesOn
<1>10. PICK next : next = NextIndex(at)
  OBVIOUS
<1>11. w_index' = [item_index |-> next.item_index, word_index |-> next.word_index,
                   vld |-> next.vld, flushing |-> f]
  BY <1>6, <1>8, <1>10 DEF IndexOK
<1>12. w_index'.flushing <=> /\ w_index'.vld
                             /\ IF w_index.vld THEN w_index.flushing ELSE w[1].flush
  <2>1. w_index'.flushing <=> f
    BY <1>11
  <2>2. w_index'.vld <=> next.vld
    BY <1>11
  <2>3. f <=> (next.vld /\ at.flushing) \/ (~w_index.vld /\ w[1].flush)
    BY <1>6, <1>7, <1>10
  <2>4. ~w_index.vld => next.vld /\ ~at.flushing
    BY <1>1, <1>9, <1>10
  <2>5. w_index.vld => at.flushing = w_index.flushing
    BY <1>1
  <2> QED
    BY <2>1, <2>2, <2>3, <2>4, <2>5
<1>13. GoesOn(at, w_index')
  BY <1>6, <1>10, <1>11 DEF GoesOn
<1>14. IndexOK(w_index')
  <2>1. CASE next.vld
    BY <1>6, <1>10, <1>11, <2>1 DEF IndexOK
  <2>2. CASE ~next.vld
    <3>1. next = Idle0
      BY <1>6, <1>10, <2>2 DEF IndexOK
    <3>2. ~f
      BY <1>6, <1>7, <1>9, <1>10, <2>2
    <3>3. w_index' = Idle0
      BY <1>11, <3>1, <3>2 DEF Idle0
    <3> QED
      BY <3>3, NoBlockIsBlock DEF IndexOK, Idle0
  <2> QED
    BY <2>1, <2>2
<1>15. Wrote(at, version)
  BY <1>1, <1>2, <1>3, <1>4, <1>5, <1>13 DEF Wrote
<1> QED
  BY <1>12, <1>14, <1>15 DEF at

LEMMA MemoryStep ==
    ASSUME MemoryInv, IndexOK(w_index), NEW at, NEW version, Wrote(at, version)
    PROVE  MemoryInv'
<1> DEFINE c == at.item_index
           n == at.word_index
<1>1. /\ c \in Blocks /\ n \in Words /\ at.vld = TRUE
      /\ version \in AllVersions
  BY DEF Wrote, Place, AllVersions
<1>2. /\ ram_memory \in [Blocks -> [Words -> [version : AllVersions, word : Words]]]
      /\ newest \in [Blocks -> AllVersions]
  BY DEF MemoryInv
<1>3. [version |-> version, word |-> n] \in [version : AllVersions, word : Words]
  BY <1>1
<1>4. /\ ram_memory' \in [Blocks -> [Words -> [version : AllVersions, word : Words]]]
      /\ newest' \in [Blocks -> AllVersions]
  BY <1>1, <1>2, <1>3 DEF Wrote
<1>5. ASSUME NEW b \in Blocks, NEW k \in Words
      PROVE  /\ ram_memory'[b][k].word = k
             /\ ~Runs(w_index', b) \/ k < w_index'.word_index
                   => ram_memory'[b][k].version = newest'[b]
  <2>1. /\ ram_memory[b][k].word = k
        /\ ~Runs(w_index, b) \/ k < w_index.word_index => ram_memory[b][k].version = newest[b]
    BY <1>5 DEF MemoryInv
  <2>2. k \in Nat /\ n \in Nat /\ k <= ITEM_WORDS - 1 /\ n <= ITEM_WORDS - 1 /\ ITEM_WORDS \in Nat
    BY <1>1, TransAssumption DEF Words
  <2>3. CASE b # c
    <3>1. ram_memory'[b] = ram_memory[b] /\ newest'[b] = newest[b]
      BY <1>1, <1>2, <2>3 DEF Wrote
    <3>2. ~Runs(w_index, b)
      BY <2>3 DEF Wrote, Runs
    <3> QED
      BY <2>1, <3>1, <3>2
  <2>4. CASE b = c /\ k = n
    <3>1. ram_memory'[b][k] = [version |-> version, word |-> n] /\ newest'[b] = version
      BY <1>1, <1>2, <2>4 DEF Wrote
    <3> QED
      BY <2>4, <3>1
  <2>5. CASE b = c /\ k # n
    <3>1. ram_memory'[b][k] = ram_memory[b][k] /\ newest'[b] = version
      BY <1>1, <1>2, <2>5 DEF Wrote
    <3>2. ~Runs(w_index', b) \/ k < w_index'.word_index => k < n
      BY <2>2, <2>5 DEF Wrote, GoesOn, Runs
    <3>3. k < n => w_index = at /\ version = writing /\ w_index.vld
      BY <2>2 DEF Wrote
    <3>4. k < n => ram_memory[b][k].version = version
      BY <2>1, <2>5, <3>3 DEF MemoryInv
    <3> QED
      BY <2>1, <3>1, <3>2, <3>4
  <2> QED
    BY <2>3, <2>4, <2>5
<1>6. w_index'.vld => newest'[w_index'.item_index] = writing'
  BY <1>1, <1>2 DEF Wrote, GoesOn
<1> QED
  BY <1>4, <1>5, <1>6 DEF MemoryInv, Runs

---------------------------------------------------------------------------

\* One word is read, of the item that is being read from now on.
WasRead(at, seen) ==
    /\ Place(at)
    /\ IF r_index.vld THEN r_index = at /\ seen = reading
       ELSE at.word_index = 0 /\ seen.version = newest[at.item_index]
    /\ GoesOn(at, r_index')
    /\ reading' = seen

LEMMA ReadMoves ==
    ASSUME TransInv, NEW r, NEW w, NEW version, NEW rd, NEW reads, NEW writes,
           Asked(r, w, version), Done(r, w, rd, reads, writes), ReadEffect(r, w, rd, reads), reads
    PROVE  /\ WasRead(ReadAt(r, w), Seen(r, w))
           /\ IndexOK(r_index')
<1>1. /\ Place(ReadAt(r, w))
      /\ r_index.vld => ReadAt(r, w) = r_index
      /\ ~r_index.vld => ReadAt(r, w).word_index = 0
  BY ReadPlace, Zenon DEF TransInv
<1>2. r_index' = NextIndex(ReadAt(r, w)) /\ reading' = Seen(r, w)
  BY DEF ReadEffect
<1>3. IndexOK(NextIndex(ReadAt(r, w))) /\ GoesOn(ReadAt(r, w), NextIndex(ReadAt(r, w)))
  BY <1>1, NextPlace
<1>4. /\ r_index.vld => Seen(r, w) = reading
      /\ ~r_index.vld => Seen(r, w).version = newest[ReadAt(r, w).item_index]
  BY DEF Seen
<1> QED
  BY <1>1, <1>2, <1>3, <1>4 DEF WasRead

\* Nothing is written in b.
Untouched(b) ==
    /\ ~Runs(w_index, b) /\ ~Runs(w_index', b)
    /\ ram_memory'[b] = ram_memory[b]

LEMMA OthersAreUntouched ==
    ASSUME TransInv, NEW r, NEW w, NEW version, NEW rd, NEW reads, NEW writes,
           Asked(r, w, version), Done(r, w, rd, reads, writes), WriteEffect(w, version, writes),
           NEW b \in Blocks,
           Runs(r_index, b) \/ (reads /\ ReadAt(r, w).item_index = b),
           ~(writes /\ WriteAt(w).item_index = b)
    PROVE  Untouched(b)
<1>1. CASE writes
  <2>1. Wrote(WriteAt(w), version)
    BY <1>1, WriteMoves
  <2>2. WriteAt(w).item_index # b
    BY <1>1
  <2>3. WriteAt(w).item_index \in Blocks
    BY <2>1 DEF Wrote, Place
  <2>4. ram_memory'[b] = ram_memory[b]
    BY <2>1, <2>2, <2>3 DEF Wrote, TransInv, MemoryInv
  <2> QED
    BY <2>1, <2>2, <2>4 DEF Wrote, GoesOn, Untouched, Runs
<1>2. CASE ~writes
  <2>1. w_index' = w_index /\ ram_memory' = ram_memory
    BY <1>2 DEF WriteEffect
  <2>2. SUFFICES ASSUME Runs(w_index, b) PROVE FALSE
    BY <2>1 DEF Untouched
  <2>3. users = "apart"
    BY <1>2, <2>2 DEF Done, Runs, TransInv, UsersInv
  <2>4. CASE Runs(r_index, b)
    BY <2>2, <2>3, <2>4 DEF TransInv, UsersInv, Runs
  <2>5. CASE reads /\ ReadAt(r, w).item_index = b /\ ~r_index.vld
    <3>1. ~FlushReq(w)
      BY <2>3 DEF Asked, FlushReq, TransInv, UsersInv
    <3>2. r = <<b>>
      BY <2>5, <3>1, ReadPlace DEF TransInv
    <3> QED
      BY <2>2, <2>3, <3>2 DEF Asked, Apart, Runs
  <2>6. CASE reads /\ ReadAt(r, w).item_index = b /\ r_index.vld
    <3>1. Runs(r_index, b)
      BY <2>6, ReadPlace DEF TransInv, Runs
    <3> QED
      BY <2>4, <3>1
  <2> QED
    BY <2>4, <2>5, <2>6
<1> QED
  BY <1>1, <1>2 DEF Done

LEMMA ReadsWaitElsewhere ==
    ASSUME TransInv, NEW r, NEW w, NEW version, NEW rd, NEW reads, NEW writes,
           Asked(r, w, version), Done(r, w, rd, reads, writes), WriteEffect(w, version, writes),
           NEW b \in Blocks, Runs(r_index, b), ~reads
    PROVE  Untouched(b)
<1>1. users = "apart"
  BY DEF Done, Runs, TransInv, UsersInv
<1>2. ASSUME writes, WriteAt(w).item_index = b PROVE FALSE
  <2>1. CASE w_index.vld
    <3>1. WriteAt(w) = w_index
      BY <1>2, <2>1, WritePlace DEF TransInv
    <3> QED
      BY <1>1, <1>2, <2>1, <3>1 DEF TransInv, UsersInv, Runs
  <2>2. CASE ~w_index.vld
    <3>1. w # <<>> /\ w[1].addr = b
      BY <1>2, <2>2, WritePlace DEF TransInv
    <3> QED
      BY <1>1, <3>1 DEF Asked, Apart, Runs
  <2> QED
    BY <2>1, <2>2
<1> QED
  BY <1>2, OthersAreUntouched

---------------------------------------------------------------------------

\* Nothing is written in the item that is read.
LEMMA SeesUntouched ==
    ASSUME TransInv, NEW at, NEW seen, WasRead(at, seen), Untouched(at.item_index), r_index'.vld
    PROVE  Sees(at.item_index)'
<1> DEFINE b == at.item_index
<1>1. /\ b \in Blocks /\ at.vld = TRUE
      /\ at.word_index \in Nat
  BY TransAssumption DEF WasRead, Place, Words
<1>2. r_index'.word_index = at.word_index + 1
  BY DEF WasRead, GoesOn
<1>3. \A k \in Words : k >= at.word_index => ram_memory[b][k].version = seen.version
  <2>1. CASE r_index.vld
    BY <1>1, <2>1 DEF WasRead, TransInv, ReadingInv, Sees, Runs, Untouched
  <2>2. CASE ~r_index.vld
    BY <1>1, <2>2 DEF WasRead, TransInv, MemoryInv, Untouched
  <2> QED
    BY <2>1, <2>2
<1>4. \A k \in Words : k >= at.word_index + 1 => k >= at.word_index
  BY <1>1, TransAssumption DEF Words
<1>5. \A k \in Words : k >= r_index'.word_index => ram_memory'[b][k].version = reading'.version
  BY <1>2, <1>3, <1>4 DEF WasRead, Untouched
<1>6. ~Runs(w_index', b)
  BY DEF Untouched
<1> QED
  BY <1>5, <1>6 DEF Sees, Runs

\* The item is read and written together.
LEMMA SeesTogether ==
    ASSUME TransInv, MemoryInv', NEW at, NEW seen, WasRead(at, seen), r_index'.vld,
           NEW to, NEW version, Wrote(to, version), to.item_index = at.item_index
    PROVE  Sees(at.item_index)'
<1> DEFINE b == at.item_index
           m == at.word_index
           n == to.word_index
<1>1. /\ b \in Blocks /\ at.vld = TRUE /\ to.vld = TRUE
      /\ m \in Nat /\ n \in Nat /\ n \in Words /\ m \in Words
  BY TransAssumption DEF WasRead, Wrote, Place, Words
<1>2. /\ r_index'.word_index = m + 1
      /\ reading' = seen /\ writing' = version /\ newest'[b] = version
      /\ Runs(w_index', b) <=> n < ITEM_WORDS - 1
      /\ Runs(w_index', b) => w_index'.word_index = n + 1
  BY <1>1 DEF WasRead, Wrote, GoesOn, Runs, TransInv, MemoryInv
<1>3. \A k \in Words : k # n => ram_memory'[b][k] = ram_memory[b][k]
  BY <1>1 DEF Wrote, TransInv, MemoryInv
<1>4. CASE seen.version = version /\ m < n
  <2>1. CASE Runs(w_index', b)
    BY <1>1, <1>2, <1>4, <2>1 DEF Sees, Runs
  <2>2. CASE ~Runs(w_index', b)
    <3>1. \A k \in Words : ram_memory'[b][k].version = version
      BY <1>1, <1>2, <2>2 DEF MemoryInv, Runs
    <3> QED
      BY <1>2, <1>4, <2>2, <3>1 DEF Sees, Runs
  <2> QED
    BY <2>1, <2>2
<1>5. CASE /\ n <= m
           /\ \A k \in Words : k > m => ram_memory[b][k].version = seen.version
  <2>1. ~(Runs(w_index', b) /\ m + 1 < w_index'.word_index)
    BY <1>1, <1>2, <1>5
  <2>2. \A k \in Words : k >= m + 1 => k > m /\ k # n
    BY <1>1, <1>5, TransAssumption DEF Words
  <2>3. \A k \in Words : k >= m + 1 => ram_memory'[b][k].version = seen.version
    BY <1>3, <1>5, <2>2
  <2> QED
    BY <1>2, <2>1, <2>3 DEF Sees, Runs
<1>6. /\ r_index.vld => r_index = at /\ seen = reading /\ m > 0
      /\ ~r_index.vld => m = 0 /\ seen.version = newest[b]
  BY TransAssumption DEF WasRead, TransInv, IndexOK
<1>7. /\ w_index.vld => w_index = to /\ version = writing /\ n > 0
      /\ ~w_index.vld => n = 0
  BY TransAssumption DEF Wrote, TransInv, IndexOK
<1>8. CASE r_index.vld
  <2>1. Sees(b) /\ Runs(r_index, b)
    BY <1>1, <1>6, <1>8 DEF TransInv, ReadingInv, Runs
  <2>2. CASE w_index.vld /\ m < n
    <3>1. Runs(w_index, b)
      BY <1>7, <2>2 DEF Runs
    <3> QED
      BY <1>4, <1>6, <1>7, <1>8, <2>1, <2>2, <3>1 DEF Sees
  <2>3. CASE ~(w_index.vld /\ m < n)
    <3>1. n <= m
      BY <1>1, <1>7, <2>3
    <3>2. ~(Runs(w_index, b) /\ r_index.word_index < w_index.word_index)
      BY <1>6, <1>7, <1>8, <2>3 DEF Runs
    <3>3. \A k \in Words : k >= m => ram_memory[b][k].version = seen.version
      BY <1>6, <1>8, <2>1, <3>2 DEF Sees
    <3>4. \A k \in Words : k > m => k >= m
      BY <1>1, TransAssumption DEF Words
    <3> QED
      BY <1>5, <3>1, <3>3, <3>4
  <2> QED
    BY <2>2, <2>3
<1>9. CASE ~r_index.vld
  <2>1. CASE w_index.vld
    <3>1. newest[b] = version
      BY <1>7, <2>1 DEF TransInv, MemoryInv
    <3> QED
      BY <1>4, <1>6, <1>7, <1>9, <2>1, <3>1
  <2>2. CASE ~w_index.vld
    <3>1. \A k \in Words : ram_memory[b][k].version = newest[b]
      BY <1>1, <2>2 DEF TransInv, MemoryInv, Runs
    <3> QED
      BY <1>1, <1>5, <1>6, <1>7, <1>9, <2>2, <3>1
  <2> QED
    BY <2>1, <2>2
<1> QED
  BY <1>8, <1>9

LEMMA ReadingStep ==
    ASSUME TransInv, MemoryInv', NEW r, NEW w, NEW version, NEW rd, NEW reads, NEW writes,
           Asked(r, w, version), Done(r, w, rd, reads, writes),
           ReadEffect(r, w, rd, reads), WriteEffect(w, version, writes)
    PROVE  ReadingInv'
<1> SUFFICES ASSUME NEW b \in Blocks, Runs(r_index', b)
             PROVE  Sees(b)'
  BY DEF ReadingInv, Runs
<1>1. CASE ~reads
  <2>1. r_index' = r_index /\ reading' = reading
    BY <1>1 DEF ReadEffect
  <2>2. Runs(r_index, b)
    BY <2>1 DEF Runs
  <2>3. Untouched(b)
    BY <1>1, <2>2, ReadsWaitElsewhere
  <2> QED
    BY <2>1, <2>2, <2>3 DEF Untouched, TransInv, ReadingInv, Sees, Runs
<1>2. CASE reads
  <2>1. PICK at : at = ReadAt(r, w)
    OBVIOUS
  <2>2. PICK seen : seen = Seen(r, w)
    OBVIOUS
  <2>3. WasRead(at, seen)
    BY <1>2, <2>1, <2>2, ReadMoves
  <2>4. at.item_index = b /\ r_index'.vld
    BY <2>3 DEF WasRead, GoesOn, Runs
  <2>5. CASE writes /\ WriteAt(w).item_index = b
    <3>1. PICK to : to = WriteAt(w)
      OBVIOUS
    <3>2. Wrote(to, version)
      BY <2>5, <3>1, WriteMoves
    <3>3. to.item_index = at.item_index
      BY <2>4, <2>5, <3>1
    <3>4. Sees(at.item_index)'
      BY <2>3, <2>4, <3>2, <3>3, SeesTogether
    <3> QED
      BY <2>4, <3>4
  <2>6. CASE ~(writes /\ WriteAt(w).item_index = b)
    <3>1. Untouched(b)
      BY <1>2, <2>1, <2>4, <2>6, OthersAreUntouched
    <3>2. Sees(at.item_index)'
      BY <2>3, <2>4, <3>1, SeesUntouched
    <3> QED
      BY <2>4, <3>2
  <2> QED
    BY <2>5, <2>6
<1> QED
  BY <1>1, <1>2 DEF Done

---------------------------------------------------------------------------

LEMMA FlushIsAsked ==
    ASSUME TransInv, NEW r, NEW w, NEW version, Asked(r, w, version)
    PROVE  /\ w # <<>> => ~w_index.vld /\ (w[1].flush <=> FlushReq(w))
           /\ FlushReq(w) => /\ w # <<>> /\ ~r_index.vld /\ ~w_index.vld /\ users = "together"
                             /\ w[1].flush
           /\ users = "apart" => ~FlushReq(w)
BY DEF Asked, FlushReq, TransInv, UsersInv

\* Users who are apart stay so.
LEMMA ItemsDiffer ==
    ASSUME TransInv, NEW r, NEW w, NEW version, NEW rd, NEW reads, NEW writes,
           Asked(r, w, version), Done(r, w, rd, reads, writes),
           ReadEffect(r, w, rd, reads), WriteEffect(w, version, writes),
           users = "apart", r_index'.vld
    PROVE  ~Runs(w_index', r_index'.item_index)
<1>1. CASE ~reads
  <2>1. r_index' = r_index
    BY <1>1 DEF ReadEffect
  <2>2. PICK b \in Blocks : b = r_index.item_index
    BY DEF TransInv, IndexOK
  <2>3. Runs(r_index, b)
    BY <2>1, <2>2 DEF Runs
  <2>4. Untouched(b)
    BY <1>1, <2>3, ReadsWaitElsewhere
  <2> QED
    BY <2>1, <2>2, <2>4 DEF Untouched
<1>2. CASE reads
  <2>1. WasRead(ReadAt(r, w), Seen(r, w))
    BY <1>2, ReadMoves
  <2>2. PICK b \in Blocks : b = ReadAt(r, w).item_index
    BY <2>1 DEF WasRead, Place
  <2>3. r_index'.item_index = b
    BY <2>1, <2>2 DEF WasRead, GoesOn
  <2>4. Runs(r_index, b) \/ (~r_index.vld /\ r = <<b>>)
    BY <1>2, <2>2, ReadPlace, FlushIsAsked DEF TransInv, Runs
  <2>5. ASSUME writes, WriteAt(w).item_index = b PROVE FALSE
    <3>1. CASE w_index.vld
      <4>1. Runs(w_index, b)
        BY <2>5, <3>1, WritePlace DEF TransInv, Runs
      <4> QED
        BY <2>4, <4>1 DEF Asked, Apart, TransInv, UsersInv, Runs
    <3>2. CASE ~w_index.vld
      <4>1. w # <<>> /\ w[1].addr = b
        BY <2>5, <3>2, WritePlace DEF TransInv
      <4> QED
        BY <2>4, <4>1 DEF Asked, Apart, Runs
    <3> QED
      BY <3>1, <3>2
  <2>6. Untouched(b)
    <3>1. ~(writes /\ WriteAt(w).item_index = b)
      BY <2>5
    <3>2. Runs(r_index, b) \/ (reads /\ ReadAt(r, w).item_index = b)
      BY <1>2, <2>2
    <3> QED
      BY <3>1, <3>2, OthersAreUntouched
  <2> QED
    BY <2>3, <2>6 DEF Untouched
<1> QED
  BY <1>1, <1>2 DEF Done

\* A write with flush stays in step with its read.
LEMMA FlushesStayInStep ==
    ASSUME TransInv, NEW r, NEW w, NEW version, NEW rd, NEW reads, NEW writes,
           Asked(r, w, version), Done(r, w, rd, reads, writes),
           ReadEffect(r, w, rd, reads), WriteEffect(w, version, writes)
    PROVE  /\ reading'.flush \in BOOLEAN
           /\ w_index'.flushing <=> r_index'.vld /\ reading'.flush
           /\ w_index'.flushing => /\ w_index'.vld /\ users = "together"
                                   /\ w_index'.word_index = r_index'.word_index
                                   /\ w_index'.item_index = r_index'.item_index
<1>1. /\ reading.flush \in BOOLEAN
      /\ w_index.flushing <=> r_index.vld /\ reading.flush
      /\ w_index.flushing => /\ w_index.vld /\ users = "together"
                             /\ w_index.word_index = r_index.word_index
                             /\ w_index.item_index = r_index.item_index
  BY DEF TransInv, UsersInv
<1>2. /\ reads \in BOOLEAN /\ writes \in BOOLEAN
      /\ r_index.vld \in BOOLEAN /\ w_index.vld \in BOOLEAN /\ w_index.flushing \in BOOLEAN
  BY DEF Done, TransInv, IndexOK
<1>3. /\ Seen(r, w).flush \in BOOLEAN
      /\ Seen(r, w).flush <=> IF r_index.vld THEN reading.flush ELSE FlushReq(w)
  BY <1>1 DEF Seen, FlushReq
<1>4. /\ reads => reading' = Seen(r, w) /\ WasRead(ReadAt(r, w), Seen(r, w))
      /\ ~reads => r_index' = r_index /\ reading' = reading
  BY ReadMoves DEF ReadEffect
<1>5. /\ writes => /\ Wrote(WriteAt(w), version)
                   /\ w_index'.flushing <=> /\ w_index'.vld
                                            /\ IF w_index.vld THEN w_index.flushing ELSE w[1].flush
      /\ ~writes => w_index' = w_index
  <2>1. CASE writes
    BY <2>1, WriteMoves
  <2>2. CASE ~writes
    BY <2>2 DEF WriteEffect
  <2> QED
    BY <1>2, <2>1, <2>2
<1>6. reading'.flush \in BOOLEAN
  BY <1>1, <1>2, <1>3, <1>4
<1>7. CASE w_index.flushing
  <2>1. reads /\ writes /\ r_index.vld /\ w_index.vld /\ users = "together"
    BY <1>1, <1>7 DEF Done
  <2>2. WasRead(r_index, reading) /\ Wrote(w_index, version)
    <3>1. WasRead(ReadAt(r, w), Seen(r, w)) /\ Wrote(WriteAt(w), version)
      BY <1>4, <1>5, <2>1
    <3> QED
      BY <2>1, <3>1 DEF WasRead, Wrote
  <2>3. /\ r_index'.vld <=> w_index'.vld
        /\ w_index'.vld => /\ w_index'.word_index = r_index'.word_index
                           /\ w_index'.item_index = r_index'.item_index
    BY <1>1, <1>7, <2>2 DEF WasRead, Wrote, GoesOn
  <2>4. w_index'.flushing <=> w_index'.vld
    BY <1>5, <1>7, <2>1
  <2>5. reading'.flush
    BY <1>1, <1>7, <2>2 DEF WasRead
  <2> QED
    BY <1>6, <2>1, <2>3, <2>4, <2>5
<1>8. CASE ~w_index.flushing /\ FlushReq(w)
  <2>1. /\ ~r_index.vld /\ ~w_index.vld /\ users = "together" /\ w # <<>>
        /\ w[1].flush
    BY <1>8, FlushIsAsked
  <2>2. reads /\ writes
    BY <1>8, <2>1 DEF Done
  <2>3. /\ ReadAt(r, w).word_index = 0 /\ ReadAt(r, w).item_index = w[1].addr
        /\ WriteAt(w).word_index = 0 /\ WriteAt(w).item_index = w[1].addr
    BY <1>8, <2>1, <2>2, ReadPlace, WritePlace DEF TransInv
  <2>4. WasRead(ReadAt(r, w), Seen(r, w)) /\ Wrote(WriteAt(w), version)
    BY <1>4, <1>5, <2>2
  <2>5. /\ r_index'.vld /\ w_index'.vld
        /\ w_index'.word_index = r_index'.word_index
        /\ w_index'.item_index = r_index'.item_index
    BY <2>3, <2>4, TransAssumption DEF WasRead, Wrote, GoesOn
  <2>6. w_index'.flushing /\ reading'.flush
    BY <1>3, <1>4, <1>5, <1>8, <2>1, <2>2, <2>5
  <2> QED
    BY <1>6, <2>1, <2>5, <2>6
<1>9. CASE ~w_index.flushing /\ ~FlushReq(w)
  <2>1. ~w_index'.flushing
    <3>1. CASE writes
      <4>1. w_index.vld \/ w # <<>>
        BY <3>1 DEF Done
      <4>2. ~w_index.vld => ~w[1].flush
        BY <1>9, <4>1, FlushIsAsked
      <4> QED
        BY <1>5, <1>9, <3>1, <4>2
    <3>2. CASE ~writes
      BY <1>5, <1>9, <3>2
    <3> QED
      BY <1>2, <3>1, <3>2
  <2>2. ~(r_index'.vld /\ reading'.flush)
    <3>1. CASE reads
      BY <1>1, <1>3, <1>4, <1>9, <3>1
    <3>2. CASE ~reads
      BY <1>1, <1>4, <1>9, <3>2
    <3> QED
      BY <1>2, <3>1, <3>2
  <2> QED
    BY <1>6, <2>1, <2>2
<1> QED
  BY <1>7, <1>8, <1>9

---------------------------------------------------------------------------

\* A word and its entry enter together, rd is what becomes of the oldest.
EnterTogether(rd, in, min) ==
    /\ rd \in BOOLEAN
    /\ rd => da_r.readData # <<>>
    /\ OneOrNone(in) /\ OneOrNone(min)
    /\ in = <<>> <=> min = <<>>
    /\ in # <<>> => REn(rd) /\ MetaRd(rd) /\ Right(in[1], min[1])

LEMMA PipeStep ==
    ASSUME PipeInv, NEW rd, NEW in, NEW min, EnterTogether(rd, in, min),
           da_r' = NextDaR(in, rd),
           r_meta' = NextMeta(min, rd)
    PROVE  /\ PipeInv'
           /\ (da_r.readData # <<>> => rd) /\ da_r.overflow = <<>> => da_r'.overflow = <<>>
<1>1. PICK p, d, o : p = da_r.pending /\ d = da_r.readData /\ o = da_r.overflow
  OBVIOUS
<1>2. PICK m, n : m = r_meta[1] /\ n = r_meta[2]
  OBVIOUS
<1>3. /\ OneOrNone(p) /\ OneOrNone(d) /\ OneOrNone(o) /\ OneOrNone(m) /\ OneOrNone(n)
      /\ d = <<>> <=> n = <<>>
      /\ p = <<>> /\ o = <<>> <=> m = <<>>
      /\ p = <<>> \/ o = <<>>
      /\ d = <<>> => o = <<>>
      /\ n # <<>> => Right(d[1], n[1])
      /\ p # <<>> => Right(p[1], m[1])
      /\ o # <<>> => Right(o[1], m[1])
  BY <1>1, <1>2 DEF PipeInv
<1>6. /\ rd \in BOOLEAN
      /\ OneOrNone(in) /\ OneOrNone(min)
      /\ in = <<>> <=> min = <<>>
      /\ in # <<>> => Right(in[1], min[1])
      /\ in # <<>> => (o = <<>> \/ rd) /\ (d = <<>> \/ rd)
      /\ in # <<>> => m = <<>> \/ n = <<>> \/ rd
  BY <1>1, <1>2 DEF EnterTogether, REn, MetaRd
<1>7. PICK d2 : d2 = IF p # <<>> /\ (d = <<>> \/ rd) THEN p ELSE IF p = <<>> /\ rd THEN o ELSE d
  OBVIOUS
<1>8. PICK o2 : o2 = IF p # <<>> /\ ~(d = <<>> \/ rd) THEN p
                     ELSE IF p # <<>> \/ rd THEN <<>> ELSE o
  OBVIOUS
<1>9. da_r' = [pending |-> in, readData |-> d2, overflow |-> o2]
  BY <1>1, <1>7, <1>8 DEF NextDaR
<1>10. PICK m2 : m2 = IF (n = <<>> \/ rd) \/ m = <<>> THEN min ELSE m
  OBVIOUS
<1>11. PICK n2 : n2 = IF n = <<>> \/ rd THEN m ELSE n
  OBVIOUS
<1>12. r_meta' = <<m2, n2>>
  BY <1>2, <1>10, <1>11 DEF NextMeta
<1>13. rd => d # <<>>
  BY <1>1 DEF EnterTogether
<1>14. OneOrNone(d2) /\ OneOrNone(o2) /\ OneOrNone(m2) /\ OneOrNone(n2)
  BY <1>3, <1>6, <1>7, <1>8, <1>10, <1>11 DEF OneOrNone
<1>15. /\ d2 = <<>> <=> n2 = <<>>
       /\ in = <<>> /\ o2 = <<>> <=> m2 = <<>>
       /\ in = <<>> \/ o2 = <<>>
       /\ d2 = <<>> => o2 = <<>>
  BY <1>3, <1>6, <1>7, <1>8, <1>10, <1>11, <1>13
<1>16. /\ n2 # <<>> => Right(d2[1], n2[1])
       /\ in # <<>> => Right(in[1], m2[1])
       /\ o2 # <<>> => Right(o2[1], m2[1])
  BY <1>3, <1>6, <1>7, <1>8, <1>10, <1>11, <1>13
<1>17. (d # <<>> => rd) /\ o = <<>> => o2 = <<>>
  BY <1>8
<1>18. /\ da_r' = [pending |-> da_r'.pending, readData |-> da_r'.readData,
                   overflow |-> da_r'.overflow]
       /\ da_r'.pending = in /\ da_r'.readData = d2 /\ da_r'.overflow = o2
       /\ r_meta' = <<r_meta'[1], r_meta'[2]>> /\ r_meta'[1] = m2 /\ r_meta'[2] = n2
  BY <1>9, <1>12
<1>19. PipeInv'
  BY <1>6, <1>14, <1>15, <1>16, <1>18 DEF PipeInv
<1> QED
  BY <1>1, <1>17, <1>18, <1>19

---------------------------------------------------------------------------

LEMMA TransStart == TransInit => TransInv
<1> SUFFICES ASSUME TransInit PROVE TransInv
  OBVIOUS
<1> USE NoBlockIsBlock, TransAssumption
<1>1. IndexOK(r_index) /\ IndexOK(w_index) /\ ~r_index.vld /\ ~w_index.vld /\ ~w_index.flushing
  BY DEF TransInit, IndexOK, Idle0
<1>2. Version0 \in AllVersions
  BY DEF AllVersions
<1>3. MemoryInv
  <2>1. \A b \in Blocks, k \in Words :
           ram_memory[b][k] = [version |-> Version0, word |-> k] /\ newest[b] = Version0
    BY DEF TransInit
  <2>2. /\ ram_memory \in [Blocks -> [Words -> [version : AllVersions, word : Words]]]
        /\ newest \in [Blocks -> AllVersions]
    BY <1>2 DEF TransInit
  <2>3. ASSUME NEW b \in Blocks, NEW k \in Words
        PROVE  ram_memory[b][k].word = k /\ ram_memory[b][k].version = newest[b]
    <3>1. ram_memory[b][k] = [version |-> Version0, word |-> k] /\ newest[b] = Version0
      BY <2>1
    <3> QED
      BY <3>1
  <2> QED
    BY <1>1, <2>2, <2>3, Zenon DEF MemoryInv
<1>4. ReadingInv
  BY <1>1 DEF ReadingInv, Runs
<1>5. UsersInv
  BY <1>1 DEF UsersInv, TransInit
<1>6. PipeInv
  BY DEF PipeInv, TransInit, OneOrNone
<1> QED
  BY <1>1, <1>3, <1>4, <1>5, <1>6 DEF TransInv

LEMMA TransPreserved ==
    ASSUME TransInv, Disturbances = {}, [TransNext]_transVars
    PROVE  TransInv'
<1>1. CASE UNCHANGED transVars
  BY <1>1 DEF transVars, TransInv, IndexOK, MemoryInv, ReadingInv, Sees, Runs, UsersInv, PipeInv
<1>2. CASE TransNext
  <2>1. PICK r, w, version, rd, reads, writes :
           /\ Asked(r, w, version) /\ Done(r, w, rd, reads, writes)
           /\ ReadEffect(r, w, rd, reads) /\ WriteEffect(w, version, writes)
           /\ users' = users
    BY <1>2, OneClock
  <2>2. rd \in BOOLEAN /\ reads \in BOOLEAN /\ writes \in BOOLEAN
    BY <2>1 DEF Done
  <2>3. IndexOK(r_index')
    BY <2>1, <2>2, ReadMoves DEF ReadEffect, TransInv
  <2>4. IndexOK(w_index') /\ MemoryInv'
    <3>1. CASE writes
      <4>1. PICK at : at = WriteAt(w)
        OBVIOUS
      <4>2. Wrote(at, version) /\ IndexOK(w_index')
        BY <2>1, <3>1, <4>1, WriteMoves
      <4> QED
        BY <4>2, MemoryStep DEF TransInv
    <3>2. CASE ~writes
      <4>1. /\ w_index' = w_index /\ ram_memory' = ram_memory /\ newest' = newest
            /\ writing' = writing
        BY <2>1, <3>2 DEF WriteEffect
      <4> QED
        BY <4>1 DEF TransInv, MemoryInv, Runs
    <3> QED
      BY <2>2, <3>1, <3>2
  <2>5. ReadingInv'
    BY <2>1, <2>4, ReadingStep
  <2>6. /\ PipeInv'
        /\ users = "together" => da_r'.overflow = <<>>
    <3>1. PICK in : in = IF reads THEN <<WordRead(r, w)>> ELSE <<>>
      OBVIOUS
    <3>2. PICK min : min = IF reads THEN <<MetaRead(r, w)>> ELSE <<>>
      OBVIOUS
    <3>3. reads => REn(rd) /\ MetaRd(rd) /\ Right(WordRead(r, w), MetaRead(r, w))
      BY <2>1, RightIsRead DEF Done
    <3>4. EnterTogether(rd, in, min)
      BY <2>1, <2>2, <3>1, <3>2, <3>3 DEF Done, EnterTogether, OneOrNone
    <3>5. da_r' = NextDaR(in, rd) /\ r_meta' = NextMeta(min, rd)
      BY <2>1, <3>1, <3>2 DEF ReadEffect
    <3>6. /\ PipeInv
          /\ users = "together" => (da_r.readData # <<>> => rd) /\ da_r.overflow = <<>>
      BY <2>1 DEF Done, TransInv, UsersInv
    <3> QED
      BY <3>4, <3>5, <3>6, PipeStep
  <2>7. UsersInv'
    <3>1. /\ reading'.flush \in BOOLEAN
          /\ w_index'.flushing <=> r_index'.vld /\ reading'.flush
          /\ w_index'.flushing => /\ w_index'.vld /\ users = "together"
                                  /\ w_index'.word_index = r_index'.word_index
                                  /\ w_index'.item_index = r_index'.item_index
      BY <2>1, FlushesStayInStep
    <3>2. users = "apart" /\ r_index'.vld => ~Runs(w_index', r_index'.item_index)
      BY <2>1, ItemsDiffer
    <3>3. users \in {"together", "apart"} /\ users' = users
      BY <2>1 DEF TransInv, UsersInv
    <3> QED
      BY <2>6, <3>1, <3>2, <3>3 DEF UsersInv, Runs
  <2> QED
    BY <2>3, <2>4, <2>5, <2>6, <2>7 DEF TransInv, IndexOK
<1> QED
  BY <1>1, <1>2

\* `The swap, read and write is atomic in relation with other transactions', for items of any
\* length, any number of them and any versions, when the users start transfers and flushes as
\* the doc allows it: each word that leaves belongs to one version of its item.
THEOREM ItemsStayAtomic ==
    ASSUME Disturbances = {}
    PROVE  TransSpec => []ItemsAreAtomic
<1>1. TransInit => TransInv
  BY TransStart
<1>2. TransInv /\ [TransNext]_transVars => TransInv'
  BY TransPreserved
<1>3. TransInv => ItemsAreAtomic
  BY DEF TransInv, PipeInv, Right, ItemsAreAtomic
<1> QED
  BY <1>1, <1>2, <1>3, PTL DEF TransSpec

---------------------------------------------------------------------------
(* CuckooHashTable: the memories tab of the table engines and what is in them. *)

Places == [Tables -> [Slots -> Items \cup {NoItem}]]

InSlot(tab, t, key) == tab[t][Hash[t][key]]
Holds(tab, t, key) == InSlot(tab, t, key) # NoItem /\ InSlot(tab, t, key).key = key
Absent(tab, key) == \A t \in Tables : ~Holds(tab, t, key)

ItemsIn(tab) == {tab[t][s] : t \in Tables, s \in Slots} \ {NoItem}

\* An item is in the slot of its hash, and no key is in two tables.
Tidy(tab) ==
    /\ tab \in Places
    /\ \A t \in Tables, s \in Slots : tab[t][s] # NoItem => Hash[t][tab[t][s].key] = s
    /\ \A t, u \in Tables, s, r \in Slots :
          tab[t][s] # NoItem /\ tab[u][r] # NoItem /\ tab[t][s].key = tab[u][r].key => t = u

Put(tab, t, key, item) ==
    [u \in Tables |-> IF u = t THEN [tab[u] EXCEPT ![Hash[t][key]] = item] ELSE tab[u]]

LEMMA HashType ==
    ASSUME NEW t \in Tables, NEW k \in Keys
    PROVE  Hash[t][k] \in Slots
BY CuckooParams

LEMMA ItemsAreInTheirSlots ==
    ASSUME NEW tab, Tidy(tab), NEW k \in Keys
    PROVE  {i \in ItemsIn(tab) : i.key = k}
              = {InSlot(tab, t, k) : t \in {u \in Tables : Holds(tab, u, k)}}
<1>1. ASSUME NEW i \in ItemsIn(tab), i.key = k
      PROVE  \E t \in Tables : Holds(tab, t, k) /\ i = InSlot(tab, t, k)
  <2>1. PICK t \in Tables, s \in Slots : i = tab[t][s] /\ i # NoItem
    BY DEF ItemsIn
  <2>2. Hash[t][k] = s
    BY <1>1, <2>1 DEF Tidy
  <2> QED BY <1>1, <2>1, <2>2 DEF Holds, InSlot
<1>2. ASSUME NEW t \in Tables, Holds(tab, t, k)
      PROVE  InSlot(tab, t, k) \in ItemsIn(tab) /\ InSlot(tab, t, k).key = k
  <2>1. Hash[t][k] \in Slots
    BY HashType
  <2> QED BY <1>2, <2>1 DEF Holds, InSlot, ItemsIn
<1> QED BY <1>1, <1>2

LEMMA HeldIsIn ==
    ASSUME NEW tab, NEW t \in Tables, NEW k \in Keys, Holds(tab, t, k)
    PROVE  InSlot(tab, t, k) \in ItemsIn(tab)
BY HashType DEF Holds, InSlot, ItemsIn

LEMMA OneHolder ==
    ASSUME NEW tab, Tidy(tab), NEW k \in Keys, NEW t \in Tables, NEW u \in Tables,
           Holds(tab, t, k), Holds(tab, u, k)
    PROVE  t = u
BY HashType DEF Tidy, Holds, InSlot

LEMMA PutPoint ==
    ASSUME NEW tab \in Places, NEW t \in Tables, NEW k \in Keys, NEW item,
           NEW u \in Tables, NEW s \in Slots
    PROVE  Put(tab, t, k, item)[u][s] = IF u = t /\ s = Hash[t][k] THEN item ELSE tab[u][s]
BY HashType DEF Put, Places

LEMMA PutType ==
    ASSUME NEW tab \in Places, NEW t \in Tables, NEW k \in Keys, NEW item \in Items \cup {NoItem}
    PROVE  Put(tab, t, k, item) \in Places
BY HashType DEF Put, Places

\* Writing an item to its slot, or clearing the slot.
LEMMA PutTidy ==
    ASSUME NEW tab, Tidy(tab), NEW t \in Tables, NEW k \in Keys,
           NEW item \in Items \cup {NoItem},
           item # NoItem => item.key = k,
           \A u \in Tables : u # t => ~Holds(tab, u, k)
    PROVE  Tidy(Put(tab, t, k, item))
<1> DEFINE new == Put(tab, t, k, item)
           Here(u, s) == u = t /\ s = Hash[t][k]
<1>0. tab \in Places /\ new \in Places
  BY PutType DEF Tidy
<1>1. \A u \in Tables, s \in Slots : new[u][s] = IF Here(u, s) THEN item ELSE tab[u][s]
  BY <1>0, PutPoint
<1> HIDE DEF new
<1>2. ASSUME NEW u \in Tables, NEW s \in Slots, new[u][s] # NoItem
      PROVE  Hash[u][new[u][s].key] = s
  <2>1. CASE Here(u, s)
    BY <1>1, <1>2, <2>1
  <2>2. CASE ~Here(u, s)
    BY <1>1, <1>2, <2>2 DEF Tidy
  <2> QED BY <2>1, <2>2
<1>3. ASSUME NEW u \in Tables, NEW s \in Slots, u # t, tab[u][s] # NoItem
      PROVE  tab[u][s].key # k
  <2>1. Hash[u][tab[u][s].key] = s
    BY <1>3 DEF Tidy
  <2> QED BY <1>3, <2>1 DEF Holds, InSlot
<1>4. ASSUME NEW u \in Tables, NEW v \in Tables, NEW s \in Slots, NEW r \in Slots,
             new[u][s] # NoItem, new[v][r] # NoItem, new[u][s].key = new[v][r].key
      PROVE  u = v
  <2>1. CASE Here(u, s) /\ Here(v, r)
    BY <2>1
  <2>2. CASE ~Here(u, s) /\ ~Here(v, r)
    <3>1. new[u][s] = tab[u][s] /\ new[v][r] = tab[v][r]
      BY <1>1, <2>2
    <3> QED BY <1>4, <3>1 DEF Tidy
  <2>3. CASE Here(u, s) /\ ~Here(v, r)
    <3>1. new[u][s] = item /\ new[v][r] = tab[v][r]
      BY <1>1, <2>3
    <3> QED BY <1>3, <1>4, <2>3, <3>1
  <2>4. CASE ~Here(u, s) /\ Here(v, r)
    <3>1. new[u][s] = tab[u][s] /\ new[v][r] = item
      BY <1>1, <2>4
    <3> QED BY <1>3, <1>4, <2>4, <3>1
  <2> QED BY <2>1, <2>2, <2>3, <2>4
<1>5. Tidy(new)
  BY <1>0, <1>2, <1>4 DEF Tidy
<1> QED BY <1>5 DEF new

LEMMA PutItems ==
    ASSUME NEW tab, Tidy(tab), NEW t \in Tables, NEW k \in Keys,
           NEW item \in Items \cup {NoItem}
    PROVE  ItemsIn(Put(tab, t, k, item))
              = (ItemsIn(tab) \ {InSlot(tab, t, k)}) \cup ({item} \ {NoItem})
<1> DEFINE new == Put(tab, t, k, item)
           Here(u, s) == u = t /\ s = Hash[t][k]
<1>0. tab \in Places
  BY DEF Tidy
<1>1. \A u \in Tables, s \in Slots : new[u][s] = IF Here(u, s) THEN item ELSE tab[u][s]
  BY <1>0, PutPoint
<1>2. Hash[t][k] \in Slots
  BY HashType
<1> HIDE DEF new
<1>3. ASSUME NEW u \in Tables, NEW s \in Slots, tab[u][s] # NoItem, tab[u][s] = InSlot(tab, t, k)
      PROVE  Here(u, s)
  <2>1. u = t
    BY <1>2, <1>3 DEF Tidy, InSlot
  <2>2. Hash[t][tab[u][s].key] = s
    BY <1>3, <2>1 DEF Tidy
  <2>3. Hash[t][InSlot(tab, t, k).key] = Hash[t][k]
    BY <1>2, <1>3 DEF Tidy, InSlot
  <2> QED BY <1>3, <2>1, <2>2, <2>3
<1>4. ASSUME NEW i \in ItemsIn(new)
      PROVE  i \in (ItemsIn(tab) \ {InSlot(tab, t, k)}) \cup ({item} \ {NoItem})
  <2>1. PICK u \in Tables, s \in Slots : i = new[u][s] /\ i # NoItem
    BY DEF ItemsIn
  <2>2. CASE Here(u, s)
    BY <1>1, <2>1, <2>2
  <2>3. CASE ~Here(u, s)
    <3>1. i = tab[u][s]
      BY <1>1, <2>1, <2>3
    <3>2. i # InSlot(tab, t, k)
      BY <1>3, <2>1, <2>3, <3>1
    <3> QED BY <2>1, <3>1, <3>2 DEF ItemsIn
  <2> QED BY <2>2, <2>3
<1>5. ASSUME NEW i \in ItemsIn(tab), i # InSlot(tab, t, k)
      PROVE  i \in ItemsIn(new)
  <2>1. PICK u \in Tables, s \in Slots : i = tab[u][s] /\ i # NoItem
    BY DEF ItemsIn
  <2>2. ~Here(u, s)
    BY <1>5, <2>1 DEF InSlot
  <2>3. new[u][s] = i
    BY <1>1, <2>1, <2>2
  <2> QED BY <2>1, <2>3 DEF ItemsIn
<1>6. item # NoItem => item \in ItemsIn(new)
  <2>1. new[t][Hash[t][k]] = item
    BY <1>1, <1>2
  <2> QED BY <1>2, <2>1 DEF ItemsIn
<1>7. ItemsIn(new) = (ItemsIn(tab) \ {InSlot(tab, t, k)}) \cup ({item} \ {NoItem})
  BY <1>4, <1>5, <1>6
<1> QED BY <1>7 DEF new

LEMMA ItemsHaveKeys ==
    ASSUME NEW tab \in Places, NEW i \in ItemsIn(tab)
    PROVE  i \in Items /\ i.key \in Keys /\ i # NoItem
BY DEF Places, ItemsIn, Items

LEMMA FirstOf ==
    ASSUME NEW S, S \subseteq Tables, S # {}
    PROVE  First(S) \in S
<1>1. S \subseteq Nat
  BY DEF Tables
<1>2. \E w \in S : \A v \in S : w <= v
  BY <1>1, LeastExists
<1> QED BY <1>2 DEF First

LEMMA FirstOfOne ==
    ASSUME NEW t \in Tables
    PROVE  First({t}) = t
<1>1. {t} \subseteq Tables /\ {t} # {}
  OBVIOUS
<1>2. First({t}) \in {t}
  BY <1>1, FirstOf
<1> QED BY <1>2

---------------------------------------------------------------------------
(* The state machine.  A phase is what is known in one of its states. *)

Results == [key : Keys, items : [Tables -> Items \cup {NoItem}]]
Stashes == [op : {"INSERT", "DELETE", "LOOKUP"}, item : Items \cup {NoItem},
            key : Keys \cup {NoItem}, reinsert_cntr : Int]

CuckooType ==
    /\ fsm \in {"idle", "cleaning", "lookup", "lookupResWaitRd", "lookupResAck"}
    /\ stash \in Stashes
    /\ insertTargetOH \in SUBSET Tables
    /\ insertFinal \in BOOLEAN
    /\ cleanupAddr \in Slots
    /\ pipe \in Seq(Results)
    /\ res_vld \in BOOLEAN
    /\ res_vld => pipe # <<>>

\* What was read for a key is what is there.
Current(res) == res.items = [t \in Tables |-> InSlot(tables, t, res.key)]

LookupInStash == IF stash.op = "LOOKUP" THEN 1 ELSE 0

IdlePhase ==
    /\ stash.op # "INSERT"
    /\ stash.op = "LOOKUP" => stash.key \in Keys
    /\ \A i \in 1 .. Len(pipe) : Current(pipe[i])
    /\ Len(pipe) <= PIPE
    /\ lookup_in_progress = Len(pipe) + LookupInStash
    /\ MAX_LOOKUP_OVERLAP - 1 < CounterSize => lookup_in_progress <= MAX_LOOKUP_OVERLAP - 1

CleanPhase ==
    /\ pipe = <<>> /\ lookup_in_progress = 0
    /\ stash.op = "DELETE"
    /\ \A t \in Tables, s \in Slots : s < cleanupAddr => tables[t][s] = NoItem

\* What is going to happen to the key in the stash.
Job ==
    /\ lookup_in_progress = 0
    /\ stash.op \in {"INSERT", "DELETE"}
    /\ stash.key \in Keys
    /\ stash.op = "INSERT" => stash.item \in Items /\ stash.item.key = stash.key
    /\ stash.op = "DELETE" => stash.item = NoItem

\* A key that is deleted is in the tables, one that was displaced is not.
JobKnown ==
    /\ stash.op = "DELETE" => ~Absent(tables, stash.key)
    /\ stash.op = "INSERT" => stash.reinsert_cntr = MAX_REINSERT \/ Absent(tables, stash.key)

LookedUp == Len(pipe) = 1 /\ pipe[1].key = stash.key

\* There is one place for the item: it is free or its key is there, or it has to be freed.
Target(t) ==
    /\ insertTargetOH = {t}
    /\ \A u \in Tables : u # t => ~Holds(tables, u, stash.key)
    /\ insertFinal => InSlot(tables, t, stash.key) = NoItem \/ Holds(tables, t, stash.key)
    /\ ~insertFinal => /\ InSlot(tables, t, stash.key) # NoItem
                       /\ ~Holds(tables, t, stash.key)
                       /\ pipe[1].items[t] = InSlot(tables, t, stash.key)
    /\ stash.op = "DELETE" => Holds(tables, t, stash.key)

LookupPhase == Job /\ JobKnown /\ pipe = <<>>
WaitPhase == Job /\ JobKnown /\ LookedUp /\ Current(pipe[1])
AckPhase == Job /\ LookedUp /\ \E t \in Tables : Target(t)

Phase ==
    /\ fsm = "idle" => IdlePhase
    /\ fsm = "cleaning" => CleanPhase
    /\ fsm # "cleaning" => cleanupAddr = 0
    /\ fsm = "lookup" => LookupPhase
    /\ fsm = "lookupResWaitRd" => WaitPhase
    /\ fsm = "lookupResAck" => AckPhase

\* No table is selected, or one; more than one only before anything is stored.
Selected ==
    \/ insertTargetOH = {}
    \/ \E t \in Tables : insertTargetOH = {t}
    \/ \A t \in Tables, s \in Slots : tables[t][s] = NoItem

CuckooInv == CuckooType /\ Tidy(tables) /\ Selected /\ Phase

\* A step keeps all that and is one of the map.
GoodStep == CuckooInv' /\ MapStep

---------------------------------------------------------------------------

LEMMA CuckooStarts ==
    CuckooInit => CuckooInv
<1> SUFFICES ASSUME CuckooInit PROVE CuckooInv
  OBVIOUS
<1> USE DEF CuckooInit, NoStash
<1>1. stash \in Stashes
  BY DEF Stashes
<1>2. 0 \in Slots
  BY CuckooParams DEF Slots
<1>3. CuckooType
  <2>1. <<>> \in Seq(Results)
    BY EmptySeq
  <2>2. pipe \in Seq(Results)
    BY <2>1
  <2>3. insertTargetOH \in SUBSET Tables /\ insertFinal \in BOOLEAN /\ res_vld = FALSE
    OBVIOUS
  <2>4. cleanupAddr \in Slots /\ fsm = "idle"
    BY <1>2
  <2> QED BY <1>1, <2>2, <2>3, <2>4 DEF CuckooType
<1>4. Tidy(tables)
  BY DEF Tidy, Places
<1>5. Selected
  BY DEF Selected
<1>6. IdlePhase
  BY CuckooParams DEF IdlePhase, LookupInStash
<1> QED BY <1>3, <1>4, <1>5, <1>6 DEF CuckooInv, Phase

\* What the engines do to the lookups.
LEMMA EnginesKeep ==
    ASSUME NEW send, NEW pop, pipe \in Seq(Results), res_vld \in BOOLEAN,
           res_vld => pipe # <<>>, pop => pipe # <<>>,
           send => stash.key \in Keys, Tidy(tables), Engines(send, pop)
    PROVE  /\ pipe' \in Seq(Results)
           /\ res_vld' \in BOOLEAN /\ (res_vld' => pipe' # <<>>)
<1>1. send => LookupResult(stash.key) \in Results
  <2> SUFFICES ASSUME send PROVE LookupResult(stash.key) \in Results
    OBVIOUS
  <2>1. \A t \in Tables : tables[t][Hash[t][stash.key]] \in Items \cup {NoItem}
    BY HashType DEF Tidy, Places
  <2> QED BY <2>1 DEF LookupResult, Results
<1>2. (IF pop THEN Tail(pipe) ELSE pipe) \in Seq(Results)
  <2>1. pop => Tail(pipe) \in Seq(Results)
    BY HeadTailProperties
  <2> QED BY <2>1
<1>3. (IF send THEN <<LookupResult(stash.key)>> ELSE <<>>) \in Seq(Results)
  BY <1>1
<1>4. pipe' \in Seq(Results)
  <2> DEFINE a == IF pop THEN Tail(pipe) ELSE pipe
             b == IF send THEN <<LookupResult(stash.key)>> ELSE <<>>
  <2>1. pipe' = a \o b /\ a \in Seq(Results) /\ b \in Seq(Results)
    BY <1>2, <1>3 DEF Engines
  <2> HIDE DEF a, b
  <2> QED BY <2>1, ConcatProperties
<1>5. res_vld' \in BOOLEAN /\ (res_vld' => pipe' # <<>>)
  BY DEF Engines, NextResVld
<1> QED BY <1>4, <1>5

LEMMA NoEngines ==
    ASSUME pipe \in Seq(Results), res_vld \in BOOLEAN, res_vld => pipe # <<>>,
           Engines(FALSE, FALSE)
    PROVE  pipe' = pipe /\ res_vld' \in BOOLEAN /\ (res_vld' => pipe' # <<>>)
<1>1. pipe' = pipe \o <<>>
  BY DEF Engines
<1>2. pipe' = pipe
  BY <1>1, ConcatEmptySeq
<1> QED BY <1>2 DEF Engines, NextResVld

LEMMA LoneStored ==
    ASSUME CuckooInv, InHand = {}
    PROVE  Stored = ItemsIn(tables)
BY DEF Stored, ItemsIn

LEMMA StoredWithHand ==
    ASSUME NEW i, InHand = {i}
    PROVE  Stored = {j \in ItemsIn(tables) : j.key # i.key} \cup {i}
BY DEF Stored, ItemsIn

---------------------------------------------------------------------------
(* The steps *)

LEMMA CleanStep ==
    ASSUME CuckooInv, NEW ins_rd, Cleaning(ins_rd)
    PROVE  GoodStep
<1> USE DEF Cleaning
<1>1. CleanPhase /\ fsm = "cleaning"
  BY DEF CuckooInv, Phase
<1>2. UNCHANGED <<stash, insertTargetOH, insertFinal, lookup_in_progress, pipe, res_vld>>
  OBVIOUS
<1>3. answer' = NoAnswer /\ fsm' \in {"cleaning", "idle"}
  BY <1>1
<1>4. CASE ~ins_rd
  <2>1. UNCHANGED <<tables, cleanupAddr, fsm>>
    BY <1>4
  <2>2. CuckooInv'
    BY <1>2, <2>1 DEF CuckooInv, CuckooType, Selected, Phase, IdlePhase, CleanPhase, LookupPhase,
          WaitPhase, AckPhase, LookupInStash, Job, JobKnown, LookedUp, Target, Current
  <2>3. Stored' = Stored
    BY <1>2, <2>1 DEF Stored, InHand
  <2> QED BY <1>1, <1>3, <2>1, <2>2, <2>3 DEF GoodStep, MapStep, NoAnswer
<1>5. CASE ins_rd
  <2> DEFINE last == cleanupAddr = TABLE_ITEMS - 1
  <2>1. /\ tables' = Written(Tables, cleanupAddr, NoItem)
        /\ cleanupAddr' = IF last THEN 0 ELSE cleanupAddr + 1
        /\ fsm' = IF last THEN "idle" ELSE fsm
    BY <1>5
  <2>2. tables \in Places /\ cleanupAddr \in Slots
    BY DEF CuckooInv, CuckooType, Tidy
  <2>3. \A t \in Tables, s \in Slots :
            tables'[t][s] = IF s = cleanupAddr THEN NoItem ELSE tables[t][s]
    BY <2>1, <2>2 DEF Written, Places
  <2>4. Tidy(tables)'
    <3>1. tables' \in Places
      BY <2>1, <2>2 DEF Written, Places
    <3>2. \A t \in Tables, s \in Slots :
              tables'[t][s] # NoItem => tables[t][s] # NoItem /\ tables'[t][s] = tables[t][s]
      BY <2>3
    <3> QED BY <3>1, <3>2 DEF CuckooInv, Tidy
  <2>5. \A t \in Tables, s \in Slots : s <= cleanupAddr => tables'[t][s] = NoItem
    BY <1>1, <2>2, <2>3 DEF CleanPhase, Slots
  <2>6. cleanupAddr' \in Slots
    BY <2>1, <2>2, CuckooParams DEF Slots
  <2>7. Phase'
    <3>1. CASE last
      <4>1. IdlePhase'
        BY <1>1, <1>2, CuckooParams DEF CleanPhase, IdlePhase, LookupInStash
      <4>2. fsm' = "idle" /\ cleanupAddr' = 0
        BY <2>1, <3>1
      <4> QED BY <4>1, <4>2 DEF Phase
    <3>2. CASE ~last
      <4>1. fsm' = "cleaning" /\ cleanupAddr' = cleanupAddr + 1
        BY <1>1, <2>1, <3>2
      <4>2. CleanPhase'
        BY <1>1, <1>2, <2>2, <2>5, <4>1 DEF CleanPhase, Slots
      <4> QED BY <4>1, <4>2 DEF Phase
    <3> QED BY <3>1, <3>2
  <2>8. CuckooType'
    BY <1>2, <1>3, <2>6 DEF CuckooInv, CuckooType
  <2>9. Selected'
    <3>1. (\A t \in Tables, s \in Slots : tables[t][s] = NoItem)
            => (\A t \in Tables, s \in Slots : tables'[t][s] = NoItem)
      BY <2>3
    <3> QED BY <1>2, <3>1 DEF CuckooInv, Selected
  <2>10. InHand = {} /\ InHand' = {}
    BY <1>1, <1>2 DEF InHand, CleanPhase
  <2>11. CuckooInv'
    BY <2>4, <2>7, <2>8, <2>9 DEF CuckooInv
  <2>12. Stored = ItemsIn(tables) /\ Stored' = ItemsIn(tables)'
    BY <2>10 DEF Stored, ItemsIn
  <2>13. ItemsIn(tables)' \subseteq ItemsIn(tables)
    BY <2>3 DEF ItemsIn
  <2>14. last => ItemsIn(tables)' = {}
    BY <2>2, <2>5, CuckooParams DEF ItemsIn, Slots
  <2>15. fsm' = "idle" <=> last
    BY <1>1, <2>1
  <2>16. stash'.op # "INSERT"
    BY <1>1, <1>2 DEF CleanPhase
  <2>17. Stored' = IF fsm' = "idle" THEN {} ELSE Stored \cap Stored'
    BY <2>12, <2>13, <2>14, <2>15
  <2>18. MapStep
    BY <1>1, <1>3, <2>17 DEF MapStep, NoAnswer
  <2> QED BY <2>11, <2>18 DEF GoodStep
<1> QED BY <1>4, <1>5

LEMMA LookupStep ==
    ASSUME CuckooInv, NEW rd, LookupForInsert(rd)
    PROVE  GoodStep
<1> USE DEF LookupForInsert
<1>1. fsm = "lookup" /\ LookupPhase
  BY DEF CuckooInv, Phase
<1>2. UNCHANGED <<insertTargetOH, insertFinal, cleanupAddr, lookup_in_progress, tables>>
  OBVIOUS
<1>3. CuckooType
  BY DEF CuckooInv
<1>4. Tidy(tables)' /\ Selected' /\ cleanupAddr' = 0 /\ cleanupAddr' \in Slots
  BY <1>1, <1>2, <1>3 DEF CuckooInv, Selected, Phase, CuckooType
<1>5. CASE TimedOut /\ rd
  <2>1. fsm' = "idle" /\ stash' = NoStash /\ Engines(FALSE, FALSE)
        /\ answer' = [port |-> "insertRes", pop |-> TRUE, item |-> stash.item]
    BY <1>5
  <2>2. pipe' = pipe /\ res_vld' \in BOOLEAN /\ (res_vld' => pipe' # <<>>)
    BY <1>3, <2>1, NoEngines DEF CuckooType
  <2>3. stash' \in Stashes
    BY <2>1 DEF Stashes, NoStash
  <2>4. CuckooType'
    BY <1>2, <1>3, <2>1, <2>2, <2>3 DEF CuckooType
  <2>5. IdlePhase'
    BY <1>1, <1>2, <2>1, <2>2, CuckooParams
       DEF LookupPhase, Job, IdlePhase, NoStash, LookupInStash
  <2>6. CuckooInv'
    BY <1>4, <2>1, <2>4, <2>5 DEF CuckooInv, Phase
  <2>7. stash.op = "INSERT" /\ Absent(tables, stash.key) /\ stash.item.key = stash.key
        /\ stash.key \in Keys
    BY <1>1, <1>5, CuckooParams DEF TimedOut, LookupPhase, Job, JobKnown
  <2>8. {j \in ItemsIn(tables) : j.key = stash.key} = {}
    BY <2>7, ItemsAreInTheirSlots DEF CuckooInv, Absent
  <2>9. Stored = ItemsIn(tables) \cup {stash.item}
    <3>1. InHand = {stash.item}
      BY <1>1, <2>7 DEF InHand
    <3> QED BY <2>7, <2>8, <3>1, StoredWithHand
  <2>10. Stored' = ItemsIn(tables)
    <3>1. InHand' = {}
      BY <2>1 DEF InHand
    <3> QED BY <1>2, <3>1 DEF Stored, ItemsIn
  <2>11. stash.item \notin ItemsIn(tables)
    BY <2>7, <2>8
  <2>12. Stored' = Stored \ {answer'.item} /\ answer'.item \in Stored
    BY <2>1, <2>9, <2>10, <2>11
  <2>13. MapStep
    BY <1>1, <2>1, <2>12 DEF MapStep
  <2> QED BY <2>6, <2>13 DEF GoodStep
<1>6. CASE TimedOut /\ ~rd
  <2>1. fsm' = fsm /\ stash' = stash /\ Engines(FALSE, FALSE) /\ answer' = NoAnswer
    BY <1>6
  <2>2. pipe' = pipe /\ res_vld' \in BOOLEAN /\ (res_vld' => pipe' # <<>>)
    BY <1>3, <2>1, NoEngines DEF CuckooType
  <2>3. CuckooType'
    BY <1>2, <1>3, <2>1, <2>2 DEF CuckooType
  <2>4. LookupPhase'
    BY <1>1, <1>2, <2>1, <2>2 DEF LookupPhase, Job, JobKnown
  <2>5. CuckooInv'
    BY <1>1, <1>4, <2>1, <2>3, <2>4 DEF CuckooInv, Phase
  <2>6. Stored' = Stored
    BY <1>2, <2>1 DEF Stored, InHand
  <2>7. MapStep
    BY <1>1, <2>1, <2>6 DEF MapStep, NoAnswer
  <2> QED BY <2>5, <2>7 DEF GoodStep
<1>7. CASE ~TimedOut
  <2>1. fsm' = (IF TablesRd THEN "lookupResWaitRd" ELSE fsm) /\ stash' = stash
        /\ Engines(TablesRd, FALSE) /\ answer' = NoAnswer
    BY <1>7
  <2>2. Job /\ JobKnown /\ pipe = <<>>
    BY <1>1 DEF LookupPhase
  <2>3. pipe' \in Seq(Results) /\ res_vld' \in BOOLEAN /\ (res_vld' => pipe' # <<>>)
    <3>1. stash.key \in Keys /\ Tidy(tables)
      BY <2>2 DEF Job, CuckooInv
    <3> QED BY <1>3, <2>1, <3>1, EnginesKeep DEF CuckooType
  <2>4. CuckooType'
    BY <1>1, <1>2, <1>3, <2>1, <2>3 DEF CuckooType
  <2>5. Job' /\ JobKnown'
    BY <1>2, <2>1, <2>2 DEF Job, JobKnown
  <2>6. Phase'
    <3>1. CASE TablesRd
      <4>1. pipe' = <<>> \o <<LookupResult(stash.key)>>
        BY <2>1, <2>2, <3>1 DEF Engines
      <4>2. pipe' = <<LookupResult(stash.key)>>
        BY <4>1
      <4>3. LookedUp' /\ Current(pipe[1])'
        BY <1>2, <2>1, <4>2 DEF LookedUp, Current, LookupResult, InSlot
      <4> QED BY <1>4, <2>1, <2>5, <3>1, <4>3 DEF Phase, WaitPhase
    <3>2. CASE ~TablesRd
      <4>1. pipe' = <<>> \o <<>>
        BY <2>1, <2>2, <3>2 DEF Engines
      <4>2. pipe' = <<>>
        BY <4>1
      <4> QED BY <1>1, <1>4, <2>1, <2>5, <3>2, <4>2 DEF Phase, LookupPhase
    <3> QED BY <3>1, <3>2
  <2>7. CuckooInv'
    BY <1>4, <2>4, <2>6 DEF CuckooInv
  <2>8. Stored' = Stored
    BY <1>1, <1>2, <2>1 DEF Stored, InHand
  <2>9. MapStep
    BY <1>1, <2>1, <2>8 DEF MapStep, NoAnswer
  <2> QED BY <2>7, <2>9 DEF GoodStep
<1> QED BY <1>5, <1>6, <1>7

\* What the result says, in terms of the tables.
LEMMA ResultTold ==
    ASSUME NEW res \in Results, Current(res)
    PROVE  /\ Found(res) = {t \in Tables : Holds(tables, t, res.key)}
           /\ Empty(res) = {t \in Tables : InSlot(tables, t, res.key) = NoItem}
BY DEF Current, Found, Empty, Holds

LEMMA OneResult ==
    ASSUME pipe \in Seq(Results), Len(pipe) = 1
    PROVE  /\ pipe # <<>> /\ Head(pipe) = pipe[1] /\ pipe[1] \in Results
           /\ Tail(pipe) = <<>>
<1>1. pipe # <<>>
  BY EmptySeq
<1>2. Head(pipe) = pipe[1] /\ Tail(pipe) \in Seq(Results) /\ Len(Tail(pipe)) = 0
  BY <1>1, HeadTailProperties
<1>3. Tail(pipe) = <<>>
  BY <1>2, EmptySeq
<1>4. pipe[1] \in Results
  BY ElementOfSeq
<1> QED BY <1>1, <1>2, <1>3, <1>4

LEMMA WaitStep ==
    ASSUME CuckooInv, LookupResWaitRd
    PROVE  GoodStep
<1> USE DEF LookupResWaitRd
<1>1. fsm = "lookupResWaitRd" /\ WaitPhase /\ cleanupAddr = 0
  BY DEF CuckooInv, Phase
<1>2. UNCHANGED <<stash, cleanupAddr, lookup_in_progress, tables>> /\ answer' = NoAnswer
  OBVIOUS
<1>3. CuckooType /\ Tidy(tables)
  BY DEF CuckooInv
<1>4. pipe' = pipe /\ res_vld' \in BOOLEAN /\ (res_vld' => pipe' # <<>>)
  BY <1>3, NoEngines DEF CuckooType
<1>5. Tidy(tables)' /\ cleanupAddr' = 0 /\ cleanupAddr' \in Slots
  BY <1>1, <1>2, <1>3 DEF CuckooType
<1>6. fsm' \in {"lookupResWaitRd", "lookupResAck"}
  BY <1>1
<1>7. MapStep
  <2>1. Stored' = Stored
    BY <1>1, <1>2, <1>6 DEF Stored, InHand
  <2> QED BY <1>1, <1>2, <2>1 DEF MapStep, NoAnswer
<1>8. CASE ~res_vld
  <2>1. UNCHANGED <<insertTargetOH, insertFinal, fsm>>
    BY <1>8
  <2>2. CuckooType' /\ Selected'
    BY <1>2, <1>3, <1>4, <1>5, <2>1 DEF CuckooInv, CuckooType, Selected
  <2>3. WaitPhase'
    BY <1>1, <1>2, <1>4 DEF WaitPhase, Job, JobKnown, LookedUp, Current
  <2> QED BY <1>1, <1>5, <1>7, <2>1, <2>2, <2>3 DEF CuckooInv, Phase, GoodStep
<1>9. CASE res_vld
  <2> DEFINE res == Head(pipe)
             k == stash.key
  <2>1. /\ insertTargetOH' = NextTarget(res) /\ insertFinal' = NextFinal(res)
        /\ fsm' = "lookupResAck"
    BY <1>9
  <2>2. res = pipe[1] /\ res \in Results /\ Current(res) /\ res.key = k /\ k \in Keys
    <3>1. pipe \in Seq(Results) /\ Len(pipe) = 1
      BY <1>1, <1>3 DEF WaitPhase, LookedUp, CuckooType
    <3>2. Current(pipe[1]) /\ pipe[1].key = k /\ k \in Keys
      BY <1>1 DEF WaitPhase, Job, LookedUp
    <3> QED BY <3>1, <3>2, OneResult
  <2> HIDE DEF res
  <2>3. /\ Found(res) = {t \in Tables : Holds(tables, t, k)}
        /\ Empty(res) = {t \in Tables : InSlot(tables, t, k) = NoItem}
    BY <2>2, ResultTold
  <2>4. \A t \in Tables : res.items[t] = InSlot(tables, t, k)
    BY <2>2 DEF Current
  <2>5. Found(res) = {} => Absent(tables, k) /\ stash.op # "DELETE"
    BY <1>1, <2>3 DEF Absent, WaitPhase, JobKnown
  <2>6. \E t \in Tables : Target(t)'
    <3>1. CASE Found(res) # {}
      <4>1. PICK t \in Tables : Holds(tables, t, k)
        BY <2>3, <3>1
      <4>2. Found(res) = {t}
        BY <1>3, <2>2, <2>3, <4>1, OneHolder
      <4>3. insertTargetOH' = {t} /\ insertFinal'
        BY <2>1, <3>1, <4>2 DEF NextTarget, NextFinal
      <4>4. \A u \in Tables : u # t => ~Holds(tables, u, k)
        BY <2>3, <4>2
      <4>5. Target(t)'
        BY <1>2, <4>1, <4>3, <4>4 DEF Target
      <4> QED BY <4>5
    <3>2. CASE Found(res) = {} /\ Empty(res) # {}
      <4>1. PICK t : t = First(Empty(res)) /\ t \in Empty(res)
        BY <2>3, <3>2, FirstOf
      <4>2. insertTargetOH' = {t} /\ insertFinal'
        BY <2>1, <3>2, <4>1 DEF NextTarget, NextFinal
      <4>3. t \in Tables /\ InSlot(tables, t, k) = NoItem
        BY <2>3, <4>1
      <4>4. Target(t)'
        BY <1>2, <2>5, <3>2, <4>2, <4>3 DEF Target, Absent
      <4> QED BY <4>3, <4>4
    <3>3. CASE Found(res) = {} /\ Empty(res) = {}
      <4>1. insertTargetOH' = (IF insertTargetOH # {}
                               THEN {(t + TABLE_CNT - 1) % TABLE_CNT : t \in insertTargetOH}
                               ELSE {TABLE_CNT - 1})
            /\ ~insertFinal'
        BY <2>1, <3>3 DEF NextTarget, NextFinal
      <4>2. TABLE_CNT - 1 \in Tables
        BY CuckooParams DEF Tables
      <4>3. insertTargetOH = {} \/ \E t \in Tables : insertTargetOH = {t}
        <5>1. InSlot(tables, TABLE_CNT - 1, k) # NoItem
          BY <2>3, <3>3, <4>2
        <5>2. Hash[TABLE_CNT - 1][k] \in Slots
          BY <2>2, <4>2, HashType
        <5> QED BY <4>2, <5>1, <5>2 DEF CuckooInv, Selected, InSlot
      <4>4. \E t \in Tables : insertTargetOH' = {t}
        <5>1. CASE insertTargetOH = {}
          BY <4>1, <4>2, <5>1
        <5>2. CASE insertTargetOH # {}
          <6>1. PICK u \in Tables : insertTargetOH = {u}
            BY <4>3, <5>2
          <6>2. insertTargetOH' = {(u + TABLE_CNT - 1) % TABLE_CNT}
            BY <4>1, <5>2, <6>1
          <6>3. (u + TABLE_CNT - 1) % TABLE_CNT \in Tables
            BY CuckooParams DEF Tables
          <6> QED BY <6>2, <6>3
        <5> QED BY <5>1, <5>2
      <4>5. PICK t \in Tables : insertTargetOH' = {t}
        BY <4>4
      <4>6. InSlot(tables, t, k) # NoItem
        BY <2>3, <3>3
      <4>7. Target(t)'
        BY <1>2, <1>4, <2>2, <2>4, <2>5, <3>3, <4>1, <4>5, <4>6 DEF Target, Absent
      <4> QED BY <4>7
    <3> QED BY <3>1, <3>2, <3>3
  <2>7. PICK t \in Tables : Target(t)'
    BY <2>6
  <2>8. insertTargetOH' = {t}
    BY <2>7 DEF Target
  <2>9. CuckooType' /\ Selected'
    <3>1. insertFinal' \in BOOLEAN
      BY <2>1 DEF NextFinal
    <3> QED BY <1>2, <1>3, <1>4, <1>5, <2>1, <2>8, <3>1 DEF CuckooType, Selected
  <2>10. AckPhase'
    <3>1. Job' /\ LookedUp'
      BY <1>1, <1>2, <1>4 DEF WaitPhase, Job, LookedUp
    <3> QED BY <2>7, <3>1 DEF AckPhase
  <2> QED BY <1>5, <1>7, <2>1, <2>9, <2>10 DEF CuckooInv, Phase, GoodStep
<1> QED BY <1>8, <1>9

\* With tables that take every write.
LEMMA AckStep ==
    ASSUME CuckooInv, NEW rd, LookupResAck(TRUE, rd)
    PROVE  GoodStep
<1> USE DEF LookupResAck
<1>1. fsm = "lookupResAck" /\ Job /\ LookedUp /\ cleanupAddr = 0
  BY DEF CuckooInv, Phase, AckPhase
<1>2. PICK t \in Tables : Target(t)
  BY <1>1 DEF CuckooInv, Phase, AckPhase
<1>3. CuckooType /\ Tidy(tables)
  BY DEF CuckooInv
<1> DEFINE k == stash.key
           h == Hash[t][k]
           old == InSlot(tables, t, k)
           isDelete == stash.op # "INSERT"
           done == isDelete \/ (insertFinal /\ rd)
           next == done \/ ~insertFinal
<1>4. insertTargetOH = {t} /\ First(insertTargetOH) = t /\ Head(pipe) = pipe[1] /\ pipe[1].key = k
  BY <1>1, <1>2, <1>3, FirstOfOne DEF Target, LookedUp, CuckooType
<1>5. /\ tables' = Written({t}, h, stash.item)
      /\ fsm' = IF done THEN "idle" ELSE IF next THEN "lookup" ELSE fsm
      /\ stash' = IF done THEN NoStash ELSE IF next THEN NextStashOfAck ELSE stash
      /\ answer' = IF done /\ ~isDelete
                    THEN [port |-> "insertRes", pop |-> FALSE, item |-> stash.item] ELSE NoAnswer
      /\ Engines(FALSE, next)
      /\ UNCHANGED <<insertTargetOH, insertFinal, cleanupAddr, lookup_in_progress>>
  BY <1>4
<1>6. k \in Keys /\ stash.op \in {"INSERT", "DELETE"} /\ stash.item \in Items \cup {NoItem}
      /\ (~isDelete => stash.item \in Items /\ stash.item.key = k)
      /\ (isDelete => stash.item = NoItem) /\ lookup_in_progress = 0
  BY <1>1, CuckooParams DEF Job
<1>7. stash.item # NoItem <=> ~isDelete
  BY <1>6, CuckooParams
<1>8. tables' = Put(tables, t, k, stash.item)
  BY <1>5 DEF Written, Put
<1>9. \A u \in Tables : u # t => ~Holds(tables, u, k)
  BY <1>2 DEF Target
<1>10. Tidy(tables)'
  BY <1>3, <1>6, <1>7, <1>8, <1>9, PutTidy
<1>11. ItemsIn(tables)' = (ItemsIn(tables) \ {old}) \cup ({stash.item} \ {NoItem})
  <2>1. ItemsIn(tables)' = ItemsIn(tables')
    BY DEF ItemsIn
  <2> QED BY <1>3, <1>6, <1>8, <2>1, PutItems
<1>12. \A u \in Tables, s \in Slots :
           tables'[u][s] = IF u = t /\ s = h THEN stash.item ELSE tables[u][s]
  BY <1>3, <1>6, <1>8, PutPoint DEF Tidy
<1>13. pipe' \in Seq(Results) /\ res_vld' \in BOOLEAN /\ (res_vld' => pipe' # <<>>)
  <2>1. pipe # <<>>
    BY <1>1, <1>3, OneResult DEF LookedUp, CuckooType
  <2>2. Engines(FALSE, next)
    BY <1>5
  <2>3. pipe \in Seq(Results) /\ res_vld \in BOOLEAN /\ (res_vld => pipe # <<>>)
    BY <1>3 DEF CuckooType
  <2> HIDE DEF next, done
  <2> QED BY <1>3, <2>1, <2>2, <2>3, EnginesKeep
<1>14. IF next THEN pipe' = <<>> ELSE pipe' = pipe
  <2>1. pipe \in Seq(Results) /\ Len(pipe) = 1
    BY <1>1, <1>3 DEF LookedUp, CuckooType
  <2>2. CASE next
    <3>1. pipe' = Tail(pipe) \o <<>>
      BY <1>5, <2>2 DEF Engines
    <3>2. pipe' = <<>>
      BY <2>1, <3>1, OneResult
    <3> QED BY <2>2, <3>2
  <2>3. CASE ~next
    BY <1>3, <1>5, <2>3, NoEngines DEF CuckooType
  <2> QED BY <2>2, <2>3
<1>15. Selected' /\ cleanupAddr' = 0 /\ cleanupAddr' \in Slots
  BY <1>1, <1>3, <1>4, <1>5 DEF Selected, CuckooType
<1>16. {j \in ItemsIn(tables) : j.key = k} = IF Holds(tables, t, k) THEN {old} ELSE {}
  <2>1. {j \in ItemsIn(tables) : j.key = k}
           = {InSlot(tables, u, k) : u \in {v \in Tables : Holds(tables, v, k)}}
    BY <1>3, <1>6, ItemsAreInTheirSlots
  <2> QED BY <1>9, <2>1
<1>17. Stored = IF isDelete THEN ItemsIn(tables)
                ELSE {j \in ItemsIn(tables) : j.key # k} \cup {stash.item}
  <2>1. InHand = IF isDelete THEN {} ELSE {stash.item}
    BY <1>1 DEF InHand
  <2>2. CASE isDelete
    BY <2>1, <2>2 DEF Stored, ItemsIn
  <2>3. CASE ~isDelete
    BY <1>6, <2>1, <2>3, StoredWithHand
  <2> QED BY <2>2, <2>3
<1> HIDE DEF h, old, isDelete, done, next
<1>18. CASE done
  <2>1. fsm' = "idle" /\ stash' = NoStash
    BY <1>5, <1>18
  <2>2. pipe' = <<>>
    BY <1>14, <1>18 DEF next
  <2>3. stash' \in Stashes
    BY <2>1 DEF NoStash, Stashes
  <2>4. CuckooType'
    BY <1>3, <1>5, <1>13, <1>15, <2>1, <2>3 DEF CuckooType
  <2>5. IdlePhase'
    BY <1>5, <1>6, <2>1, <2>2, CuckooParams DEF IdlePhase, NoStash, LookupInStash
  <2>6. CuckooInv'
    BY <1>10, <1>15, <2>1, <2>4, <2>5 DEF CuckooInv, Phase
  <2>7. Stored' = ItemsIn(tables)'
    <3>1. InHand' = {}
      BY <2>1 DEF InHand
    <3> QED BY <3>1 DEF Stored, ItemsIn
  <2>8. CASE isDelete
    <3>1. Holds(tables, t, k) /\ stash.op = "DELETE"
      BY <1>2, <1>6, <2>8 DEF Target, isDelete
    <3>2. ItemsIn(tables)' = {j \in ItemsIn(tables) : j.key # k}
      BY <1>7, <1>11, <1>16, <2>8, <3>1
    <3>3. Stored' = Without(Head(pipe).key)
      BY <1>4, <1>17, <2>7, <2>8, <3>2 DEF Without
    <3>4. MapStep
      BY <1>1, <1>5, <2>1, <2>8, <3>1, <3>3 DEF MapStep, NoAnswer
    <3> QED BY <2>6, <3>4 DEF GoodStep
  <2>9. CASE ~isDelete
    <3>1. insertFinal
      BY <1>18, <2>9 DEF done
    <3>2. old = NoItem \/ Holds(tables, t, k)
      BY <1>2, <3>1 DEF Target, old
    <3>3. ItemsIn(tables) \ {old} = {j \in ItemsIn(tables) : j.key # k}
      <4>1. CASE Holds(tables, t, k)
        BY <1>16, <4>1
      <4>2. CASE ~Holds(tables, t, k)
        BY <1>16, <3>2, <4>2 DEF ItemsIn
      <4> QED BY <4>1, <4>2
    <3>4. Stored' = Stored
      BY <1>7, <1>11, <1>17, <2>7, <2>9, <3>3
    <3>5. answer' = [port |-> "insertRes", pop |-> FALSE, item |-> stash.item]
      BY <1>5, <1>18, <2>9
    <3>6. stash.item \in Stored /\ stash.op = "INSERT"
      BY <1>17, <2>9 DEF isDelete
    <3>7. MapStep
      BY <1>1, <3>4, <3>5, <3>6 DEF MapStep
    <3> QED BY <2>6, <3>7 DEF GoodStep
  <2> QED BY <2>8, <2>9
<1>19. CASE ~done /\ next
  <2>1. ~isDelete /\ ~insertFinal /\ stash.op = "INSERT"
    BY <1>19 DEF done, next, isDelete
  <2>2. fsm' = "lookup" /\ stash' = NextStashOfAck /\ answer' = NoAnswer /\ pipe' = <<>>
    BY <1>5, <1>14, <1>19
  <2>3. old # NoItem /\ ~Holds(tables, t, k) /\ pipe[1].items[t] = old
    BY <1>2, <2>1 DEF Target, old
  <2>4. stash' = [stash EXCEPT !.item = old, !.key = old.key, !.reinsert_cntr = @ - 1]
    BY <1>4, <2>2, <2>3 DEF NextStashOfAck, Displaced
  <2>5. old \in Items /\ old.key \in Keys /\ old \in ItemsIn(tables)
    <3>1. Hash[t][k] \in Slots
      BY <1>6, HashType
    <3>2. tables[t][Hash[t][k]] \in Items \cup {NoItem}
      BY <1>3, <3>1 DEF Tidy, Places
    <3> QED BY <2>3, <3>1, <3>2 DEF old, InSlot, Items, ItemsIn
  <2>6. /\ stash' \in Stashes /\ stash'.op = "INSERT" /\ stash'.item = old
        /\ stash'.key = old.key
    <3>1. stash \in Stashes
      BY <1>3 DEF CuckooType
    <3>2. stash.reinsert_cntr - 1 \in Int
      BY <3>1 DEF Stashes
    <3>3. stash' = [stash EXCEPT !.item = old, !.key = old.key,
                                 !.reinsert_cntr = stash.reinsert_cntr - 1]
      BY <2>4
    <3> HIDE DEF k
    <3> QED BY <2>1, <2>5, <3>1, <3>2, <3>3 DEF Stashes
  <2>7. old.key # k
    BY <2>3 DEF Holds, old
  <2>8. {j \in ItemsIn(tables) : j.key = old.key} = {old}
    <3>1. \A j \in ItemsIn(tables) : j.key = old.key => j = old
      <4> SUFFICES ASSUME NEW j \in ItemsIn(tables), j.key = old.key PROVE j = old
        OBVIOUS
      <4>1. PICK u \in Tables, s \in Slots : j = tables[u][s] /\ j # NoItem
        BY DEF ItemsIn
      <4>2. h \in Slots /\ old = tables[t][h]
        BY <1>6, HashType DEF h, old, InSlot
      <4>3. u = t /\ Hash[t][old.key] = s /\ Hash[t][old.key] = h
        BY <1>3, <2>3, <4>1, <4>2 DEF Tidy
      <4> QED BY <4>1, <4>2, <4>3
    <3> QED BY <2>5, <3>1
  <2>9. Absent(tables', old.key)
    <3> SUFFICES ASSUME NEW u \in Tables, Holds(tables', u, old.key)
                 PROVE  FALSE
      BY DEF Absent
    <3>2. InSlot(tables', u, old.key) \in ItemsIn(tables')
      <4>1. PICK key \in Keys : key = old.key
        BY <2>5
      <4>2. Holds(tables', u, key)
        BY <4>1
      <4>3. InSlot(tables', u, key) \in ItemsIn(tables')
        BY <4>2, HeldIsIn
      <4> QED BY <4>1, <4>3
    <3>3. ItemsIn(tables') = (ItemsIn(tables) \ {old}) \cup ({stash.item} \ {NoItem})
      BY <1>11 DEF ItemsIn
    <3> DEFINE j == InSlot(tables', u, old.key)
    <3>4. j.key = old.key
      BY DEF Holds
    <3> HIDE DEF j
    <3>5. j \in ItemsIn(tables) \ {old} \/ j = stash.item
      BY <3>2, <3>3 DEF j
    <3> QED BY <1>6, <2>1, <2>7, <2>8, <3>4, <3>5
  <2>10. LookupPhase'
    <3>1. Job'
      BY <1>5, <1>6, <2>5, <2>6 DEF Job
    <3>2. JobKnown'
      BY <2>6, <2>9 DEF JobKnown
    <3> QED BY <2>2, <3>1, <3>2 DEF LookupPhase
  <2>11. CuckooType'
    BY <1>3, <1>5, <1>13, <1>15, <2>2, <2>6 DEF CuckooType
  <2>12. CuckooInv'
    BY <1>10, <1>15, <2>2, <2>10, <2>11 DEF CuckooInv, Phase
  <2>13. Stored' = {j \in ItemsIn(tables)' : j.key # old.key} \cup {old}
    <3>1. InHand' = {old}
      BY <2>2, <2>6 DEF InHand
    <3> QED BY <3>1 DEF Stored, ItemsIn
  <2>14. Stored' = Stored
    <3>1. Stored = ItemsIn(tables) \cup {stash.item}
      BY <1>16, <1>17, <2>1, <2>3
    <3>2. ItemsIn(tables)' = (ItemsIn(tables) \ {old}) \cup {stash.item}
      BY <1>7, <1>11, <2>1
    <3>3. stash.item.key = k
      BY <1>6, <2>1
    <3>4. {j \in ItemsIn(tables)' : j.key # old.key} = (ItemsIn(tables) \ {old}) \cup {stash.item}
      BY <2>7, <2>8, <3>2, <3>3
    <3> QED BY <2>5, <2>13, <3>1, <3>4
  <2>15. MapStep
    BY <1>1, <2>1, <2>2, <2>14 DEF MapStep, NoAnswer
  <2> QED BY <2>12, <2>15 DEF GoodStep
<1>20. CASE ~next
  <2>1. ~isDelete /\ insertFinal /\ ~done /\ stash.op = "INSERT"
    BY <1>20 DEF done, next, isDelete
  <2>2. fsm' = fsm /\ stash' = stash /\ answer' = NoAnswer /\ pipe' = pipe
    BY <1>5, <1>14, <1>20, <2>1
  <2>3. CuckooType'
    BY <1>3, <1>5, <1>13, <1>15, <2>2 DEF CuckooType
  <2>4. Target(t)'
    <3>1. \A u \in Tables : InSlot(tables', u, k) = IF u = t THEN stash.item ELSE InSlot(tables, u, k)
      <4>1. \A u \in Tables : Hash[u][k] \in Slots
        BY <1>6, HashType
      <4> QED BY <1>12, <4>1 DEF InSlot, h
    <3>2. \A u \in Tables : u # t => ~Holds(tables', u, k)
      BY <1>9, <3>1 DEF Holds
    <3>3. Holds(tables', t, k)
      BY <1>6, <1>7, <2>1, <3>1 DEF Holds
    <3> QED BY <1>4, <1>5, <2>1, <2>2, <3>2, <3>3 DEF Target
  <2>5. AckPhase'
    <3>1. Job' /\ LookedUp'
      BY <1>1, <1>5, <2>2 DEF Job, LookedUp
    <3> QED BY <2>4, <3>1 DEF AckPhase
  <2>6. CuckooInv'
    BY <1>1, <1>10, <1>15, <2>2, <2>3, <2>5 DEF CuckooInv, Phase
  <2>7. old = NoItem \/ Holds(tables, t, k)
    BY <1>2, <2>1 DEF Target, old
  <2>8. ItemsIn(tables) \ {old} = {j \in ItemsIn(tables) : j.key # k}
    <3>1. CASE Holds(tables, t, k)
      BY <1>16, <3>1
    <3>2. CASE ~Holds(tables, t, k)
      BY <1>16, <2>7, <3>2 DEF ItemsIn
    <3> QED BY <3>1, <3>2
  <2>9. ItemsIn(tables)' = {j \in ItemsIn(tables) : j.key # k} \cup {stash.item}
    BY <1>7, <1>11, <2>1, <2>8
  <2>10. Stored' = {j \in ItemsIn(tables)' : j.key # k} \cup {stash.item}
    <3>1. InHand' = {stash.item}
      BY <1>1, <2>1, <2>2 DEF InHand
    <3>2. Stored' = {j \in ItemsIn(tables)' : j.key # stash.item.key} \cup {stash.item}
      BY <3>1 DEF Stored, ItemsIn
    <3> QED BY <1>6, <2>1, <3>2
  <2>11. Stored' = Stored
    BY <1>17, <2>1, <2>9, <2>10
  <2>12. MapStep
    BY <1>1, <2>1, <2>2, <2>11 DEF MapStep, NoAnswer
  <2> QED BY <2>6, <2>12 DEF GoodStep
<1> QED BY <1>18, <1>19, <1>20

\* In idle the lookups go through the engines.
LEMMA IdlePipe ==
    ASSUME CuckooInv, IdlePhase, NEW send, NEW pop, Engines(send, pop),
           send => stash.op = "LOOKUP" /\ TablesRd, pop => res_vld, UNCHANGED tables
    PROVE  /\ pipe' \in Seq(Results) /\ res_vld' \in BOOLEAN /\ (res_vld' => pipe' # <<>>)
           /\ Len(pipe) \in Nat
           /\ pop => Len(pipe) >= 1
           /\ Len(pipe') = Len(pipe) - (IF pop THEN 1 ELSE 0) + (IF send THEN 1 ELSE 0)
           /\ Len(pipe') <= PIPE
           /\ \A i \in 1 .. Len(pipe') : Current(pipe'[i])
<1>1. pipe \in Seq(Results) /\ res_vld \in BOOLEAN /\ (res_vld => pipe # <<>>) /\ Tidy(tables)
  BY DEF CuckooInv, CuckooType
<1>2. send => stash.key \in Keys
  BY DEF IdlePhase
<1>3. pipe' \in Seq(Results) /\ res_vld' \in BOOLEAN /\ (res_vld' => pipe' # <<>>)
  BY <1>1, <1>2, EnginesKeep
<1> DEFINE a == IF pop THEN Tail(pipe) ELSE pipe
           b == IF send THEN <<LookupResult(stash.key)>> ELSE <<>>
<1>4. pipe' = a \o b
  BY DEF Engines
<1>5. Len(pipe) \in Nat /\ (pop => Len(pipe) >= 1)
  BY <1>1, LenProperties, EmptySeq
<1>6. a \in Seq(Results) /\ Len(a) = Len(pipe) - (IF pop THEN 1 ELSE 0)
      /\ \A i \in 1 .. Len(a) : Current(a[i])
  <2>1. CASE pop
    <3>1. pipe # <<>>
      BY <1>1, <2>1
    <3>2. /\ Tail(pipe) \in Seq(Results) /\ Len(Tail(pipe)) = Len(pipe) - 1
          /\ \A i \in 1 .. Len(Tail(pipe)) : Tail(pipe)[i] = pipe[i + 1]
      BY <1>1, <3>1, HeadTailProperties
    <3>3. \A i \in 1 .. Len(Tail(pipe)) : Current(Tail(pipe)[i])
      <4> SUFFICES ASSUME NEW i \in 1 .. Len(Tail(pipe)) PROVE Current(Tail(pipe)[i])
        OBVIOUS
      <4>1. i + 1 \in 1 .. Len(pipe)
        BY <1>5, <2>1, <3>2
      <4>2. Current(pipe[i + 1])
        BY <4>1 DEF IdlePhase
      <4> QED BY <3>2, <4>2
    <3> QED BY <2>1, <3>2, <3>3
  <2>2. CASE ~pop
    BY <1>1, <1>5, <2>2 DEF IdlePhase
  <2> QED BY <2>1, <2>2
<1>7. b \in Seq(Results) /\ Len(b) = (IF send THEN 1 ELSE 0)
      /\ \A i \in 1 .. Len(b) : Current(b[i])
  <2>1. CASE send
    <3>1. LookupResult(stash.key) \in Results
      <4>1. \A t \in Tables : tables[t][Hash[t][stash.key]] \in Items \cup {NoItem}
        BY <1>1, <1>2, <2>1, HashType DEF Tidy, Places
      <4> QED BY <1>2, <2>1, <4>1 DEF LookupResult, Results
    <3>2. Current(LookupResult(stash.key))
      BY DEF Current, LookupResult, InSlot
    <3> QED BY <2>1, <3>1, <3>2
  <2>2. CASE ~send
    BY <2>2, EmptySeq
  <2> QED BY <2>1, <2>2
<1> HIDE DEF a, b
<1>8. /\ Len(a \o b) = Len(a) + Len(b)
      /\ \A i \in 1 .. Len(a) + Len(b) :
             (a \o b)[i] = IF i <= Len(a) THEN a[i] ELSE b[i - Len(a)]
  BY <1>6, <1>7, ConcatProperties
<1>9. Len(pipe') = Len(pipe) - (IF pop THEN 1 ELSE 0) + (IF send THEN 1 ELSE 0)
  BY <1>4, <1>5, <1>6, <1>7, <1>8
<1>10. Len(pipe') <= PIPE
  <2>1. send => Len(pipe) < PIPE
    BY DEF TablesRd
  <2>2. Len(pipe) <= PIPE
    BY DEF IdlePhase
  <2> QED BY <1>5, <1>9, <2>1, <2>2, CuckooParams
<1>11. \A i \in 1 .. Len(pipe') : Current(pipe'[i])
  <2> SUFFICES ASSUME NEW i \in 1 .. Len(pipe') PROVE Current(pipe'[i])
    OBVIOUS
  <2>1. Len(a) \in Nat /\ Len(b) \in Nat
    BY <1>6, <1>7, LenProperties
  <2>2. CASE i <= Len(a)
    <3>1. i \in 1 .. Len(a) /\ pipe'[i] = a[i]
      BY <1>4, <1>8, <2>1, <2>2
    <3> QED BY <1>6, <3>1
  <2>3. CASE ~(i <= Len(a))
    <3>1. i - Len(a) \in 1 .. Len(b) /\ pipe'[i] = b[i - Len(a)]
      BY <1>4, <1>8, <2>1, <2>3
    <3> QED BY <1>7, <3>1
  <2> QED BY <2>2, <2>3
<1> QED BY <1>3, <1>5, <1>9, <1>10, <1>11

LEMMA AnswerIsStored ==
    ASSUME CuckooInv, IdlePhase, pipe # <<>>
    PROVE  LookupAnswer.items = {i \in ItemsIn(tables) : i.key = LookupAnswer.key}
<1>1. pipe \in Seq(Results) /\ Tidy(tables)
  BY DEF CuckooInv, CuckooType
<1>2. PICK res : res = Head(pipe)
  OBVIOUS
<1>3. res = pipe[1] /\ 1 \in 1 .. Len(pipe)
  BY <1>1, <1>2, HeadTailProperties, LenProperties, EmptySeq
<1>4. res \in Results /\ Current(res)
  BY <1>1, <1>3, ElementOfSeq DEF IdlePhase
<1>5. res.key \in Keys
  BY <1>4 DEF Results
<1>6. Found(res) = {t \in Tables : Holds(tables, t, res.key)}
  BY <1>4, ResultTold
<1>7. {res.items[t] : t \in Found(res)} = {InSlot(tables, t, res.key) : t \in Found(res)}
  BY <1>4, <1>6 DEF Current
<1>8. {i \in ItemsIn(tables) : i.key = res.key} = {InSlot(tables, t, res.key) : t \in Found(res)}
  BY <1>1, <1>5, <1>6, ItemsAreInTheirSlots
<1>9. LookupAnswer.items = {res.items[t] : t \in Found(res)} /\ LookupAnswer.key = res.key
  BY <1>2 DEF LookupAnswer
<1> QED BY <1>7, <1>8, <1>9

\* n lookups are in the engines, s in the stash, and c is counted; then n2, s2 and c2.
CountStep(n, s, c, pop, send, take, n2, s2, c2) ==
    /\ n \in Nat /\ s \in {0, 1} /\ n2 \in Nat /\ s2 \in {0, 1}
    /\ c = n + s
    /\ pop => n >= 1
    /\ n2 + s2 = n + s - (IF pop THEN 1 ELSE 0) + (IF take THEN 1 ELSE 0)
    /\ n <= PIPE /\ n2 <= PIPE
    /\ MAX_LOOKUP_OVERLAP - 1 < CounterSize => c <= MAX_LOOKUP_OVERLAP - 1
    /\ take => c # MAX_LOOKUP_OVERLAP - 1
    /\ c2 = IF take <=> pop THEN c
            ELSE IF pop THEN (c + CounterSize - 1) % CounterSize
            ELSE (c + 1) % CounterSize

\* The counter of the lookups under way does not overflow.
LEMMA LookupsCounted ==
    ASSUME NEW n, NEW s, NEW c, NEW pop, NEW send, NEW take, NEW n2, NEW s2, NEW c2,
           CountStep(n, s, c, pop, send, take, n2, s2, c2)
    PROVE  /\ c2 = n2 + s2
           /\ MAX_LOOKUP_OVERLAP - 1 < CounterSize => c2 <= MAX_LOOKUP_OVERLAP - 1
<1> USE DEF CountStep
<1> USE CuckooParams
<1>1. CASE take <=> pop
  BY <1>1
<1>2. CASE pop /\ ~take
  <2>1. c - 1 \in 0 .. CounterSize - 1
    BY <1>2
  <2>2. (c + CounterSize - 1) % CounterSize = c - 1
    BY <2>1
  <2> QED BY <1>2, <2>2
<1>3. CASE ~pop /\ take
  <2>1. c + 1 \in 0 .. CounterSize - 1
    BY <1>3
  <2>2. (c + 1) % CounterSize = c + 1
    BY <2>1
  <2> QED BY <1>3, <2>2
<1> QED BY <1>1, <1>2, <1>3

LEMMA IdleStep ==
    ASSUME CuckooInv, ~DELETE_ABSENT, NEW cmd \in Commands, NEW rd, Idle(cmd, rd)
    PROVE  GoodStep
<1> DEFINE send == stash.op = "LOOKUP" /\ TablesRd
           pop == res_vld /\ rd
<1>1. /\ fsm = "idle" /\ CmdRd(cmd) /\ stash' = NextStash(cmd)
      /\ fsm' = CASE cmd.port = "clean" -> "cleaning"
                  [] cmd.port \in {"insert", "delete"} -> "lookup"
                  [] OTHER -> "idle"
      /\ lookup_in_progress' =
            IF (cmd.port = "lookup") = pop THEN lookup_in_progress
            ELSE IF pop THEN (lookup_in_progress + CounterSize - 1) % CounterSize
            ELSE (lookup_in_progress + 1) % CounterSize
      /\ Engines(send, pop)
      /\ answer' = (IF pop THEN LookupAnswer ELSE NoAnswer)
      /\ UNCHANGED <<insertTargetOH, insertFinal, cleanupAddr, tables>>
  BY DEF Idle
<1>2. CuckooType /\ Tidy(tables) /\ IdlePhase /\ cleanupAddr = 0
  BY <1>1 DEF CuckooInv, Phase
<1>3. /\ pipe' \in Seq(Results) /\ res_vld' \in BOOLEAN /\ (res_vld' => pipe' # <<>>)
      /\ Len(pipe) \in Nat
      /\ pop => Len(pipe) >= 1
      /\ Len(pipe') = Len(pipe) - (IF pop THEN 1 ELSE 0) + (IF send THEN 1 ELSE 0)
      /\ Len(pipe') <= PIPE
      /\ \A i \in 1 .. Len(pipe') : Current(pipe'[i])
  BY <1>1, <1>2, IdlePipe
<1>4. Tidy(tables)' /\ Selected' /\ cleanupAddr' = 0 /\ cleanupAddr' \in Slots
      /\ insertTargetOH' \in SUBSET Tables /\ insertFinal' \in BOOLEAN
  BY <1>1, <1>2 DEF CuckooInv, Selected, CuckooType
<1>5. Stored = ItemsIn(tables)
  <2>1. InHand = {}
    BY <1>1 DEF InHand
  <2> QED BY <2>1, LoneStored
<1>6. /\ answer'.port # "insertRes"
      /\ answer'.port = "lookupRes" => answer'.items = {i \in Stored : i.key = answer'.key}
  <2>1. CASE pop
    <3>1. pipe # <<>>
      BY <1>2, <2>1 DEF CuckooType
    <3>2. LookupAnswer.items = {i \in ItemsIn(tables) : i.key = LookupAnswer.key}
      BY <1>2, <3>1, AnswerIsStored
    <3>3. LookupAnswer.port = "lookupRes"
      BY DEF LookupAnswer
    <3> QED BY <1>1, <1>5, <2>1, <3>2, <3>3
  <2>2. CASE ~pop
    BY <1>1, <2>2 DEF NoAnswer
  <2> QED BY <2>1, <2>2
<1>7. lookup_in_progress = Len(pipe) + LookupInStash /\ LookupInStash \in {0, 1}
      /\ Len(pipe) <= PIPE
      /\ (MAX_LOOKUP_OVERLAP - 1 < CounterSize => lookup_in_progress <= MAX_LOOKUP_OVERLAP - 1)
  BY <1>2 DEF IdlePhase, LookupInStash
<1>8. NoStash \in Stashes
  BY DEF Stashes, NoStash
<1>9. ASSUME NEW k \in Keys PROVE [NoStash EXCEPT !.op = "LOOKUP", !.key = k] \in Stashes
  BY <1>8 DEF Stashes
<1>10. CASE cmd.port = "none" \/ cmd.port = "lookup"
  <2> DEFINE take == cmd.port = "lookup"
  <2>1. fsm' = "idle"
    BY <1>1, <1>10
  <2>2. take => cmd.key \in Keys
    BY DEF Commands
  <2>3. stash' = IF take THEN [NoStash EXCEPT !.op = "LOOKUP", !.key = cmd.key]
                 ELSE IF TablesRd THEN NoStash ELSE stash
    BY <1>1, <1>10 DEF NextStash
  <2>4. stash' \in Stashes
    BY <1>2, <1>8, <1>9, <2>2, <2>3 DEF CuckooType
  <2>5. stash'.op # "INSERT" /\ (stash'.op = "LOOKUP" => stash'.key \in Keys)
        /\ (stash'.op = "LOOKUP" <=> take \/ (~TablesRd /\ stash.op = "LOOKUP"))
    BY <1>2, <2>2, <2>3 DEF IdlePhase, NoStash
  <2>6. take => lookup_in_progress # MAX_LOOKUP_OVERLAP - 1
                /\ (stash.op # "LOOKUP" \/ TablesRd)
    BY <1>1 DEF CmdRd
  <2>7. LookupInStash' \in {0, 1} /\ Len(pipe') \in Nat
        /\ Len(pipe') + LookupInStash'
             = Len(pipe) + LookupInStash - (IF pop THEN 1 ELSE 0) + (IF take THEN 1 ELSE 0)
    <3>1. LookupInStash' = IF stash'.op = "LOOKUP" THEN 1 ELSE 0
      BY DEF LookupInStash
    <3>2. Len(pipe') \in Nat
      BY <1>3, LenProperties
    <3> HIDE DEF pop
    <3>3. LookupInStash' = IF take \/ (~TablesRd /\ stash.op = "LOOKUP") THEN 1 ELSE 0
      BY <2>5, <3>1
    <3>4. CASE take
      <4>1. LookupInStash' = 1 /\ LookupInStash = (IF send THEN 1 ELSE 0)
        BY <2>6, <3>3, <3>4 DEF LookupInStash
      <4> HIDE DEF send, take
      <4> QED BY <1>3, <3>2, <3>4, <4>1
    <3>5. CASE ~take /\ TablesRd
      <4>1. LookupInStash' = 0 /\ LookupInStash = (IF send THEN 1 ELSE 0)
        BY <3>3, <3>5 DEF LookupInStash
      <4> HIDE DEF send, take
      <4> QED BY <1>3, <3>2, <3>5, <4>1
    <3>6. CASE ~take /\ ~TablesRd
      <4>1. LookupInStash' = LookupInStash /\ ~send /\ LookupInStash \in {0, 1}
        BY <3>3, <3>6 DEF LookupInStash
      <4> HIDE DEF send, take
      <4> QED BY <1>3, <3>2, <3>6, <4>1
    <3> QED BY <3>4, <3>5, <3>6
  <2>8. /\ lookup_in_progress' = Len(pipe') + LookupInStash'
        /\ MAX_LOOKUP_OVERLAP - 1 < CounterSize => lookup_in_progress' <= MAX_LOOKUP_OVERLAP - 1
    <3>1. lookup_in_progress' =
            IF take <=> pop THEN lookup_in_progress
            ELSE IF pop THEN (lookup_in_progress + CounterSize - 1) % CounterSize
            ELSE (lookup_in_progress + 1) % CounterSize
      <4>1. pop \in BOOLEAN \/ pop \notin BOOLEAN
        OBVIOUS
      <4> QED BY <1>1
    <3> HIDE DEF pop, send, take
    <3>2. CountStep(Len(pipe), LookupInStash, lookup_in_progress, pop, send, take,
                    Len(pipe'), LookupInStash', lookup_in_progress')
      BY <1>3, <1>7, <2>6, <2>7, <3>1 DEF CountStep
    <3> QED BY <3>2, LookupsCounted
  <2>9. IdlePhase'
    <3>1. \A i \in 1 .. Len(pipe') : Current(pipe[i])'
      BY <1>1, <1>3 DEF Current
    <3> QED BY <1>3, <2>5, <2>8, <3>1 DEF IdlePhase
  <2>10. CuckooType'
    BY <1>3, <1>4, <2>1, <2>4 DEF CuckooType
  <2>11. CuckooInv'
    BY <1>4, <2>1, <2>9, <2>10 DEF CuckooInv, Phase
  <2>12. Stored' = Stored
    <3>1. InHand' = {}
      BY <2>1 DEF InHand
    <3> QED BY <1>1, <1>5, <3>1 DEF Stored, ItemsIn
  <2>13. MapStep
    BY <1>1, <1>6, <2>5, <2>12 DEF MapStep
  <2> QED BY <2>11, <2>13 DEF GoodStep
<1>11. CASE cmd.port \in {"clean", "insert", "delete"}
  <2>1. LookupNotInProgress
    BY <1>1, <1>11 DEF CmdRd
  <2>2. stash.op # "LOOKUP" /\ Len(pipe) = 0 /\ lookup_in_progress = 0
    BY <1>3, <1>7, <2>1 DEF LookupNotInProgress, LookupInStash
  <2>3. pipe = <<>> /\ ~pop /\ ~send
    BY <1>2, <2>2, EmptySeq DEF CuckooType
  <2>4. pipe' = <<>> /\ lookup_in_progress' = 0
    <3>1. Len(pipe') = 0
      BY <1>3, <2>2, <2>3
    <3>2. pipe' = <<>>
      BY <1>3, <3>1, EmptySeq
    <3>3. (cmd.port = "lookup") = pop
      BY <1>11, <2>3
    <3>4. lookup_in_progress' = lookup_in_progress
      BY <1>1, <3>3
    <3> QED BY <2>2, <3>2, <3>4
  <2>5. CASE cmd.port = "clean"
    <3>1. fsm' = "cleaning" /\ stash' = NoStash
      BY <1>1, <2>5 DEF NextStash
    <3>2. CuckooType'
      BY <1>3, <1>4, <1>8, <3>1 DEF CuckooType
    <3>3. CleanPhase'
      BY <1>4, <2>4, <3>1 DEF CleanPhase, NoStash, Slots
    <3>4. CuckooInv'
      BY <1>4, <3>1, <3>2, <3>3 DEF CuckooInv, Phase
    <3>5. Stored' = Stored
      <4>1. InHand' = {}
        BY <3>1 DEF InHand, NoStash
      <4> QED BY <1>1, <1>5, <4>1 DEF Stored, ItemsIn
    <3>6. MapStep
      BY <1>1, <1>6, <3>1, <3>5 DEF MapStep, NoStash
    <3> QED BY <3>4, <3>6 DEF GoodStep
  <2>6. CASE cmd.port = "delete"
    <3>1. fsm' = "lookup" /\ stash' = [NoStash EXCEPT !.key = cmd.key]
      BY <1>1, <2>6 DEF NextStash
    <3>2. PICK i \in ItemsIn(tables) : cmd.key = i.key
      BY <1>5, <2>6 DEF Commands
    <3>3. cmd.key \in Keys
      BY <1>2, <3>2, ItemsHaveKeys DEF Tidy
    <3>4. ~Absent(tables, cmd.key)
      BY <1>2, <3>2, <3>3, ItemsAreInTheirSlots DEF Absent
    <3>5. stash' \in Stashes /\ stash'.op = "DELETE" /\ stash'.key = cmd.key /\ stash'.item = NoItem
      BY <3>1, <3>3 DEF Stashes, NoStash
    <3>6. CuckooType'
      BY <1>3, <1>4, <3>1, <3>5 DEF CuckooType
    <3>7. LookupPhase'
      BY <1>1, <2>4, <3>3, <3>4, <3>5 DEF LookupPhase, Job, JobKnown
    <3>8. CuckooInv'
      BY <1>4, <3>1, <3>6, <3>7 DEF CuckooInv, Phase
    <3>9. Stored' = Stored
      <4>1. InHand' = {}
        BY <3>5 DEF InHand
      <4> QED BY <1>1, <1>5, <4>1 DEF Stored, ItemsIn
    <3>10. MapStep
      BY <1>1, <1>6, <3>1, <3>5, <3>9 DEF MapStep
    <3> QED BY <3>8, <3>10 DEF GoodStep
  <2>7. CASE cmd.port = "insert"
    <3>1. fsm' = "lookup"
          /\ stash' = [op |-> "INSERT", item |-> [key |-> cmd.key, data |-> cmd.data],
                       key |-> cmd.key, reinsert_cntr |-> MAX_REINSERT]
      BY <1>1, <2>7 DEF NextStash
    <3>2. cmd.key \in Keys /\ cmd.data \in TableData
      BY <2>7 DEF Commands
    <3>3. /\ stash' \in Stashes /\ stash'.op = "INSERT" /\ stash'.key = cmd.key
          /\ stash'.item \in Items /\ stash'.item.key = stash'.key
          /\ stash'.reinsert_cntr = MAX_REINSERT
      BY <3>1, <3>2, CuckooParams DEF Stashes, Items
    <3>4. CuckooType'
      BY <1>3, <1>4, <3>1, <3>3 DEF CuckooType
    <3>5. LookupPhase'
      BY <1>1, <2>4, <3>2, <3>3 DEF LookupPhase, Job, JobKnown
    <3>6. CuckooInv'
      BY <1>4, <3>1, <3>4, <3>5 DEF CuckooInv, Phase
    <3>7. Stored' = {j \in ItemsIn(tables) : j.key # stash'.key} \cup {stash'.item}
      <4>1. InHand' = {stash'.item}
        BY <3>1, <3>3 DEF InHand
      <4>2. Stored' = {j \in ItemsIn(tables)' : j.key # stash'.item.key} \cup {stash'.item}
        BY <4>1 DEF Stored, ItemsIn
      <4> QED BY <1>1, <3>3, <4>2 DEF ItemsIn
    <3>8. MapStep
      BY <1>1, <1>5, <1>6, <3>3, <3>7 DEF MapStep
    <3> QED BY <3>6, <3>8 DEF GoodStep
  <2> QED BY <1>11, <2>5, <2>6, <2>7
<1>12. cmd.port \in {"none", "lookup", "clean", "insert", "delete"}
  BY DEF Commands
<1> QED BY <1>10, <1>11, <1>12

LEMMA UnchangedStep ==
    ASSUME CuckooInv, UNCHANGED cuckooVars
    PROVE  CuckooInv'
BY DEF CuckooInv, cuckooVars, CuckooType, Selected, Phase, IdlePhase, CleanPhase, LookupPhase,
       WaitPhase, AckPhase, LookupInStash, Job, JobKnown, LookedUp, Target, Current

\* CuckooHashTable is a map, for every number of tables and slots and every hash function: an
\* insert that moves other items around loses and doubles none of them, a delete removes its key
\* only, an item leaves only through insertRes, and a lookup that overlaps with others is
\* answered with what is stored.  The tables take every write at once, as the engines do, and
\* only keys that are in the table are deleted.
THEOREM MapStaysAMap ==
    ASSUME ~DELETE_ABSENT, ~TABLES_STALL
    PROVE  CuckooSpec => MapIsKept
<1>1. CuckooInit => CuckooInv
  BY CuckooStarts
<1>2. CuckooInv /\ [CuckooNext]_cuckooVars => CuckooInv' /\ [MapStep]_cuckooVars
  <2> SUFFICES ASSUME CuckooInv, [CuckooNext]_cuckooVars
               PROVE  CuckooInv' /\ [MapStep]_cuckooVars
    OBVIOUS
  <2>1. CASE UNCHANGED cuckooVars
    BY <2>1, UnchangedStep
  <2>2. ASSUME NEW rd \in BOOLEAN, NEW ins_rd \in InsRd, CuckooStep(rd, ins_rd)
        PROVE  GoodStep
    <3>1. ins_rd = TRUE
      BY DEF InsRd
    <3>2. CASE \E cmd \in Commands : Idle(cmd, rd)
      BY <3>2, IdleStep
    <3>3. CASE Cleaning(ins_rd)
      BY <3>3, CleanStep
    <3>4. CASE LookupForInsert(rd)
      BY <3>4, LookupStep
    <3>5. CASE LookupResWaitRd
      BY <3>5, WaitStep
    <3>6. CASE LookupResAck(ins_rd, rd)
      BY <3>1, <3>6, AckStep
    <3> QED BY <2>2, <3>2, <3>3, <3>4, <3>5, <3>6 DEF CuckooStep
  <2> QED BY <2>1, <2>2 DEF CuckooNext, GoodStep
<1> QED BY <1>1, <1>2, PTL DEF CuckooSpec, MapIsKept

---------------------------------------------------------------------------
(* The components of StructManipulators.  First the fifos in them: the words of a fifo, the *)
(* oldest first, and what a clock does to them.                                             *)

LEMMA ConsTail ==
    ASSUME NEW S, NEW x \in S, NEW seq \in Seq(S)
    PROVE  /\ <<x>> \o seq \in Seq(S) /\ <<x>> \o seq # <<>>
           /\ (<<x>> \o seq)[1] = x /\ Tail(<<x>> \o seq) = seq
<1> DEFINE all == <<x>> \o seq
<1>. PICK n \in Nat : n = Len(seq)
  BY LenProperties
<1>1. <<x>> \in Seq(S) /\ Len(<<x>>) = 1 /\ <<x>>[1] = x
  OBVIOUS
<1>2. /\ all \in Seq(S) /\ Len(all) = 1 + n
      /\ \A i \in 1 .. 1 + n : all[i] = IF i <= 1 THEN <<x>>[i] ELSE seq[i - 1]
  BY <1>1, ConcatProperties
<1> HIDE DEF all
<1>3. all # <<>>
  <2>1. Len(<<>>) = 0
    BY EmptySeq
  <2>2. 1 + n # 0
    OBVIOUS
  <2> QED BY <1>2, <2>1, <2>2
<1>4. all[1] = x
  <2>1. 1 \in 1 .. 1 + n
    OBVIOUS
  <2> QED BY <1>1, <1>2, <2>1
<1>5. Tail(all) = seq
  <2>1. /\ Tail(all) \in Seq(S) /\ Len(Tail(all)) = Len(all) - 1
        /\ \A i \in 1 .. Len(Tail(all)) : Tail(all)[i] = all[i + 1]
    BY <1>2, <1>3, HeadTailProperties
  <2>2. Len(Tail(all)) = n
    BY <1>2, <2>1
  <2>3. \A i \in 1 .. n : Tail(all)[i] = seq[i]
    <3> SUFFICES ASSUME NEW i \in 1 .. n PROVE Tail(all)[i] = seq[i]
      OBVIOUS
    <3>1. i + 1 \in 1 .. 1 + n /\ ~(i + 1 <= 1) /\ (i + 1) - 1 = i
      OBVIOUS
    <3> QED BY <1>2, <2>1, <2>2, <3>1
  <2> QED BY <2>1, <2>2, <2>3, SeqEqual
<1> QED BY <1>2, <1>3, <1>4, <1>5 DEF all

LEMMA HeadThenTail ==
    ASSUME NEW S, NEW seq \in Seq(S), seq # <<>>
    PROVE  seq[1] \in S /\ Tail(seq) \in Seq(S) /\ <<seq[1]>> \o Tail(seq) = seq
<1> DEFINE x == seq[1]
           rest == Tail(seq)
           all == <<x>> \o rest
<1>. PICK n \in Nat : Len(seq) = n + 1
  <2>1. Len(seq) \in Nat \ {0}
    BY EmptySeq
  <2>2. Len(seq) - 1 \in Nat /\ Len(seq) = (Len(seq) - 1) + 1
    BY <2>1
  <2> QED BY <2>2
<1>1. x \in S
  <2>1. 1 \in 1 .. n + 1
    OBVIOUS
  <2> QED BY <2>1, ElementOfSeq
<1>2. /\ rest \in Seq(S) /\ Len(rest) = Len(seq) - 1
      /\ \A i \in 1 .. Len(rest) : rest[i] = seq[i + 1]
  BY HeadTailProperties
<1>3. Len(rest) = n
  BY <1>2
<1>4. <<x>> \in Seq(S) /\ Len(<<x>>) = 1 /\ <<x>>[1] = x
  BY <1>1
<1> HIDE DEF x, rest
<1>5. /\ all \in Seq(S) /\ Len(all) = 1 + n
      /\ \A i \in 1 .. 1 + n : all[i] = IF i <= 1 THEN <<x>>[i] ELSE rest[i - 1]
  BY <1>2, <1>3, <1>4, ConcatProperties
<1> HIDE DEF all
<1>6. ASSUME NEW i \in 1 .. 1 + n
      PROVE  all[i] = seq[i]
  <2>1. CASE i = 1
    BY <1>4, <1>5, <2>1 DEF x
  <2>2. CASE i # 1
    <3>1. i - 1 \in 1 .. n /\ ~(i <= 1) /\ (i - 1) + 1 = i
      BY <2>2
    <3> QED BY <1>2, <1>3, <1>5, <3>1
  <2> QED BY <2>1, <2>2
<1>7. 1 + n = n + 1
  OBVIOUS
<1>8. all = seq
  BY <1>5, <1>6, <1>7, SeqEqual
<1> QED BY <1>1, <1>2, <1>8 DEF all, x, rest

\* The words of a fifo, the one at its output first.
Waiting(f) == f.out \o f.ring
FifoOk(f, S) ==
    /\ f = [ring |-> f.ring, out |-> f.out]
    /\ f.ring \in Seq(S) /\ (f.out = <<>> \/ \E x \in S : f.out = <<x>>)

Pops(f, takes) == f.out # <<>> /\ takes

LEMMA FifoWords ==
    ASSUME NEW S, NEW f, FifoOk(f, S)
    PROVE  /\ Waiting(f) \in Seq(S) /\ FifoSize(f) = Len(Waiting(f)) /\ f.ring \in Seq(S)
           /\ f.out # <<>> => Waiting(f) # <<>> /\ f.out[1] = Waiting(f)[1] /\ f.out[1] \in S
                              /\ FifoSize(f) = Len(f.ring) + 1
           /\ f.out = <<>> => FifoSize(f) = Len(f.ring)
<1>. DEFINE ring == f.ring
<1>1. ring \in Seq(S)
  BY DEF FifoOk
<1>. PICK n \in Nat : n = Len(ring)
  BY <1>1, LenProperties
<1>2. CASE f.out = <<>>
  <2>1. Waiting(f) = ring
    BY <1>1, <1>2, ConcatEmptySeq DEF Waiting
  <2>2. Len(<<>>) = 0 /\ n + 0 = n
    BY EmptySeq
  <2>3. FifoSize(f) = n
    BY <1>2, <2>2 DEF FifoSize
  <2> QED BY <1>1, <1>2, <2>1, <2>3
<1>3. ASSUME NEW x \in S, f.out = <<x>>
      PROVE  /\ Waiting(f) \in Seq(S) /\ FifoSize(f) = Len(Waiting(f))
             /\ Waiting(f) # <<>> /\ f.out[1] = Waiting(f)[1] /\ f.out[1] \in S /\ f.out # <<>>
             /\ FifoSize(f) = Len(ring) + 1
  <2> HIDE DEF ring
  <2>1. Waiting(f) = <<x>> \o ring
    BY <1>3 DEF Waiting, ring
  <2>2. <<x>> \in Seq(S) /\ Len(<<x>>) = 1 /\ <<x>>[1] = x /\ <<x>> # <<>>
    OBVIOUS
  <2>3. Len(<<x>> \o ring) = 1 + n
    BY <1>1, <2>2, ConcatProperties
  <2>4. FifoSize(f) = n + 1
    BY <1>3, <2>2 DEF FifoSize, ring
  <2>5. n + 1 = 1 + n
    OBVIOUS
  <2> QED BY <1>1, <1>3, <2>1, <2>2, <2>3, <2>4, <2>5, ConsTail
<1> QED BY <1>1, <1>2, <1>3 DEF FifoOk

\* A word leaves in front and a word comes behind the others.
LEMMA FifoStepWords ==
    ASSUME NEW S, NEW f, FifoOk(f, S), NEW in \in Seq(S), NEW takes
    PROVE  /\ FifoOk(FifoStep(f, in, takes), S)
           /\ Waiting(FifoStep(f, in, takes)) =
                 (IF Pops(f, takes) THEN Tail(Waiting(f)) ELSE Waiting(f)) \o in
           /\ Len(FifoStep(f, in, takes).ring) <= Len(f.ring) + Len(in)
<1> DEFINE g == FifoStep(f, in, takes)
           ring == f.ring
<1>1. ring \in Seq(S) /\ <<>> \in Seq(S)
  BY EmptySeq DEF FifoOk
<1>. PICK n \in Nat, m \in Nat : n = Len(ring) /\ m = Len(in)
  BY <1>1, LenProperties
<1>2. CASE f.out # <<>> /\ ~takes
  <2>. PICK x \in S : f.out = <<x>>
    BY <1>2 DEF FifoOk
  <2>1. g = [ring |-> ring \o in, out |-> <<x>>]
    BY <1>2 DEF FifoStep, FifoOk
  <2> HIDE DEF g, ring
  <2>0. Waiting(f) = <<x>> \o ring /\ Waiting(g) = <<x>> \o (ring \o in)
    <3>1. Waiting(f) = <<x>> \o ring
      BY Zenon DEF Waiting, ring
    <3>2. g.out = <<x>> /\ g.ring = ring \o in
      BY <2>1
    <3> QED BY <3>1, <3>2 DEF Waiting
  <2>2. ring \o in \in Seq(S) /\ Len(ring \o in) = n + m
    BY <1>1, ConcatProperties
  <2>3. <<x>> \in Seq(S)
    OBVIOUS
  <2>4. <<x>> \o (ring \o in) = (<<x>> \o ring) \o in
    BY <1>1, <2>3, ConcatAssociative
  <2>5. ~Pops(f, takes)
    BY <1>2 DEF Pops
  <2>6. FifoOk(g, S) /\ g.ring = ring \o in
    BY <2>1, <2>2 DEF FifoOk
  <2>7. n + m <= n + m
    OBVIOUS
  <2> QED BY <2>0, <2>2, <2>4, <2>5, <2>6, <2>7 DEF g, ring
<1>3. CASE ~(f.out # <<>> /\ ~takes) /\ ring = <<>>
  <2>1. g = [ring |-> in, out |-> <<>>]
    BY <1>3 DEF FifoStep
  <2>2. FifoOk(g, S) /\ g.ring = in
    BY <2>1 DEF FifoOk
  <2>3. Waiting(g) = in
    BY <2>1, ConcatEmptySeq DEF Waiting
  <2>4. (IF Pops(f, takes) THEN Tail(Waiting(f)) ELSE Waiting(f)) = <<>>
    <3>1. CASE f.out = <<>>
      <4>1. Waiting(f) = <<>>
        BY <1>1, <1>3, <3>1, ConcatEmptySeq DEF Waiting
      <4> QED BY <3>1, <4>1 DEF Pops
    <3>2. ASSUME NEW x \in S, f.out = <<x>>
          PROVE  Pops(f, takes) /\ Tail(Waiting(f)) = <<>>
      <4>1. <<x>> # <<>>
        OBVIOUS
      <4>2. Waiting(f) = <<x>> \o <<>>
        BY <1>3, <3>2 DEF Waiting
      <4> QED BY <1>1, <1>3, <3>2, <4>1, <4>2, ConsTail DEF Pops
    <3> QED BY <3>1, <3>2 DEF FifoOk
  <2>5. <<>> \o in = in
    BY ConcatEmptySeq
  <2>6. m <= n + m
    OBVIOUS
  <2> QED BY <2>2, <2>3, <2>4, <2>5, <2>6
<1>4. CASE ~(f.out # <<>> /\ ~takes) /\ ring # <<>>
  <2> DEFINE x == ring[1]
             rest == Tail(ring)
  <2>1. x \in S /\ rest \in Seq(S) /\ <<x>> \o rest = ring /\ Len(rest) = n - 1
    BY <1>1, <1>4, HeadThenTail, HeadTailProperties
  <2>. PICK k \in Nat : k = Len(rest)
    BY <2>1, LenProperties
  <2>a. k + m <= n + m
    <3>1. k = n - 1
      BY <2>1
    <3> QED BY <3>1
  <2>2. g = [ring |-> rest \o in, out |-> <<x>>]
    BY <1>4 DEF FifoStep
  <2> HIDE DEF x, rest, g
  <2>3. rest \o in \in Seq(S) /\ Len(rest \o in) = k + m
    BY <2>1, ConcatProperties
  <2>4. FifoOk(g, S) /\ g.ring = rest \o in
    BY <2>1, <2>2, <2>3 DEF FifoOk
  <2>5. <<x>> \in Seq(S)
    BY <2>1
  <2>6. Waiting(g) = ring \o in
    <3>1. Waiting(g) = <<x>> \o (rest \o in)
      BY <2>2 DEF Waiting
    <3>2. <<x>> \o (rest \o in) = (<<x>> \o rest) \o in
      BY <2>1, <2>5, ConcatAssociative
    <3> QED BY <2>1, <3>1, <3>2
  <2>7. (IF Pops(f, takes) THEN Tail(Waiting(f)) ELSE Waiting(f)) = ring
    <3>1. CASE f.out = <<>>
      <4>1. Waiting(f) = ring
        BY <1>1, <3>1, ConcatEmptySeq DEF Waiting
      <4> QED BY <3>1, <4>1 DEF Pops
    <3>2. ASSUME NEW y \in S, f.out = <<y>>
          PROVE  Pops(f, takes) /\ Tail(Waiting(f)) = ring
      <4>1. <<y>> # <<>>
        OBVIOUS
      <4>2. Waiting(f) = <<y>> \o ring
        BY <3>2 DEF Waiting
      <4> QED BY <1>1, <1>4, <3>2, <4>1, <4>2, ConsTail DEF Pops
    <3> QED BY <3>1, <3>2 DEF FifoOk
  <2> QED BY <2>a, <2>3, <2>4, <2>6, <2>7 DEF g
<1> QED BY <1>2, <1>3, <1>4

LEMMA NewFifoOk ==
    ASSUME NEW S
    PROVE  FifoOk(NewFifo, S) /\ Waiting(NewFifo) = <<>> /\ NewFifo.out = <<>> /\ Len(NewFifo.ring) = 0
<1>1. <<>> \in Seq(S) /\ Len(<<>>) = 0
  BY EmptySeq
<1>2. <<>> \o <<>> = <<>>
  BY <1>1, ConcatEmptySeq
<1> QED BY <1>1, <1>2 DEF NewFifo, FifoOk, Waiting

One(register) == IF register = <<>> THEN 0 ELSE 1
AsNumber(condition) == IF condition THEN 1 ELSE 0

\* The word in front leaves if p is 1, and if k is 1 an item comes.
Moved(w, v, n, p, k, item) ==
    \A i \in 1 .. n - p + k : v[i] = IF i <= n - p THEN w[i + p] ELSE item

LEMMA QueueNumbers ==
    ASSUME NEW S, NEW w \in Seq(S), NEW in \in Seq(S), NEW pops, pops => w # <<>>,
           in = <<>> \/ \E x \in S : in = <<x>>
    PROVE  /\ Len(w) \in Nat /\ AsNumber(pops) \in {0, 1} /\ One(in) \in {0, 1} /\ AsNumber(pops) <= Len(w)
           /\ (IF pops THEN Tail(w) ELSE w) \o in \in Seq(S)
           /\ Len((IF pops THEN Tail(w) ELSE w) \o in) = Len(w) - AsNumber(pops) + One(in)
           /\ Moved(w, (IF pops THEN Tail(w) ELSE w) \o in, Len(w), AsNumber(pops), One(in), in[1])
<1> DEFINE rest == IF pops THEN Tail(w) ELSE w
           all == rest \o in
           p == AsNumber(pops)
           k == One(in)
<1>. PICK n \in Nat : n = Len(w)
  BY LenProperties
<1>3. p \in {0, 1} /\ k \in {0, 1} /\ Len(in) = k
  <2>1. Len(<<>>) = 0 /\ \A x \in S : Len(<<x>>) = 1 /\ <<x>> # <<>>
    BY EmptySeq
  <2> QED BY <2>1 DEF AsNumber, One
<1> HIDE DEF k
<1>4. /\ p <= n /\ rest \in Seq(S) /\ Len(rest) = n - p
      /\ \A i \in 1 .. n - p : rest[i] = w[i + p]
  <2>1. CASE pops
    <3>1. /\ Tail(w) \in Seq(S) /\ Len(Tail(w)) = Len(w) - 1
          /\ \A i \in 1 .. Len(Tail(w)) : Tail(w)[i] = w[i + 1]
      BY <2>1, HeadTailProperties
    <3>2. n # 0
      BY <2>1, EmptySeq
    <3>3. Len(Tail(w)) = n - 1
      BY <3>1
    <3> QED BY <2>1, <3>1, <3>2, <3>3 DEF AsNumber
  <2>2. CASE ~pops
    BY <2>2 DEF AsNumber
  <2> QED BY <2>1, <2>2
<1>. PICK r \in Nat : r = n - p
  BY <1>3, <1>4
<1> HIDE DEF p, rest
<1>5. /\ all \in Seq(S) /\ Len(all) = r + k
      /\ \A i \in 1 .. r + k : all[i] = IF i <= r THEN rest[i] ELSE in[i - r]
  BY <1>3, <1>4, ConcatProperties
<1> HIDE DEF all
<1>6. ASSUME NEW i \in 1 .. r + k
      PROVE  all[i] = IF i <= r THEN w[i + p] ELSE in[1]
  <2>1. CASE i <= r
    BY <1>4, <1>5, <2>1
  <2>2. CASE ~(i <= r)
    <3>1. i - r = 1
      BY <1>3, <2>2
    <3> QED BY <1>5, <2>2, <3>1
  <2> QED BY <2>1, <2>2
<1>7. Moved(w, all, n, p, k, in[1])
  BY <1>6 DEF Moved
<1> QED BY <1>3, <1>4, <1>5, <1>7 DEF all, rest, p, k

LEMMA FifoStepNumbers ==
    ASSUME NEW S, NEW f, FifoOk(f, S), NEW in \in Seq(S), NEW takes,
           in = <<>> \/ \E x \in S : in = <<x>>
    PROVE  /\ FifoSize(f) \in Nat /\ AsNumber(Pops(f, takes)) <= FifoSize(f)
           /\ FifoSize(FifoStep(f, in, takes)) = FifoSize(f) - AsNumber(Pops(f, takes)) + One(in)
           /\ Moved(Waiting(f), Waiting(FifoStep(f, in, takes)), FifoSize(f), AsNumber(Pops(f, takes)),
                    One(in), in[1])
<1> DEFINE g == FifoStep(f, in, takes)
           w == Waiting(f)
           pops == Pops(f, takes)
<1>1. w \in Seq(S) /\ FifoSize(f) = Len(w) /\ (pops => w # <<>>)
  BY FifoWords DEF Pops
<1>2. FifoOk(g, S) /\ Waiting(g) = (IF pops THEN Tail(w) ELSE w) \o in /\ FifoSize(g) = Len(Waiting(g))
  BY FifoStepWords, FifoWords
<1> HIDE DEF g, w, pops
<1> QED BY <1>1, <1>2, QueueNumbers DEF g, w, pops

---------------------------------------------------------------------------
(* ArrayBuff_writer.  What waits in its buffer are the items of consecutive slots, from the *)
(* one the burst is at, or the next burst begins at, to the one the producer has next.       *)

UpSlots == 0 .. UP_ITEMS - 1
Wrap(slot) == IF slot >= UP_ITEMS THEN slot - UP_ITEMS ELSE slot

FromSlot(base, words, n, next) ==
    /\ \A i \in 1 .. n : words[i] = Wrap(base + i - 1)
    /\ next = Wrap(base + n)

SendingInv ==
    IF st = "waitOnDataTx"
    THEN \E at \in UpSlots, left \in 1 .. FifoSize(buff) :
            /\ up_burst = <<[at |-> at, left |-> left]>>
            /\ lastWordCntr = left /\ at + left <= UP_ITEMS /\ Wrap(at + left) = buff_offset
            /\ FromSlot(at, Waiting(buff), FifoSize(buff), next_slot)
    ELSE lastWordCntr = 0 /\ FromSlot(buff_offset, Waiting(buff), FifoSize(buff), next_slot)

TimerInv ==
    /\ timeoutCntr \in 0 .. TIMEOUT - 1
    /\ st # "waitOnInput" => timeoutCntr = TIMEOUT - 1
    /\ timeoutCntr = 0 => buff.out # <<>>

NotAcked == IF st = "waitOnInput" THEN 0 ELSE sizeOfitems

OffsetInv ==
    /\ buff_offset \in UpSlots /\ remaining \in 1 .. UP_ITEMS
    /\ buff_offset + remaining = UP_ITEMS
    /\ sizeOfitems \in 0 .. UP_ITEMS /\ uploadedCntr \in UpSlots
    /\ Wrap(uploadedCntr + NotAcked) = buff_offset

UploadInv ==
    /\ st \in {"waitOnInput", "waitOnDataTx", "waitOnAck"}
    /\ FifoOk(buff, UpSlots) /\ Len(buff.ring) <= BUFF_DEPTH - 1
    /\ next_slot \in UpSlots
    /\ OffsetInv /\ TimerInv /\ SendingInv

LEMMA Numbers ==
    /\ UP_ITEMS \in Nat \ {0} /\ BUFF_DEPTH \in Nat \ {0} /\ BUFF_DEPTH <= UP_ITEMS
    /\ TIMEOUT \in Nat /\ TIMEOUT - 1 \in Nat \ {0}
    /\ ITEMS_IN_BLOCK \in Nat /\ BURST_LEN \in Nat \ {0}
    /\ PTR_MOD \in Nat \ {0} /\ BLOCK_MOD \in Nat /\ ITEMS_IN_BLOCK < BLOCK_MOD
<1>1. /\ UP_ITEMS \in Nat /\ BUFF_DEPTH \in Nat /\ TIMEOUT \in Nat /\ ITEMS_IN_BLOCK \in Nat
      /\ BURST_LEN \in Nat /\ PTR_MOD \in Nat /\ BLOCK_MOD \in Nat
  BY StructParams
<1> QED BY <1>1, StructParams

LEMMA WrapIsModulo ==
    ASSUME NEW slot \in 0 .. 2 * UP_ITEMS - 1
    PROVE  slot % UP_ITEMS = Wrap(slot) /\ Wrap(slot) \in UpSlots
<1>1. CASE slot < UP_ITEMS
  BY <1>1, Numbers DEF Wrap, UpSlots
<1>2. CASE slot >= UP_ITEMS
  <2>1. slot = 1 * UP_ITEMS + (slot - UP_ITEMS) /\ slot - UP_ITEMS \in UpSlots
    BY <1>2, Numbers DEF UpSlots
  <2>2. slot % UP_ITEMS = slot - UP_ITEMS
    BY <1>2, <2>1, Numbers DEF UpSlots
  <2> QED BY <1>2, <2>1, <2>2 DEF Wrap
<1> QED BY <1>1, <1>2, Numbers

LEMMA BufferFits ==
    ASSUME NEW f, FifoOk(f, UpSlots), Len(f.ring) <= BUFF_DEPTH - 1
    PROVE  FifoSize(f) \in 0 .. UP_ITEMS
<1>1. Waiting(f) \in Seq(UpSlots) /\ f.ring \in Seq(UpSlots) /\ FifoSize(f) = Len(Waiting(f))
      /\ (FifoSize(f) = Len(f.ring) + 1 \/ FifoSize(f) = Len(f.ring))
  BY FifoWords
<1>2. FifoSize(f) \in Nat /\ Len(f.ring) \in Nat
  BY <1>1, LenProperties
<1> QED BY <1>1, <1>2, Numbers

LEMMA SlotsStep ==
    ASSUME NEW base \in UpSlots, NEW n \in 0 .. UP_ITEMS, NEW w, NEW v, NEW next,
           FromSlot(base, w, n, next), NEW p \in {0, 1}, NEW k \in {0, 1}, p <= n,
           n - p + k <= UP_ITEMS, NEW item, k = 1 => item = next, Moved(w, v, n, p, k, item)
    PROVE  FromSlot(Wrap(base + p), v, n - p + k, Wrap(next + k))
<1> USE DEF FromSlot, Moved
<1>1. ASSUME NEW i \in 1 .. n - p + k
      PROVE  v[i] = Wrap(Wrap(base + p) + i - 1)
  <2>1. CASE i <= n - p
    <3>1. i + p \in 1 .. n /\ v[i] = w[i + p]
      BY <2>1
    <3>2. v[i] = Wrap(base + (i + p) - 1)
      BY <3>1
    <3>3. Wrap(base + (i + p) - 1) = Wrap(Wrap(base + p) + i - 1)
      BY <2>1, Numbers DEF Wrap, UpSlots
    <3> QED BY <3>2, <3>3
  <2>2. CASE ~(i <= n - p)
    <3>1. i = n - p + 1 /\ k = 1 /\ v[i] = item
      BY <2>2
    <3>2. v[i] = Wrap(base + n)
      BY <3>1
    <3>3. Wrap(base + n) = Wrap(Wrap(base + p) + i - 1)
      BY <3>1, Numbers DEF Wrap, UpSlots
    <3> QED BY <3>2, <3>3
  <2> QED BY <2>1, <2>2
<1>2. Wrap(next + k) = Wrap(Wrap(base + p) + (n - p + k))
  BY Numbers DEF Wrap, UpSlots
<1> QED BY <1>1, <1>2

LEMMA UploadStarts ==
    UploadInit => UploadInv
<1> SUFFICES ASSUME UploadInit PROVE UploadInv
  OBVIOUS
<1> USE DEF UploadInit
<1>1. FifoOk(buff, UpSlots) /\ Waiting(buff) = <<>> /\ Len(buff.ring) = 0 /\ FifoSize(buff) = 0
  <2>1. FifoOk(NewFifo, UpSlots) /\ Waiting(NewFifo) = <<>> /\ Len(NewFifo.ring) = 0
    BY NewFifoOk
  <2>2. FifoSize(buff) = Len(Waiting(buff)) /\ Len(<<>>) = 0
    BY <2>1, FifoWords, EmptySeq
  <2> QED BY <2>1, <2>2
<1>2. SendingInv
  BY <1>1, Numbers DEF SendingInv, FromSlot, Wrap
<1>3. OffsetInv /\ TimerInv /\ next_slot \in UpSlots
  BY Numbers DEF OffsetInv, TimerInv, NotAcked, Wrap, UpSlots
<1>4. 0 <= BUFF_DEPTH - 1
  BY Numbers
<1> QED BY <1>1, <1>2, <1>3, <1>4 DEF UploadInv

LEMMA UploadKeepsInv ==
    ASSUME UploadInv, NEW vld \in BOOLEAN, NEW req_rd \in BOOLEAN, NEW w_rd \in BOOLEAN,
           NEW ack \in BOOLEAN, UploadCycle(vld, req_rd, w_rd, ack)
    PROVE  UploadInv'
<1> DEFINE starts == st = "waitOnInput" /\ BeginReq /\ req_rd
           w_ack  == w_rd /\ buff.out # <<>>
           sends  == st = "waitOnDataTx" /\ w_ack
           item   == IF vld /\ FifoRd(buff, BUFF_DEPTH) THEN <<next_slot>> ELSE <<>>
           acked  == st = "waitOnAck" /\ ack
           n == FifoSize(buff)
           m == FifoSize(buff')
           p == AsNumber(sends)
           k == One(item)
           next == next_slot'
           w == Waiting(buff)
           v == Waiting(buff')
<1>1. /\ buff' = FifoStep(buff, item, sends)
      /\ st' = CASE starts -> "waitOnDataTx"
                 [] sends /\ lastWordCntr = 1 -> "waitOnAck"
                 [] acked -> "waitOnInput"
                 [] OTHER -> st
      /\ buff_offset' = IF ~starts THEN buff_offset
                        ELSE IF EndOfLenBlock THEN 0 ELSE buff_offset + n
      /\ remaining' = NextRemaining(starts)
      /\ sizeOfitems' = IF starts THEN SizeTmp ELSE sizeOfitems
      /\ timeoutCntr' = IF starts THEN TIMEOUT - 1
                        ELSE IF ~BeginReq /\ buff.out # <<>> /\ st = "waitOnInput"
                             THEN timeoutCntr - 1 ELSE timeoutCntr
      /\ lastWordCntr' = IF starts THEN SizeTmp
                         ELSE IF lastWordCntr # 0 /\ w_ack THEN lastWordCntr - 1 ELSE lastWordCntr
      /\ uploadedCntr' = IF acked THEN (uploadedCntr + sizeOfitems) % UP_ITEMS ELSE uploadedCntr
      /\ next_slot' = IF item # <<>> THEN (next_slot + 1) % UP_ITEMS ELSE next_slot
      /\ up_burst' = IF starts THEN <<[at |-> buff_offset, left |-> SizeTmp]>>
                     ELSE IF acked THEN <<>>
                     ELSE IF sends
                     THEN <<[at |-> up_burst[1].at + 1, left |-> up_burst[1].left - 1]>>
                     ELSE up_burst
  BY Zenon DEF UploadCycle
<1>2. /\ st \in {"waitOnInput", "waitOnDataTx", "waitOnAck"}
      /\ FifoOk(buff, UpSlots) /\ Len(buff.ring) <= BUFF_DEPTH - 1
      /\ next_slot \in UpSlots
      /\ OffsetInv /\ TimerInv /\ SendingInv
  BY DEF UploadInv
<1>3. n \in 0 .. UP_ITEMS
  BY <1>2, BufferFits
<1>4. /\ item \in Seq(UpSlots) /\ (item = <<>> \/ \E x \in UpSlots : item = <<x>>)
      /\ (item # <<>> => item[1] = next_slot /\ Len(buff.ring) < BUFF_DEPTH - 1 /\ Len(item) = 1)
      /\ (item = <<>> => Len(item) = 0)
  <2>1. <<next_slot>> \in Seq(UpSlots) /\ <<next_slot>>[1] = next_slot /\ Len(<<next_slot>>) = 1
    BY <1>2
  <2>2. <<>> \in Seq(UpSlots) /\ Len(<<>>) = 0
    BY EmptySeq
  <2> QED BY <1>2, <2>1, <2>2 DEF FifoRd
<1>5. k \in {0, 1} /\ p \in {0, 1} /\ (k = 1 => item[1] = next_slot)
      /\ (k = 1 <=> item # <<>>) /\ (p = 1 <=> sends)
  BY <1>4 DEF One, AsNumber
<1>6. Pops(buff, sends) = sends
  BY DEF Pops
<1> HIDE DEF item
<1>7. FifoOk(buff', UpSlots) /\ Len((buff').ring) <= BUFF_DEPTH - 1
  <2>1. /\ FifoOk(FifoStep(buff, item, sends), UpSlots)
        /\ Len(FifoStep(buff, item, sends).ring) <= Len(buff.ring) + Len(item)
    BY <1>2, <1>4, FifoStepWords
  <2>2. Len(buff.ring) \in Nat /\ Len((buff').ring) \in Nat
    <3>1. buff.ring \in Seq(UpSlots) /\ (buff').ring \in Seq(UpSlots)
      BY <1>1, <1>2, <2>1 DEF FifoOk
    <3> QED BY <3>1, LenProperties
  <2>. PICK a \in Nat, b \in Nat : a = Len(buff.ring) /\ b = Len((buff').ring)
    BY <2>2
  <2>3. Len(item) = k
    BY <1>4, <1>5
  <2>4. a + k <= BUFF_DEPTH - 1 /\ b <= a + k
    BY <1>1, <1>2, <1>4, <1>5, <2>1, <2>3, Numbers
  <2>5. b <= BUFF_DEPTH - 1
    BY <1>5, <2>4, Numbers
  <2> QED BY <1>1, <2>1, <2>5
<1>8. m \in 0 .. UP_ITEMS
  BY <1>7, BufferFits
<1>9. p <= n /\ m = n - p + k /\ Moved(w, v, n, p, k, item[1])
  BY <1>1, <1>2, <1>4, <1>6, FifoStepNumbers
<1>10. next = Wrap(next_slot + k) /\ next \in UpSlots
  <2>1. /\ next_slot + 1 \in 0 .. 2 * UP_ITEMS - 1 /\ Wrap(next_slot + 0) = next_slot
        /\ next_slot \in UpSlots
    BY <1>2, Numbers DEF UpSlots, Wrap
  <2>2. (next_slot + 1) % UP_ITEMS = Wrap(next_slot + 1) /\ Wrap(next_slot + 1) \in UpSlots
    BY <2>1, WrapIsModulo
  <2>3. k = 1 => next = (next_slot + 1) % UP_ITEMS
    BY <1>1, <1>5
  <2>4. k = 0 => next = next_slot
    BY <1>1, <1>5
  <2> QED BY <1>5, <2>1, <2>2, <2>3, <2>4
<1>11. ASSUME NEW base \in UpSlots, FromSlot(base, w, n, next_slot)
       PROVE  FromSlot(Wrap(base + p), v, m, next)
  <2> HIDE DEF n, m, p, k, next, w, v
  <2>1. n - p + k <= UP_ITEMS
    BY <1>8, <1>9
  <2>2. FromSlot(Wrap(base + p), v, n - p + k, Wrap(next_slot + k))
    <3>1. /\ n \in 0 .. UP_ITEMS /\ p \in {0, 1} /\ k \in {0, 1} /\ p <= n
          /\ (k = 1 => item[1] = next_slot)
      BY <1>3, <1>5, <1>9
    <3> QED BY <1>9, <1>11, <2>1, <3>1, SlotsStep
  <2> QED BY <1>9, <1>10, <2>2
<1>12. starts => n # 0
  <2>1. SUFFICES ASSUME starts PROVE n # 0
    OBVIOUS
  <2>2. CASE n = BUFF_DEPTH
    BY <2>2, Numbers
  <2>3. CASE timeoutCntr = 0
    <3>1. buff.out # <<>>
      BY <1>2, <2>3 DEF TimerInv
    <3>2. Waiting(buff) \in Seq(UpSlots) /\ Waiting(buff) # <<>> /\ n = Len(Waiting(buff))
      BY <1>2, <3>1, FifoWords
    <3> QED BY <3>2, EmptySeq
  <2> QED BY <2>1, <2>2, <2>3 DEF BeginReq
<1> HIDE DEF n, m, p, k, next, w, v
<1>13. TimerInv'
  <2>1. buff.out # <<>> /\ ~sends => (buff').out # <<>>
    BY <1>1, <1>2 DEF FifoStep, FifoOk
  <2> QED BY <1>1, <1>2, <2>1, Numbers DEF TimerInv, BeginReq
<1>14. starts => /\ SizeTmp \in 1 .. n /\ SizeTmp <= remaining
                 /\ buff_offset' \in UpSlots /\ remaining' \in 1 .. UP_ITEMS
                 /\ buff_offset' + remaining' = UP_ITEMS
                 /\ Wrap(buff_offset + SizeTmp) = buff_offset'
  <2> SUFFICES ASSUME starts
               PROVE  /\ SizeTmp \in 1 .. n /\ SizeTmp <= remaining
                      /\ buff_offset' \in UpSlots /\ remaining' \in 1 .. UP_ITEMS
                      /\ buff_offset' + remaining' = UP_ITEMS
                      /\ Wrap(buff_offset + SizeTmp) = buff_offset'
    OBVIOUS
  <2>1. /\ buff_offset \in UpSlots /\ remaining \in 1 .. UP_ITEMS /\ n \in 1 .. UP_ITEMS
        /\ buff_offset + remaining = UP_ITEMS
    BY <1>2, <1>3, <1>12 DEF OffsetInv
  <2>2. CASE remaining <= n
    <3>1. SizeTmp = remaining /\ buff_offset' = 0 /\ remaining' = UP_ITEMS
      BY <1>1, <2>2 DEF SizeTmp, EndOfLenBlock, NextRemaining, n
    <3>2. Wrap(UP_ITEMS) = 0 /\ 0 \in UpSlots /\ UP_ITEMS \in 1 .. UP_ITEMS /\ 0 + UP_ITEMS = UP_ITEMS
      BY Numbers DEF Wrap, UpSlots
    <3>3. remaining \in 1 .. n /\ remaining <= remaining
      BY <2>1, <2>2
    <3> QED BY <2>1, <3>1, <3>2, <3>3
  <2>3. CASE ~(remaining <= n)
    <3>1. SizeTmp = n /\ buff_offset' = buff_offset + n /\ remaining' = remaining - n
      BY <1>1, <2>3 DEF SizeTmp, EndOfLenBlock, NextRemaining, n
    <3>2. n \in 1 .. n /\ n <= remaining
      BY <2>1, <2>3
    <3>3. /\ buff_offset + n \in UpSlots /\ remaining - n \in 1 .. UP_ITEMS
          /\ (buff_offset + n) + (remaining - n) = UP_ITEMS /\ Wrap(buff_offset + n) = buff_offset + n
      BY <2>1, <2>3, Numbers DEF Wrap, UpSlots
    <3> QED BY <3>1, <3>2, <3>3
  <2> QED BY <2>2, <2>3
<1>15. OffsetInv'
  <2>1. CASE starts
    <3>1. uploadedCntr = buff_offset /\ uploadedCntr' = uploadedCntr
      <4>1. uploadedCntr \in UpSlots /\ Wrap(uploadedCntr + 0) = buff_offset
        BY <1>2, <2>1 DEF OffsetInv, NotAcked
      <4>2. Wrap(uploadedCntr + 0) = uploadedCntr
        BY <4>1, Numbers DEF Wrap, UpSlots
      <4>3. ~acked
        BY <2>1
      <4> QED BY <1>1, <4>1, <4>2, <4>3
    <3>2. st' = "waitOnDataTx" /\ sizeOfitems' = SizeTmp
      BY <1>1, <2>1
    <3>3. SizeTmp \in 0 .. UP_ITEMS
      BY <1>2, <1>14, <2>1, Numbers DEF OffsetInv
    <3> QED BY <1>2, <1>14, <2>1, <3>1, <3>2, <3>3 DEF OffsetInv, NotAcked
  <2>2. CASE acked
    <3>1. ~starts /\ st' = "waitOnInput" /\ NotAcked = sizeOfitems /\ (NotAcked)' = 0
      BY <1>1, <2>2 DEF NotAcked
    <3>2. uploadedCntr + sizeOfitems \in 0 .. 2 * UP_ITEMS - 1
      BY <1>2, Numbers DEF OffsetInv, UpSlots
    <3>3. uploadedCntr' = buff_offset
      BY <1>1, <1>2, <2>2, <3>1, <3>2, WrapIsModulo DEF OffsetInv
    <3>4. Wrap(buff_offset + 0) = buff_offset
      BY <1>2, Numbers DEF OffsetInv, Wrap, UpSlots
    <3> QED BY <1>1, <1>2, <3>1, <3>3, <3>4 DEF OffsetInv, NextRemaining
  <2>3. CASE ~starts /\ ~acked
    <3>1. (NotAcked)' = NotAcked
      BY <1>1, <1>2, <2>3 DEF NotAcked
    <3> QED BY <1>1, <1>2, <2>3, <3>1 DEF OffsetInv, NextRemaining
  <2> QED BY <2>1, <2>2, <2>3
<1>16. SendingInv'
  <2>1. CASE starts
    <3>1. FromSlot(buff_offset, w, n, next_slot) /\ lastWordCntr = 0 /\ buff_offset \in UpSlots
      BY <1>2, <2>1 DEF SendingInv, w, n, OffsetInv
    <3>2. p = 0 /\ Wrap(buff_offset + 0) = buff_offset
      <4>1. p = 0
        BY <2>1 DEF p, AsNumber
      <4>2. Wrap(buff_offset + 0) = buff_offset
        BY <3>1, Numbers DEF Wrap, UpSlots
      <4> QED BY <4>1, <4>2
    <3>3. FromSlot(buff_offset, v, m, next)
      BY <1>11, <3>1, <3>2
    <3>4. /\ st' = "waitOnDataTx" /\ up_burst' = <<[at |-> buff_offset, left |-> SizeTmp]>>
          /\ lastWordCntr' = SizeTmp
      BY <1>1, <2>1
    <3>5. SizeTmp \in 1 .. m /\ buff_offset + SizeTmp <= UP_ITEMS
      <4>1. /\ SizeTmp \in 1 .. n /\ SizeTmp <= remaining
            /\ buff_offset \in UpSlots /\ remaining \in 1 .. UP_ITEMS
            /\ buff_offset + remaining = UP_ITEMS
        BY <1>2, <1>14, <2>1 DEF OffsetInv
      <4> HIDE DEF starts
      <4>2. m = n + k
        BY <1>3, <1>5, <1>9, <3>2
      <4> QED BY <1>3, <1>5, <4>1, <4>2, Numbers DEF UpSlots
    <3> QED BY <1>14, <2>1, <3>1, <3>3, <3>4, <3>5 DEF SendingInv, v, m, next
  <2>2. CASE ~starts /\ st # "waitOnDataTx"
    <3>1. /\ FromSlot(buff_offset, w, n, next_slot) /\ lastWordCntr = 0 /\ buff_offset \in UpSlots
          /\ lastWordCntr' = 0 /\ buff_offset' = buff_offset /\ st' # "waitOnDataTx"
      BY <1>1, <1>2, <2>2 DEF SendingInv, w, n, OffsetInv
    <3>2. p = 0 /\ Wrap(buff_offset + 0) = buff_offset
      <4>1. p = 0
        BY <2>2 DEF p, AsNumber
      <4>2. Wrap(buff_offset + 0) = buff_offset
        BY <3>1, Numbers DEF Wrap, UpSlots
      <4> QED BY <4>1, <4>2
    <3>3. FromSlot(buff_offset, v, m, next)
      BY <1>11, <3>1, <3>2
    <3> QED BY <3>1, <3>3 DEF SendingInv, v, m, next
  <2>3. CASE st = "waitOnDataTx"
    <3>. PICK at \in UpSlots, left \in 1 .. n :
            /\ up_burst = <<[at |-> at, left |-> left]>>
            /\ lastWordCntr = left /\ at + left <= UP_ITEMS /\ Wrap(at + left) = buff_offset
            /\ FromSlot(at, w, n, next_slot)
      BY <1>2, <2>3 DEF SendingInv, w, n
    <3>1. FromSlot(Wrap(at + p), v, m, next) /\ buff_offset' = buff_offset
      BY <1>1, <1>11, <2>3
    <3>2. CASE sends /\ left = 1
      <4>1. st' # "waitOnDataTx" /\ lastWordCntr' = 0 /\ p = 1
        BY <1>1, <1>5, <2>3, <3>2, Numbers
      <4> QED BY <3>1, <3>2, <4>1 DEF SendingInv, v, m, next
    <3>3. CASE sends /\ left # 1
      <4>1. /\ st' = "waitOnDataTx" /\ lastWordCntr' = left - 1 /\ p = 1
            /\ up_burst' = <<[at |-> at + 1, left |-> left - 1]>>
        BY <1>1, <1>3, <1>5, <2>3, <3>3
      <4>2. /\ at + 1 \in UpSlots /\ left - 1 \in 1 .. m /\ Wrap(at + 1) = at + 1
            /\ (at + 1) + (left - 1) = at + left
        BY <1>3, <1>5, <1>8, <1>9, <3>3, <4>1, Numbers DEF UpSlots, Wrap
      <4> QED BY <3>1, <4>1, <4>2 DEF SendingInv, v, m, next
    <3>4. CASE ~sends
      <4>1. st' = "waitOnDataTx" /\ lastWordCntr' = left /\ p = 0 /\ up_burst' = up_burst
        BY <1>1, <1>5, <2>3, <3>4
      <4>2. left \in 1 .. m /\ Wrap(at + 0) = at
        BY <1>3, <1>5, <1>8, <1>9, <4>1, Numbers DEF UpSlots, Wrap
      <4> QED BY <3>1, <4>1, <4>2 DEF SendingInv, v, m, next
    <3> QED BY <3>2, <3>3, <3>4
  <2> QED BY <2>1, <2>2, <2>3
<1>17. st' \in {"waitOnInput", "waitOnDataTx", "waitOnAck"}
  BY <1>1, <1>2
<1> QED BY <1>7, <1>10, <1>13, <1>15, <1>16, <1>17 DEF UploadInv, next

LEMMA ItemsFollow ==
    UploadInv => ItemsGoToTheirSlots
<1> SUFFICES ASSUME UploadInv PROVE ItemsGoToTheirSlots
  OBVIOUS
<1>1. FifoSize(buff) \in 0 .. UP_ITEMS
  BY BufferFits DEF UploadInv
<1>2. ASSUME st = "waitOnDataTx"
      PROVE  /\ lastWordCntr = up_burst[1].left
             /\ up_burst[1].left <= FifoSize(buff)
             /\ buff.out # <<>> => buff.out[1] = up_burst[1].at
  <2>. PICK at \in UpSlots, left \in 1 .. FifoSize(buff) :
          /\ up_burst = <<[at |-> at, left |-> left]>> /\ lastWordCntr = left
          /\ FromSlot(at, Waiting(buff), FifoSize(buff), next_slot)
    BY <1>2 DEF UploadInv, SendingInv
  <2>1. ASSUME buff.out # <<>>
        PROVE  buff.out[1] = at
    <3>1. buff.out[1] = Waiting(buff)[1]
      BY <2>1, FifoWords DEF UploadInv
    <3>2. 1 \in 1 .. FifoSize(buff) /\ Wrap(at + 1 - 1) = at
      BY <1>1, Numbers DEF Wrap, UpSlots
    <3> QED BY <3>1, <3>2 DEF FromSlot
  <2> QED BY <1>1, <2>1
<1>3. /\ uploadedCntr + NotAcked \in 0 .. 2 * UP_ITEMS - 1
      /\ Wrap(uploadedCntr + NotAcked) = buff_offset /\ buff_offset + remaining = UP_ITEMS
  BY Numbers DEF UploadInv, OffsetInv, NotAcked, UpSlots
<1>4. (uploadedCntr + NotAcked) % UP_ITEMS = buff_offset
  BY <1>3, WrapIsModulo
<1> QED BY <1>2, <1>3, <1>4 DEF ItemsGoToTheirSlots, NotAcked

---------------------------------------------------------------------------
(* CLinkedListReader *)

Distance == IF wrPtr >= rdPtr THEN wrPtr - rdPtr ELSE wrPtr + PTR_MOD - rdPtr
Pointers == 0 .. PTR_MOD - 1

LEMMA ModuloOnce ==
    ASSUME NEW m \in Nat \ {0}, NEW x \in 0 .. 2 * m - 1
    PROVE  x % m = IF x >= m THEN x - m ELSE x
<1>1. CASE x < m
  BY <1>1
<1>2. CASE x >= m
  <2>1. x = 1 * m + (x - m) /\ x - m \in 0 .. m - 1
    BY <1>2
  <2> QED BY <1>2, <2>1
<1> QED BY <1>1, <1>2

LEMMA PointerWraps ==
    \A x \in 0 .. 2 * PTR_MOD - 1 : x % PTR_MOD = IF x >= PTR_MOD THEN x - PTR_MOD ELSE x
BY Numbers, ModuloOnce

LEMMA SizeIsDistance ==
    ASSUME rdPtr \in Pointers, wrPtr \in Pointers
    PROVE  SizeByPtrs = Distance /\ Distance \in Pointers
<1>. PICK x \in 0 .. 2 * PTR_MOD - 1 : x = wrPtr + PTR_MOD - rdPtr
  BY Numbers DEF Pointers
<1>1. SizeByPtrs = x % PTR_MOD
  BY DEF SizeByPtrs
<1>2. SizeByPtrs = IF x >= PTR_MOD THEN x - PTR_MOD ELSE x
  BY <1>1, PointerWraps
<1> QED BY <1>2, Numbers DEF Distance, Pointers

\* BurstItems are added at wrPtr and one is taken at rdPtr.
LEMMA DistanceStep ==
    ASSUME rdPtr \in Pointers, wrPtr \in Pointers, NEW q \in {0, 1}, NEW d \in Nat,
           q <= Distance, Distance + d < PTR_MOD,
           rdPtr' = (rdPtr + q) % PTR_MOD, wrPtr' = (wrPtr + d) % PTR_MOD
    PROVE  /\ rdPtr' \in Pointers /\ wrPtr' \in Pointers
           /\ Distance' = Distance + d - q
<1>1. Distance \in Pointers
  BY SizeIsDistance
<1>2. rdPtr + q \in 0 .. 2 * PTR_MOD - 1 /\ wrPtr + d \in 0 .. 2 * PTR_MOD - 1
  BY <1>1, Numbers DEF Pointers
<1>. PICK x \in 0 .. 2 * PTR_MOD - 1, y \in 0 .. 2 * PTR_MOD - 1 : x = rdPtr + q /\ y = wrPtr + d
  BY <1>2
<1>3. /\ rdPtr' = IF x >= PTR_MOD THEN x - PTR_MOD ELSE x
      /\ wrPtr' = IF y >= PTR_MOD THEN y - PTR_MOD ELSE y
  <2>1. rdPtr' = x % PTR_MOD /\ wrPtr' = y % PTR_MOD
    OBVIOUS
  <2> QED BY <2>1, PointerWraps
<1> QED BY <1>1, <1>3, Numbers DEF Pointers, Distance

---------------------------------------------------------------------------

\* BurstItems of the burst, without the link.
BurstItems(left, id) == left - (IF id = "ID_LAST" THEN 1 ELSE 0)

BurstInv ==
    \E left \in 1 .. BURST_LEN, id \in {"ID", "ID_LAST"} :
        /\ dl = <<[at |-> baseIndex, left |-> left, id |-> id]>>
        /\ BurstItems(left, id) <= Distance
        /\ FifoSize(dataFifo) + BurstItems(left, id) <= 2 * BURST_LEN
        /\ IF id = "ID_LAST"
           THEN list_pos.off + BurstItems(left, id) = ITEMS_IN_BLOCK /\ inBlockRemain = ITEMS_IN_BLOCK
           ELSE list_pos.off + BurstItems(left, id) + inBlockRemain = ITEMS_IN_BLOCK

PlaceInv ==
    /\ list_pos \in [block : DOMAIN NextBlock, off : 0 .. ITEMS_IN_BLOCK]
    /\ baseIndex = BlockAddr(list_pos.block) + list_pos.off

ListInv ==
    /\ rdPtr \in Pointers /\ wrPtr \in Pointers
    /\ PlaceInv
    /\ inBlockRemain \in 0 .. ITEMS_IN_BLOCK
    /\ FifoOk(dataFifo, {"item"})
    /\ downloadPending = (dl # <<>>)
    /\ IF dl = <<>> THEN list_pos.off + inBlockRemain = ITEMS_IN_BLOCK ELSE BurstInv

LEMMA AddressIsNumber ==
    ASSUME NEW block \in DOMAIN NextBlock
    PROVE  BlockAddr(block) \in Nat /\ NextBlock[block] \in DOMAIN NextBlock
<1>1. block \in Nat /\ NextBlock[block] \in DOMAIN NextBlock
  BY StructParams
<1>2. ITEMS_IN_BLOCK + 1 \in Nat
  BY Numbers
<1>3. \A a, b \in Nat : a * b \in Nat
  OBVIOUS
<1> QED BY <1>1, <1>2, <1>3 DEF BlockAddr

LEMMA ListStarts ==
    ListInit => ListInv
<1> SUFFICES ASSUME ListInit PROVE ListInv
  OBVIOUS
<1> USE DEF ListInit
<1>1. FifoOk(dataFifo, {"item"})
  BY NewFifoOk
<1>2. 0 \in DOMAIN NextBlock
  BY StructParams
<1>3. BlockAddr(0) \in Nat
  BY <1>2, AddressIsNumber
<1>4. PlaceInv
  BY <1>2, <1>3, Numbers DEF PlaceInv
<1>5. rdPtr \in Pointers /\ wrPtr \in Pointers /\ inBlockRemain \in 0 .. ITEMS_IN_BLOCK
      /\ 0 + ITEMS_IN_BLOCK = ITEMS_IN_BLOCK
  BY Numbers DEF Pointers
<1> QED BY <1>1, <1>4, <1>5 DEF ListInv

\* The request that is made when the buffer has space.
LEMMA RequestFits ==
    ASSUME ListInv, dl = <<>>, wrPtr # rdPtr
    PROVE  /\ ListRequest.words \in 1 .. BURST_LEN /\ ListRequest.id \in {"ID", "ID_LAST"}
           /\ ListRequest.remain \in 0 .. ITEMS_IN_BLOCK
           /\ BurstItems(ListRequest.words, ListRequest.id) <= Distance
           /\ BurstItems(ListRequest.words, ListRequest.id) \in 0 .. BURST_LEN
           /\ IF ListRequest.id = "ID_LAST"
              THEN /\ list_pos.off + BurstItems(ListRequest.words, ListRequest.id) = ITEMS_IN_BLOCK
                   /\ ListRequest.remain = ITEMS_IN_BLOCK
              ELSE list_pos.off + BurstItems(ListRequest.words, ListRequest.id) + ListRequest.remain
                      = ITEMS_IN_BLOCK
<1> DEFINE o == list_pos.off
           rest == inBlockRemain
           c == ConstraingSpace
           d == Distance
<1>1. /\ o \in 0 .. ITEMS_IN_BLOCK /\ rest \in 0 .. ITEMS_IN_BLOCK /\ o + rest = ITEMS_IN_BLOCK
      /\ rdPtr \in Pointers /\ wrPtr \in Pointers
  BY DEF ListInv, PlaceInv
<1>2. d \in Nat /\ d # 0 /\ SizeByPtrs = d
  <2>1. d \in Pointers /\ SizeByPtrs = d
    BY <1>1, SizeIsDistance
  <2> QED BY <1>1, <2>1, Numbers DEF Distance, Pointers
<1> HIDE DEF d
<1>3. c = IF rest < d THEN rest ELSE d
  BY <1>2 DEF ConstraingSpace
<1>4. d % BLOCK_MOD <= d
  <2>1. BLOCK_MOD \in Nat \ {0}
    BY Numbers
  <2> QED BY <1>2, <2>1
<1>5. ConstrainedByInBlockRemain => d >= rest
  <2>1. BLOCK_MOD \in Nat \ {0}
    BY Numbers
  <2>2. d % BLOCK_MOD \in Nat
    BY <1>2, <2>1
  <2> QED BY <1>1, <1>2, <1>4, <2>2 DEF ConstrainedByInBlockRemain
<1>6. rest = 0 => ConstrainedByInBlockRemain /\ rest < BURST_LEN
  <2>1. BLOCK_MOD \in Nat \ {0}
    BY Numbers
  <2>2. d % BLOCK_MOD >= 0
    BY <1>2, <2>1
  <2> QED BY <1>2, <2>2, Numbers DEF ConstrainedByInBlockRemain
<1> HIDE DEF c, o, rest
<1>7. CASE c > BURST_LEN
  <2>1. ListRequest = [id |-> "ID", words |-> BURST_LEN, remain |-> rest - BURST_LEN]
    BY <1>7 DEF ListRequest, c, rest
  <2>2. BurstItems(BURST_LEN, "ID") = BURST_LEN
    BY Numbers DEF BurstItems
  <2>3. /\ BURST_LEN \in 1 .. BURST_LEN /\ rest - BURST_LEN \in 0 .. ITEMS_IN_BLOCK
        /\ BURST_LEN <= d /\ BURST_LEN \in 0 .. BURST_LEN
        /\ o + BURST_LEN + (rest - BURST_LEN) = ITEMS_IN_BLOCK
    BY <1>1, <1>2, <1>3, <1>7, Numbers
  <2> QED BY <2>1, <2>2, <2>3 DEF d, o
<1>8. CASE ~(c > BURST_LEN) /\ ConstrainedByInBlockRemain /\ rest < BURST_LEN
  <2>1. ListRequest = [id |-> "ID_LAST", words |-> c + 1, remain |-> ITEMS_IN_BLOCK]
    BY <1>8 DEF ListRequest, c, rest
  <2>2. c = rest
    BY <1>1, <1>2, <1>3, <1>5, <1>8
  <2>3. BurstItems(c + 1, "ID_LAST") = rest
    BY <1>1, <2>2 DEF BurstItems
  <2>4. /\ c + 1 \in 1 .. BURST_LEN /\ ITEMS_IN_BLOCK \in 0 .. ITEMS_IN_BLOCK /\ rest <= d
        /\ rest \in 0 .. BURST_LEN /\ o + rest = ITEMS_IN_BLOCK
    BY <1>1, <1>2, <1>5, <1>8, <2>2, Numbers
  <2> QED BY <2>1, <2>3, <2>4 DEF d, o
<1>9. CASE ~(c > BURST_LEN) /\ ~(ConstrainedByInBlockRemain /\ rest < BURST_LEN)
  <2>1. ListRequest = [id |-> "ID", words |-> c, remain |-> rest - c]
    BY <1>9 DEF ListRequest, c, rest
  <2>2. rest # 0
    BY <1>6, <1>9
  <2>3. c \in 1 .. BURST_LEN
    BY <1>1, <1>2, <1>3, <1>9, <2>2, Numbers
  <2>4. BurstItems(c, "ID") = c
    BY <2>3 DEF BurstItems
  <2>5. /\ rest - c \in 0 .. ITEMS_IN_BLOCK /\ c <= d /\ c \in 0 .. BURST_LEN
        /\ o + c + (rest - c) = ITEMS_IN_BLOCK
    BY <1>1, <1>2, <1>3, <2>3, Numbers
  <2> QED BY <2>1, <2>3, <2>4, <2>5 DEF d, o
<1> QED BY <1>7, <1>8, <1>9

LEMMA ListKeepsInv ==
    ASSUME ListInv, NEW req_rd \in BOOLEAN, NEW r_vld \in BOOLEAN, NEW rd \in BOOLEAN,
           NEW new_items \in {0, 1, 3}, r_vld => dl # <<>>, SizeByPtrs + new_items < PTR_MOD,
           ListCycle(req_rd, r_vld, rd, new_items)
    PROVE  ListInv'
<1> DEFINE asks   == ~downloadPending /\ BufferHasSpace /\ wrPtr # rdPtr /\ req_rd
           takes  == r_vld /\ downloadPending /\ FifoRd(dataFifo, 2 * BURST_LEN)
           last   == takes /\ dl[1].left = 1
           isLink == last /\ dl[1].id = "ID_LAST"
           item   == IF takes /\ ~isLink THEN <<"item">> ELSE <<>>
           pops   == rd /\ dataFifo.out # <<>>
           n == FifoSize(dataFifo)
           m == FifoSize(dataFifo')
           p == AsNumber(pops)
           k == AsNumber(takes /\ ~isLink)
           block == list_pos.block
           off == list_pos.off
           d == Distance
           e == Distance'
<1>1. /\ downloadPending' = ((downloadPending \/ asks) /\ ~last)
      /\ baseIndex' = IF ~takes THEN baseIndex
                      ELSE IF isLink THEN BlockAddr(NextBlock[block]) ELSE baseIndex + 1
      /\ inBlockRemain' = IF asks THEN ListRequest.remain ELSE inBlockRemain
      /\ rdPtr' = IF takes /\ ~isLink THEN (rdPtr + 1) % PTR_MOD ELSE rdPtr
      /\ wrPtr' = (wrPtr + new_items) % PTR_MOD
      /\ dataFifo' = FifoStep(dataFifo, item, pops)
      /\ dl' = IF asks
               THEN <<[at |-> baseIndex, left |-> ListRequest.words, id |-> ListRequest.id]>>
               ELSE IF last THEN <<>>
               ELSE IF takes THEN <<NextOf(dl[1])>> ELSE dl
      /\ list_pos' = IF ~takes THEN list_pos
                     ELSE IF isLink THEN [block |-> NextBlock[block], off |-> 0]
                     ELSE [list_pos EXCEPT !.off = @ + 1]
  BY Zenon DEF ListCycle
<1>2. /\ rdPtr \in Pointers /\ wrPtr \in Pointers
      /\ list_pos \in [block : DOMAIN NextBlock, off : 0 .. ITEMS_IN_BLOCK]
      /\ baseIndex = BlockAddr(block) + off
      /\ inBlockRemain \in 0 .. ITEMS_IN_BLOCK
      /\ FifoOk(dataFifo, {"item"})
      /\ downloadPending = (dl # <<>>)
      /\ IF dl = <<>> THEN off + inBlockRemain = ITEMS_IN_BLOCK ELSE BurstInv
  BY DEF ListInv, PlaceInv
<1>3. asks => dl = <<>> /\ ~takes
  BY <1>2
<1>4. takes => dl # <<>>
  BY <1>2
<1>6. d \in Pointers /\ SizeByPtrs = d
  BY <1>2, SizeIsDistance
<1>7. takes /\ ~isLink => 1 <= d
  <2>1. SUFFICES ASSUME takes, ~isLink PROVE 1 <= d
    OBVIOUS
  <2>. PICK left \in 1 .. BURST_LEN, id \in {"ID", "ID_LAST"} :
          /\ dl = <<[at |-> baseIndex, left |-> left, id |-> id]>>
          /\ BurstItems(left, id) <= Distance
    BY <1>2, <1>4, <2>1 DEF BurstInv
  <2>2. ~(left = 1 /\ id = "ID_LAST")
    BY <2>1
  <2>3. BurstItems(left, id) >= 1
    BY <2>2, Numbers DEF BurstItems
  <2>4. BurstItems(left, id) \in Int
    BY Numbers DEF BurstItems
  <2> QED BY <1>6, <2>3, <2>4, Numbers DEF Pointers
<1>8. k \in {0, 1} /\ p \in {0, 1}
  BY DEF AsNumber
<1>9. rdPtr' \in Pointers /\ wrPtr' \in Pointers /\ e = d + new_items - k
  <2>1. rdPtr' = (rdPtr + k) % PTR_MOD
    <3>1. rdPtr + 0 = rdPtr /\ rdPtr % PTR_MOD = rdPtr
      BY <1>2, Numbers DEF Pointers
    <3> QED BY <1>1, <3>1 DEF AsNumber
  <2>2. k <= d
    BY <1>6, <1>7, Numbers DEF AsNumber, Pointers
  <2>3. new_items \in Nat /\ d + new_items < PTR_MOD
    BY <1>6
  <2> HIDE DEF k
  <2> QED BY <1>1, <1>2, <1>8, <2>1, <2>2, <2>3, DistanceStep
<1>10. item \in Seq({"item"}) /\ (item = <<>> \/ \E x \in {"item"} : item = <<x>>) /\ One(item) = k
  <2>1. <<"item">> \in Seq({"item"}) /\ <<"item">> # <<>> /\ <<>> \in Seq({"item"})
    BY EmptySeq
  <2>2. CASE takes /\ ~isLink
    BY <2>1, <2>2 DEF One, AsNumber
  <2>3. CASE ~(takes /\ ~isLink)
    BY <2>1, <2>3 DEF One, AsNumber
  <2> QED BY <2>2, <2>3
<1>11. Pops(dataFifo, pops) = pops
  BY DEF Pops
<1> HIDE DEF item
<1>12. FifoOk(dataFifo', {"item"}) /\ n \in Nat /\ p <= n /\ m = n - p + k
  <2>1. FifoOk(FifoStep(dataFifo, item, pops), {"item"})
    BY <1>2, <1>10, FifoStepWords
  <2>2. /\ n \in Nat /\ p <= n /\ FifoSize(FifoStep(dataFifo, item, pops)) = n - p + k
    BY <1>2, <1>10, <1>11, FifoStepNumbers
  <2> QED BY <1>1, <2>1, <2>2
<1> HIDE DEF n, m, p, k, d, e, pops
<1>13. CASE asks
  <2>1. /\ ListRequest.words \in 1 .. BURST_LEN /\ ListRequest.id \in {"ID", "ID_LAST"}
        /\ ListRequest.remain \in 0 .. ITEMS_IN_BLOCK
        /\ BurstItems(ListRequest.words, ListRequest.id) <= Distance
        /\ BurstItems(ListRequest.words, ListRequest.id) \in 0 .. BURST_LEN
        /\ IF ListRequest.id = "ID_LAST"
           THEN /\ off + BurstItems(ListRequest.words, ListRequest.id) = ITEMS_IN_BLOCK
                /\ ListRequest.remain = ITEMS_IN_BLOCK
           ELSE off + BurstItems(ListRequest.words, ListRequest.id) + ListRequest.remain = ITEMS_IN_BLOCK
    BY <1>3, <1>13, RequestFits
  <2>2. /\ dl' = <<[at |-> baseIndex, left |-> ListRequest.words, id |-> ListRequest.id]>>
        /\ baseIndex' = baseIndex /\ list_pos' = list_pos /\ inBlockRemain' = ListRequest.remain
        /\ downloadPending'
    BY <1>1, <1>3, <1>13
  <2>3. dl' # <<>> /\ k = 0
    BY <1>3, <1>13, <2>2 DEF k, AsNumber
  <2>. PICK words \in 1 .. BURST_LEN, id \in {"ID", "ID_LAST"}, remain \in 0 .. ITEMS_IN_BLOCK :
          words = ListRequest.words /\ id = ListRequest.id /\ remain = ListRequest.remain
    BY <2>1
  <2>. PICK items \in 0 .. BURST_LEN : items = BurstItems(words, id)
    BY <2>1
  <2>4. items <= e
    <3>1. items <= d
      BY <2>1 DEF d
    <3> QED BY <1>6, <1>9, <2>3, <3>1, Numbers DEF Pointers
  <2>5. m + items <= 2 * BURST_LEN
    <3>1. n < BURST_LEN + 1
      BY <1>13 DEF BufferHasSpace, n
    <3> QED BY <1>8, <1>12, <2>3, <3>1, Numbers
  <2>6. BurstInv'
    BY <2>1, <2>2, <2>4, <2>5 DEF BurstInv, e, m
  <2> QED BY <1>2, <1>9, <1>12, <2>1, <2>2, <2>3, <2>6 DEF ListInv, PlaceInv
<1>14. CASE ~asks /\ ~takes
  <2>1. /\ dl' = dl /\ baseIndex' = baseIndex /\ list_pos' = list_pos /\ inBlockRemain' = inBlockRemain
        /\ downloadPending' = downloadPending
    BY <1>1, <1>2, <1>14
  <2>2. k = 0
    BY <1>14 DEF k, AsNumber
  <2>3. ASSUME BurstInv PROVE BurstInv'
    <3>. PICK left \in 1 .. BURST_LEN, id \in {"ID", "ID_LAST"} :
            /\ dl = <<[at |-> baseIndex, left |-> left, id |-> id]>>
            /\ BurstItems(left, id) <= Distance
            /\ FifoSize(dataFifo) + BurstItems(left, id) <= 2 * BURST_LEN
            /\ IF id = "ID_LAST"
               THEN off + BurstItems(left, id) = ITEMS_IN_BLOCK /\ inBlockRemain = ITEMS_IN_BLOCK
               ELSE off + BurstItems(left, id) + inBlockRemain = ITEMS_IN_BLOCK
      BY <2>3 DEF BurstInv
    <3>. PICK items \in Int : items = BurstItems(left, id)
      BY DEF BurstItems
    <3>1. items <= e /\ m + items <= 2 * BURST_LEN
      <4>1. items <= d /\ n + items <= 2 * BURST_LEN
        BY DEF d, n
      <4> QED BY <1>6, <1>8, <1>9, <1>12, <2>2, <4>1, Numbers DEF Pointers
    <3> QED BY <2>1, <3>1 DEF BurstInv, e, m
  <2> QED BY <1>2, <1>9, <1>12, <2>1, <2>3 DEF ListInv, PlaceInv
<1>15. CASE takes
  <2>. PICK left \in 1 .. BURST_LEN, id \in {"ID", "ID_LAST"} :
          /\ dl = <<[at |-> baseIndex, left |-> left, id |-> id]>>
          /\ BurstItems(left, id) <= Distance
          /\ FifoSize(dataFifo) + BurstItems(left, id) <= 2 * BURST_LEN
          /\ IF id = "ID_LAST"
             THEN off + BurstItems(left, id) = ITEMS_IN_BLOCK /\ inBlockRemain = ITEMS_IN_BLOCK
             ELSE off + BurstItems(left, id) + inBlockRemain = ITEMS_IN_BLOCK
    BY <1>2, <1>4, <1>15 DEF BurstInv
  <2>1. ~asks /\ inBlockRemain' = inBlockRemain /\ downloadPending /\ (last <=> left = 1)
        /\ (isLink <=> left = 1 /\ id = "ID_LAST")
    BY <1>1, <1>2, <1>3, <1>15
  <2>2. /\ block \in DOMAIN NextBlock /\ off \in 0 .. ITEMS_IN_BLOCK
        /\ list_pos = [block |-> block, off |-> off]
        /\ BlockAddr(block) \in Nat /\ BlockAddr(NextBlock[block]) \in Nat
        /\ NextBlock[block] \in DOMAIN NextBlock
    BY <1>2, AddressIsNumber
  <2>3. CASE left = 1 /\ id = "ID_LAST"
    <3>1. /\ dl' = <<>> /\ downloadPending' = FALSE /\ baseIndex' = BlockAddr(NextBlock[block])
          /\ list_pos' = [block |-> NextBlock[block], off |-> 0] /\ inBlockRemain = ITEMS_IN_BLOCK
      BY <1>1, <1>15, <2>1, <2>3
    <3>2. 0 \in 0 .. ITEMS_IN_BLOCK /\ 0 + ITEMS_IN_BLOCK = ITEMS_IN_BLOCK
      BY Numbers
    <3>3. PlaceInv'
      BY <2>2, <3>1, <3>2 DEF PlaceInv
    <3>4. (list_pos').off = 0 /\ downloadPending' = (dl' # <<>>)
      BY <3>1
    <3> QED BY <1>2, <1>9, <1>12, <2>1, <3>1, <3>2, <3>3, <3>4 DEF ListInv
  <2>4. CASE ~(left = 1 /\ id = "ID_LAST")
    <3>1. k = 1
      BY <1>15, <2>1, <2>4 DEF k, AsNumber
    <3>. PICK items \in Int : items = BurstItems(left, id)
      BY DEF BurstItems
    <3>2. items >= 1
      BY <2>4, Numbers DEF BurstItems
    <3>3. /\ baseIndex' = baseIndex + 1 /\ list_pos' = [block |-> block, off |-> off + 1]
          /\ off + 1 \in 0 .. ITEMS_IN_BLOCK
      <4>1. list_pos' = [list_pos EXCEPT !.off = @ + 1] /\ baseIndex' = baseIndex + 1
        BY <1>1, <1>15, <2>1, <2>4
      <4>2. off + 1 <= ITEMS_IN_BLOCK
        BY <1>2, <2>2, <3>2, Numbers
      <4> HIDE DEF off, block
      <4>3. [list_pos EXCEPT !.off = @ + 1] = [block |-> block, off |-> off + 1]
        BY <2>2
      <4> QED BY <2>2, <4>1, <4>2, <4>3, Numbers
    <3>4. PlaceInv'
      <4>1. baseIndex + 1 = BlockAddr(block) + (off + 1)
        BY <1>2, <2>2
      <4> QED BY <2>2, <3>3, <4>1 DEF PlaceInv
    <3>5. items - 1 <= e /\ m + (items - 1) <= 2 * BURST_LEN
      <4>1. items <= d /\ n + items <= 2 * BURST_LEN
        BY DEF d, n
      <4> QED BY <1>6, <1>8, <1>9, <1>12, <3>1, <4>1, Numbers DEF Pointers
    <3>6. CASE left = 1
      <4>1. dl' = <<>> /\ downloadPending' = FALSE
        BY <1>1, <2>1, <3>6
      <4>2. id = "ID" /\ items = 1
        BY <2>4, <3>6 DEF BurstItems
      <4>3. (off + 1) + inBlockRemain = ITEMS_IN_BLOCK
        BY <2>2, <4>2
      <4>4. (list_pos').off = off + 1 /\ downloadPending' = (dl' # <<>>)
        BY <3>3, <4>1
      <4> HIDE DEF off
      <4> QED BY <1>2, <1>9, <1>12, <2>1, <3>4, <4>1, <4>3, <4>4 DEF ListInv
    <3>7. CASE left # 1
      <4>1. dl' = <<[at |-> baseIndex + 1, left |-> left - 1, id |-> id]>> /\ downloadPending'
        BY <1>1, <1>15, <2>1, <3>7 DEF NextOf
      <4>2. left - 1 \in 1 .. BURST_LEN /\ BurstItems(left - 1, id) = items - 1
        BY <3>7, Numbers DEF BurstItems
      <4>3. (off + 1) + (items - 1) = off + items
        BY <2>2
      <4>4. BurstInv'
        BY <2>1, <3>3, <3>5, <4>1, <4>2, <4>3 DEF BurstInv, e, m
      <4> QED BY <1>2, <1>9, <1>12, <2>1, <3>4, <4>1, <4>4 DEF ListInv
    <3> QED BY <3>6, <3>7
  <2> QED BY <2>3, <2>4
<1> QED BY <1>13, <1>14, <1>15

LEMMA ItemsInOrder ==
    ListInv => ListIsReadInOrder
<1> SUFFICES ASSUME ListInv PROVE ListIsReadInOrder
  OBVIOUS
<1>1. SizeByPtrs = Distance /\ baseIndex = BlockAddr(list_pos.block) + list_pos.off
  BY SizeIsDistance DEF ListInv, PlaceInv
<1>2. ASSUME dl # <<>>
      PROVE  LET items == dl[1].left - (IF dl[1].id = "ID_LAST" THEN 1 ELSE 0) IN
             /\ dl[1].at = baseIndex /\ dl[1].left <= BURST_LEN
             /\ items <= SizeByPtrs
             /\ FifoSize(dataFifo) + items <= 2 * BURST_LEN
             /\ IF dl[1].id = "ID_LAST" THEN list_pos.off + items = ITEMS_IN_BLOCK
                ELSE list_pos.off + items + inBlockRemain = ITEMS_IN_BLOCK
  <2>. PICK left \in 1 .. BURST_LEN, id \in {"ID", "ID_LAST"} :
          /\ dl = <<[at |-> baseIndex, left |-> left, id |-> id]>>
          /\ BurstItems(left, id) <= Distance
          /\ FifoSize(dataFifo) + BurstItems(left, id) <= 2 * BURST_LEN
          /\ IF id = "ID_LAST" THEN list_pos.off + BurstItems(left, id) = ITEMS_IN_BLOCK
             ELSE list_pos.off + BurstItems(left, id) + inBlockRemain = ITEMS_IN_BLOCK
    BY <1>2 DEF ListInv, BurstInv
  <2>1. dl[1].at = baseIndex /\ dl[1].left = left /\ dl[1].id = id
    OBVIOUS
  <2>2. left <= BURST_LEN
    OBVIOUS
  <2> QED BY <1>1, <2>1, <2>2 DEF BurstItems
<1> QED BY <1>1, <1>2 DEF ListIsReadInOrder, ListInv

---------------------------------------------------------------------------
(* MMU_2pageLvl.  The addresses in pageOffsetFifo are translated in order: for the older ones *)
(* a leaf item is being read, at the place and sub index of that address; the bases of the    *)
(* others, which are in the registers of lvl1Converter, wait with their index.                *)

Roots == {RootTable[v.l1] : v \in Virts}

InStep(v, nv, index, ni, sub, ns, reads, base) ==
    /\ ns + ni = nv
    /\ \A j \in 1 .. ns :
          /\ reads[j] = <<RootTable[v[j].l1], v[j].l2 \div 2>> /\ sub[j] = v[j].l2 % 2
          /\ RootTable[v[j].l1] # BadBase
    /\ \A j \in 1 .. ni : index[j] = v[ns + j].l2 /\ base[j] = RootTable[v[ns + j].l1]

\* In a clock p translations leave, q are sent to the memory and k are asked.
Moves(v, nv, index, ni, sub, ns, reads, base, p, q, k, virt, v1, index1, sub1, reads1, base1) ==
    /\ nv \in Nat /\ ni \in Nat /\ ns \in Nat
    /\ p \in {0, 1} /\ q \in {0, 1} /\ k \in {0, 1} /\ p <= ns /\ q <= ni
    /\ Moved(v, v1, nv, p, k, virt) /\ Moved(index, index1, ni, q, k, virt.l2)
    /\ Moved(base, base1, ni, q, k, RootTable[virt.l1])
    /\ Moved(sub, sub1, ns, p, q, index[1] % 2)
    /\ Moved(reads, reads1, ns, p, q, <<base[1], index[1] \div 2>>)
    /\ q = 1 => base[1] # BadBase

LEMMA InStepMoves ==
    ASSUME NEW v, NEW nv, NEW index, NEW ni, NEW sub, NEW ns, NEW reads, NEW base,
           NEW p, NEW q, NEW k, NEW virt, NEW v1, NEW index1, NEW sub1, NEW reads1, NEW base1,
           InStep(v, nv, index, ni, sub, ns, reads, base),
           Moves(v, nv, index, ni, sub, ns, reads, base, p, q, k, virt,
                 v1, index1, sub1, reads1, base1)
    PROVE  InStep(v1, nv - p + k, index1, ni - q + k, sub1, ns - p + q, reads1, base1)
<1>0. /\ nv \in Nat /\ ni \in Nat /\ ns \in Nat
      /\ p \in {0, 1} /\ q \in {0, 1} /\ k \in {0, 1} /\ p <= ns /\ q <= ni
      /\ Moved(v, v1, nv, p, k, virt) /\ Moved(index, index1, ni, q, k, virt.l2)
      /\ Moved(base, base1, ni, q, k, RootTable[virt.l1])
      /\ Moved(sub, sub1, ns, p, q, index[1] % 2)
      /\ Moved(reads, reads1, ns, p, q, <<base[1], index[1] \div 2>>)
      /\ (q = 1 => base[1] # BadBase)
  BY DEF Moves
<1> USE <1>0
<1>1. ns + ni = nv
  BY DEF InStep
<1>2. ASSUME NEW j \in 1 .. ns - p + q
      PROVE  /\ reads1[j] = <<RootTable[v1[j].l1], v1[j].l2 \div 2>> /\ sub1[j] = v1[j].l2 % 2
             /\ RootTable[v1[j].l1] # BadBase
  <2>1. CASE j <= ns - p
    <3>1. j + p \in 1 .. ns /\ j \in 1 .. nv - p + k /\ j <= nv - p
      BY <1>1, <2>1
    <3>2. v1[j] = v[j + p] /\ reads1[j] = reads[j + p] /\ sub1[j] = sub[j + p]
      BY <2>1, <3>1 DEF Moved
    <3> QED BY <3>1, <3>2 DEF InStep
  <2>2. CASE ~(j <= ns - p)
    <3>1. /\ q = 1 /\ j + p = ns + 1 /\ 1 \in 1 .. ni /\ j \in 1 .. nv - p + k /\ j <= nv - p
      BY <1>1, <2>2
    <3>2. /\ v1[j] = v[j + p] /\ reads1[j] = <<base[1], index[1] \div 2>> /\ sub1[j] = index[1] % 2
      BY <2>2, <3>1 DEF Moved
    <3>3. index[1] = v[ns + 1].l2 /\ base[1] = RootTable[v[ns + 1].l1]
      BY <3>1 DEF InStep
    <3> QED BY <3>1, <3>2, <3>3
  <2> QED BY <2>1, <2>2
<1>3. ASSUME NEW j \in 1 .. ni - q + k
      PROVE  /\ index1[j] = v1[(ns - p + q) + j].l2
             /\ base1[j] = RootTable[v1[(ns - p + q) + j].l1]
  <2>. PICK i \in Int : i = (ns - p + q) + j
    OBVIOUS
  <2>1. i \in 1 .. nv - p + k
    BY <1>1
  <2>2. CASE j <= ni - q
    <3>1. i <= nv - p /\ j + q \in 1 .. ni /\ i + p = ns + (j + q)
      BY <1>1, <2>2
    <3>2. v1[i] = v[i + p] /\ index1[j] = index[j + q] /\ base1[j] = base[j + q]
      BY <2>1, <2>2, <3>1 DEF Moved
    <3> QED BY <3>1, <3>2 DEF InStep
  <2>3. CASE ~(j <= ni - q)
    <3>1. ~(i <= nv - p)
      BY <1>1, <2>3
    <3>2. v1[i] = virt /\ index1[j] = virt.l2 /\ base1[j] = RootTable[virt.l1]
      BY <2>1, <2>3, <3>1 DEF Moved
    <3> QED BY <3>2
  <2> QED BY <2>2, <2>3
<1>4. (ns - p + q) + (ni - q + k) = nv - p + k
  BY <1>1
<1> QED BY <1>2, <1>3, <1>4 DEF InStep

---------------------------------------------------------------------------

\* The bases in lvl1Converter, the oldest first.
BaseCount == One(readData) + One(readDataOverflow) + One(read_pending)
Bases == [i \in 1 .. 2 |-> IF i = 1 /\ readData # <<>> THEN readData[1]
                           ELSE IF readDataOverflow # <<>> THEN readDataOverflow[1]
                           ELSE read_pending[1]]

OneOf(register, S) == register = <<>> \/ \E x \in S : register = <<x>>

BasesInv ==
    /\ OneOf(readData, Roots) /\ OneOf(readDataOverflow, Roots) /\ OneOf(read_pending, Roots)
    /\ readDataOverflow # <<>> => readData # <<>> /\ read_pending = <<>>

Aligned ==
    /\ FifoOk(pageOffsetFifo, Virts) /\ FifoOk(lvl2indxFifo, Nat) /\ FifoOk(itemSubIndexFifo, {0, 1})
    /\ mem_reads \in Seq(Roots \X Nat)
    /\ BasesInv
    /\ FifoSize(lvl2indxFifo) = BaseCount /\ FifoSize(itemSubIndexFifo) = Len(mem_reads)
    /\ InStep(Waiting(pageOffsetFifo), FifoSize(pageOffsetFifo), Waiting(lvl2indxFifo), BaseCount,
              Waiting(itemSubIndexFifo), FifoSize(itemSubIndexFifo), mem_reads, Bases)

MmuInv ==
    /\ segfaultFlag \in BOOLEAN
    /\ segfaultFlag \/ Aligned
    /\ TranslationsMatch

LEMMA MmuStarts ==
    MmuInit => MmuInv
<1> SUFFICES ASSUME MmuInit PROVE MmuInv
  OBVIOUS
<1> USE DEF MmuInit
<1>1. Len(<<>>) = 0 /\ <<>> \in Seq(Roots \X Nat)
  BY EmptySeq
<1>2. ASSUME NEW S PROVE FifoOk(NewFifo, S) /\ FifoSize(NewFifo) = 0
  <2>1. FifoOk(NewFifo, S) /\ Waiting(NewFifo) = <<>>
    BY NewFifoOk
  <2> QED BY <1>1, <2>1, FifoWords
<1>3. BasesInv /\ BaseCount = 0
  BY DEF BasesInv, OneOf, BaseCount, One
<1>4. FifoOk(pageOffsetFifo, Virts) /\ FifoOk(lvl2indxFifo, Nat) /\ FifoOk(itemSubIndexFifo, {0, 1})
      /\ FifoSize(pageOffsetFifo) = 0 /\ FifoSize(lvl2indxFifo) = 0 /\ FifoSize(itemSubIndexFifo) = 0
  BY <1>2
<1>5. Aligned
  BY <1>1, <1>3, <1>4 DEF Aligned, InStep
<1>6. TranslationsMatch
  BY DEF TranslationsMatch
<1> QED BY <1>5, <1>6 DEF MmuInv

\* One base moves in lvl1Converter, one leaves and one comes.
LEMMA BasesMove ==
    ASSUME BasesInv, NEW dataRd \in BOOLEAN, NEW accepts \in BOOLEAN, NEW root,
           accepts => root \in Roots,
           accepts => (readDataOverflow = <<>> \/ dataRd) /\ (readData = <<>> \/ dataRd),
           read_pending' = IF accepts THEN <<root>> ELSE <<>>,
           readData' = IF read_pending # <<>>
                       THEN IF readData = <<>> \/ dataRd THEN read_pending ELSE readData
                       ELSE IF dataRd THEN readDataOverflow ELSE readData,
           readDataOverflow' = IF read_pending # <<>>
                               THEN IF readData = <<>> \/ dataRd THEN <<>> ELSE read_pending
                               ELSE IF dataRd THEN <<>> ELSE readDataOverflow
    PROVE  /\ BasesInv'
           /\ BaseCount \in Nat
           /\ BaseCount' = BaseCount - AsNumber(dataRd /\ readData # <<>>) + AsNumber(accepts)
           /\ Moved(Bases, Bases', BaseCount, AsNumber(dataRd /\ readData # <<>>), AsNumber(accepts), root)
<1>1. <<root>> # <<>> /\ <<root>>[1] = root
  OBVIOUS
<1>2. BasesInv'
  BY <1>1 DEF BasesInv, OneOf
<1>3. BaseCount \in 0 .. 2 /\ BaseCount' \in 0 .. 2
  BY <1>2 DEF BasesInv, BaseCount, One
<1>4. BaseCount' = BaseCount - AsNumber(dataRd /\ readData # <<>>) + AsNumber(accepts)
  BY <1>1 DEF BasesInv, BaseCount, One, AsNumber
<1>5. Moved(Bases, Bases', BaseCount, AsNumber(dataRd /\ readData # <<>>), AsNumber(accepts), root)
  <2> SUFFICES ASSUME NEW i \in 1 .. BaseCount - AsNumber(dataRd /\ readData # <<>>) + AsNumber(accepts)
               PROVE  (Bases')[i] = IF i <= BaseCount - AsNumber(dataRd /\ readData # <<>>)
                                    THEN Bases[i + AsNumber(dataRd /\ readData # <<>>)] ELSE root
    BY DEF Moved
  <2>1. i \in {1, 2}
    BY <1>3, <1>4
  <2>2. CASE i = 1
    <3> QED BY <1>1, <2>2 DEF BasesInv, Bases, BaseCount, One, AsNumber
  <2>3. CASE i = 2
    <3> QED BY <1>1, <2>3 DEF BasesInv, Bases, BaseCount, One, AsNumber
  <2> QED BY <2>1, <2>2, <2>3
<1> QED BY <1>2, <1>3, <1>4, <1>5

LEMMA LeafIndex ==
    ASSUME NEW l2 \in Nat
    PROVE  /\ l2 \div 2 \in Nat /\ l2 % 2 \in {0, 1}
           /\ \A root : LeafOf(<<root, l2 \div 2>>, l2 % 2) = <<root, l2>>
<1>1. l2 \div 2 \in Nat /\ l2 % 2 \in {0, 1}
  OBVIOUS
<1>2. l2 = 2 * (l2 \div 2) + (l2 % 2)
  OBVIOUS
<1> QED BY <1>1, <1>2 DEF LeafOf

LEMMA MovedAny ==
    ASSUME NEW w, NEW v, NEW n \in Nat, NEW p \in {0, 1}, NEW k \in {0, 1}, NEW x, NEW y,
           Moved(w, v, n, p, k, x), k = 1 => x = y
    PROVE  Moved(w, v, n, p, k, y)
BY DEF Moved

LEMMA MmuKeepsInv ==
    ASSUME MmuInv, NEW virt \in {<<>>} \cup {<<v>> : v \in Virts}, NEW req_rd \in BOOLEAN,
           NEW r_vld \in BOOLEAN, NEW phys_rd \in BOOLEAN, r_vld => mem_reads # <<>>,
           MmuCycle(virt, req_rd, r_vld, phys_rd)
    PROVE  MmuInv'
<1> DEFINE itemVld  == r_vld /\ itemSubIndexFifo.out # <<>>
           itemTaken == itemVld /\ pageOffsetFifo.out # <<>> /\ phys_rd
           item     == LeafOf(mem_reads[1], itemSubIndexFifo.out[1])
           bad      == itemVld /\ item \in Unmapped
           indexRd  == req_rd /\ FifoRd(itemSubIndexFifo, SubFifoDepth)
           basePops == readData # <<>> /\ lvl2indxFifo.out # <<>> /\ indexRd
           asks     == basePops /\ ~segfaultFlag
           dataRd   == lvl2indxFifo.out # <<>> /\ indexRd
           rEn      == (readDataOverflow = <<>> \/ dataRd) /\ (readData = <<>> \/ dataRd)
           accepts  == /\ virt # <<>> /\ rEn
                       /\ FifoRd(lvl2indxFifo, IndxFifoDepth) /\ FifoRd(pageOffsetFifo, MAX_OVERLAP)
           baseBad  == readData = <<BadBase>>
           index    == IF accepts THEN <<virt[1].l2>> ELSE <<>>
           page     == IF accepts THEN virt ELSE <<>>
           sub      == IF asks THEN <<lvl2indxFifo.out[1] % 2>> ELSE <<>>
           read     == IF asks THEN <<<<readData[1], lvl2indxFifo.out[1] \div 2>>>> ELSE <<>>
<1>1. /\ read_pending' = IF accepts THEN <<RootTable[virt[1].l1]>> ELSE <<>>
      /\ readData' = IF read_pending # <<>>
                     THEN IF readData = <<>> \/ dataRd THEN read_pending ELSE readData
                     ELSE IF dataRd THEN readDataOverflow ELSE readData
      /\ readDataOverflow' = IF read_pending # <<>>
                             THEN IF readData = <<>> \/ dataRd THEN <<>> ELSE read_pending
                             ELSE IF dataRd THEN <<>> ELSE readDataOverflow
      /\ lvl2indxFifo' = FifoStep(lvl2indxFifo, index, basePops)
      /\ pageOffsetFifo' = FifoStep(pageOffsetFifo, page, itemTaken)
      /\ itemSubIndexFifo' = FifoStep(itemSubIndexFifo, sub, itemTaken)
      /\ mem_reads' = (IF itemTaken THEN Tail(mem_reads) ELSE mem_reads) \o read
      /\ segfaultFlag' = (segfaultFlag \/ bad \/ baseBad)
      /\ translated' = IF itemTaken /\ ~segfaultFlag /\ ~bad
                       THEN <<[virt |-> pageOffsetFifo.out[1], phys |-> item]>> ELSE <<>>
  BY Zenon DEF MmuCycle
<1>2. segfaultFlag \in BOOLEAN /\ segfaultFlag' \in BOOLEAN
  BY <1>1 DEF MmuInv
<1>3. CASE segfaultFlag
  <2>1. segfaultFlag' /\ translated' = <<>>
    BY <1>1, <1>3
  <2> QED BY <1>2, <2>1 DEF MmuInv, TranslationsMatch
<1>4. CASE ~segfaultFlag
  <2> DEFINE v == Waiting(pageOffsetFifo)
             i == Waiting(lvl2indxFifo)
             s == Waiting(itemSubIndexFifo)
             nv == FifoSize(pageOffsetFifo)
             ns == FifoSize(itemSubIndexFifo)
             ni == BaseCount
             p == AsNumber(itemTaken)
             q == AsNumber(basePops)
             k == AsNumber(accepts)
  <2>1. /\ FifoOk(pageOffsetFifo, Virts) /\ FifoOk(lvl2indxFifo, Nat)
        /\ FifoOk(itemSubIndexFifo, {0, 1}) /\ mem_reads \in Seq(Roots \X Nat) /\ BasesInv
        /\ FifoSize(lvl2indxFifo) = ni /\ ns = Len(mem_reads)
        /\ InStep(v, nv, i, ni, s, ns, mem_reads, Bases)
    BY <1>4 DEF MmuInv, Aligned
  <2>2. ns \in Nat /\ nv \in Nat /\ ni \in Nat
    <3>1. v \in Seq(Virts) /\ i \in Seq(Nat) /\ nv = Len(v) /\ ni = Len(i)
      BY <2>1, FifoWords
    <3> QED BY <2>1, <3>1, LenProperties
  <2>3. ASSUME itemVld
        PROVE  /\ mem_reads # <<>> /\ 1 \in 1 .. ns
               /\ mem_reads[1] = <<RootTable[v[1].l1], v[1].l2 \div 2>>
               /\ RootTable[v[1].l1] # BadBase
               /\ itemSubIndexFifo.out[1] = v[1].l2 % 2
    <3>1. mem_reads # <<>> /\ itemSubIndexFifo.out # <<>>
      BY <2>3
    <3>2. ns # 0
      BY <2>1, <3>1, EmptySeq
    <3>3. 1 \in 1 .. ns
      BY <2>2, <3>2
    <3>4. itemSubIndexFifo.out[1] = s[1]
      BY <2>1, <3>1, FifoWords
    <3> QED BY <2>1, <3>1, <3>3, <3>4 DEF InStep
  <2>4. TranslationsMatch'
    <3>1. SUFFICES ASSUME translated' # <<>>
                   PROVE  LET t == (translated')[1] IN
                          /\ RootTable[t.virt.l1] # BadBase
                          /\ t.phys = <<RootTable[t.virt.l1], t.virt.l2>>
                          /\ t.phys \notin Unmapped
      BY DEF TranslationsMatch
    <3>2. itemTaken /\ ~bad /\ translated' = <<[virt |-> pageOffsetFifo.out[1], phys |-> item]>>
      BY <1>1, <3>1
    <3>3. pageOffsetFifo.out[1] = v[1] /\ v[1] \in Virts
      BY <2>1, <3>2, FifoWords
    <3>4. v[1].l2 \in Nat
      BY <3>3, StructParams
    <3>5. item = <<RootTable[v[1].l1], v[1].l2>>
      BY <2>3, <3>2, <3>4, LeafIndex
    <3>6. item \notin Unmapped /\ RootTable[v[1].l1] # BadBase
      BY <2>3, <3>2
    <3> HIDE DEF item, v
    <3> QED BY <3>2, <3>3, <3>5, <3>6
  <2>5. ASSUME ~segfaultFlag'
        PROVE  Aligned'
    <3>1. asks = basePops /\ ~baseBad
      BY <1>1, <1>4, <2>5
    <3>2. ASSUME basePops
          PROVE  /\ q = 1 /\ 1 \in 1 .. ni /\ lvl2indxFifo.out[1] = i[1] /\ i[1] \in Nat
                 /\ readData[1] = Bases[1] /\ Bases[1] \in Roots /\ Bases[1] # BadBase
      <4>1. readData # <<>> /\ lvl2indxFifo.out # <<>>
        BY <3>2
      <4>2. /\ i \in Seq(Nat) /\ i # <<>> /\ ni = Len(i)
            /\ lvl2indxFifo.out[1] = i[1] /\ lvl2indxFifo.out[1] \in Nat
        BY <2>1, <4>1, FifoWords
      <4>3. ni # 0
        BY <4>2, EmptySeq
      <4>4. \E x \in Roots : readData = <<x>>
        BY <2>1, <4>1 DEF BasesInv, OneOf
      <4>5. readData[1] = Bases[1]
        BY <4>1 DEF Bases
      <4>6. readData[1] # BadBase /\ readData[1] \in Roots
        BY <3>1, <4>4
      <4>7. q = 1 /\ 1 \in 1 .. ni
        BY <2>2, <3>2, <4>3 DEF AsNumber
      <4> QED BY <4>2, <4>5, <4>6, <4>7
    <3>3. ASSUME accepts
          PROVE  virt[1] \in Virts /\ virt = <<virt[1]>> /\ virt[1].l2 \in Nat
                 /\ RootTable[virt[1].l1] \in Roots
      BY <3>3, StructParams DEF Roots
    <3>4. ASSUME accepts PROVE One(index) = 1 /\ One(page) = 1 /\ k = 1 /\ index[1] = virt[1].l2
                               /\ page[1] = virt[1]
      <4>1. <<virt[1].l2>> # <<>> /\ virt # <<>> /\ <<virt[1].l2>>[1] = virt[1].l2
        BY <3>4
      <4> QED BY <3>4, <4>1 DEF One, AsNumber
    <3>5. ASSUME ~accepts PROVE One(index) = 0 /\ One(page) = 0 /\ k = 0
      BY <3>5 DEF One, AsNumber
    <3>6. ASSUME basePops
          PROVE  /\ One(sub) = 1 /\ One(read) = 1
                 /\ sub[1] = i[1] % 2 /\ read[1] = <<Bases[1], i[1] \div 2>>
      <4>1. sub = <<i[1] % 2>> /\ read = <<<<Bases[1], i[1] \div 2>>>>
        BY <3>1, <3>2, <3>6
      <4>2. \A x : <<x>> # <<>> /\ <<x>>[1] = x
        OBVIOUS
      <4> HIDE DEF sub, read
      <4> QED BY <4>1, <4>2 DEF One
    <3>7. ASSUME ~basePops PROVE One(sub) = 0 /\ One(read) = 0 /\ q = 0
      BY <3>1, <3>7 DEF One, AsNumber
    <3>8. /\ index \in Seq(Nat) /\ (index = <<>> \/ \E x \in Nat : index = <<x>>)
          /\ page \in Seq(Virts) /\ (page = <<>> \/ \E x \in Virts : page = <<x>>)
          /\ sub \in Seq({0, 1}) /\ (sub = <<>> \/ \E x \in {0, 1} : sub = <<x>>)
          /\ read \in Seq(Roots \X Nat) /\ (read = <<>> \/ \E x \in Roots \X Nat : read = <<x>>)
      <4>1. \A S : <<>> \in Seq(S)
        BY EmptySeq
      <4>2. \A S : \A x \in S : <<x>> \in Seq(S)
        OBVIOUS
      <4>3. accepts => index = <<virt[1].l2>> /\ page = <<virt[1]>> /\ virt[1] \in Virts
                       /\ virt[1].l2 \in Nat
        BY <3>3
      <4>4. basePops => /\ sub = <<i[1] % 2>> /\ i[1] % 2 \in {0, 1}
                        /\ read = <<<<Bases[1], i[1] \div 2>>>>
                        /\ <<Bases[1], i[1] \div 2>> \in Roots \X Nat
        BY <3>1, <3>2, LeafIndex
      <4>5. (~accepts => index = <<>> /\ page = <<>>) /\ (~basePops => sub = <<>> /\ read = <<>>)
        BY <3>1
      <4> HIDE DEF index, page, sub, read, basePops, accepts
      <4> QED BY <4>1, <4>2, <4>3, <4>4, <4>5
    <3>9. /\ Pops(pageOffsetFifo, itemTaken) = itemTaken
          /\ Pops(itemSubIndexFifo, itemTaken) = itemTaken
          /\ Pops(lvl2indxFifo, basePops) = basePops
      BY DEF Pops
    <3>10. /\ p \in {0, 1} /\ q \in {0, 1} /\ k \in {0, 1}
           /\ One(index) = k /\ One(page) = k /\ One(sub) = q /\ One(read) = q
           /\ (k = 1 => accepts) /\ (q = 1 => basePops)
      BY <3>2, <3>4, <3>5, <3>6, <3>7 DEF AsNumber
    <3>11. itemTaken => mem_reads # <<>>
      BY <2>3
    <3>12. /\ basePops = (dataRd /\ readData # <<>>) /\ dataRd \in BOOLEAN /\ accepts \in BOOLEAN
           /\ (accepts => rEn)
      OBVIOUS
    <3> HIDE DEF index, page, sub, read, item, bad, basePops, accepts, itemTaken
    <3>13. /\ FifoOk(pageOffsetFifo', Virts) /\ FifoSize(pageOffsetFifo') = nv - p + k /\ p <= nv
           /\ Moved(v, v', nv, p, k, virt[1])
      <4>1. FifoOk(FifoStep(pageOffsetFifo, page, itemTaken), Virts)
        BY <2>1, <3>8, FifoStepWords
      <4>2. /\ FifoSize(FifoStep(pageOffsetFifo, page, itemTaken)) = nv - p + k /\ p <= nv
            /\ Moved(v, Waiting(FifoStep(pageOffsetFifo, page, itemTaken)), nv, p, k, page[1])
        BY <2>1, <3>8, <3>9, <3>10, FifoStepNumbers
      <4>3. Moved(v, v', nv, p, k, page[1])
        BY <1>1, <4>2
      <4> HIDE DEF v, nv, p, k
      <4>4. Moved(v, v', nv, p, k, virt[1])
        BY <2>2, <3>4, <3>10, <4>3, MovedAny
      <4> QED BY <1>1, <4>1, <4>2, <4>4 DEF nv
    <3>14. /\ FifoOk(lvl2indxFifo', Nat) /\ FifoSize(lvl2indxFifo') = ni - q + k /\ q <= ni
           /\ Moved(i, i', ni, q, k, virt[1].l2)
      <4>1. FifoOk(FifoStep(lvl2indxFifo, index, basePops), Nat)
        BY <2>1, <3>8, FifoStepWords
      <4>2. /\ FifoSize(FifoStep(lvl2indxFifo, index, basePops)) = ni - q + k /\ q <= ni
            /\ Moved(i, Waiting(FifoStep(lvl2indxFifo, index, basePops)), ni, q, k, index[1])
        BY <2>1, <3>8, <3>9, <3>10, FifoStepNumbers
      <4>3. Moved(i, i', ni, q, k, index[1])
        BY <1>1, <4>2
      <4> HIDE DEF i, ni, q, k
      <4>4. Moved(i, i', ni, q, k, virt[1].l2)
        BY <2>2, <3>4, <3>10, <4>3, MovedAny
      <4> QED BY <1>1, <4>1, <4>2, <4>4
    <3>15. /\ FifoOk(itemSubIndexFifo', {0, 1}) /\ FifoSize(itemSubIndexFifo') = ns - p + q /\ p <= ns
           /\ Moved(s, s', ns, p, q, i[1] % 2)
      <4>1. FifoOk(FifoStep(itemSubIndexFifo, sub, itemTaken), {0, 1})
        BY <2>1, <3>8, FifoStepWords
      <4>2. /\ FifoSize(FifoStep(itemSubIndexFifo, sub, itemTaken)) = ns - p + q /\ p <= ns
            /\ Moved(s, Waiting(FifoStep(itemSubIndexFifo, sub, itemTaken)), ns, p, q, sub[1])
        BY <2>1, <3>8, <3>9, <3>10, FifoStepNumbers
      <4>3. Moved(s, s', ns, p, q, sub[1])
        BY <1>1, <4>2
      <4> HIDE DEF s, ns, p, q, i
      <4>4. Moved(s, s', ns, p, q, i[1] % 2)
        BY <2>2, <3>6, <3>10, <4>3, MovedAny
      <4> QED BY <1>1, <4>1, <4>2, <4>4
    <3>16. /\ mem_reads' \in Seq(Roots \X Nat) /\ Len(mem_reads') = ns - p + q
           /\ Moved(mem_reads, mem_reads', ns, p, q, <<Bases[1], i[1] \div 2>>)
      <4> DEFINE new == (IF itemTaken THEN Tail(mem_reads) ELSE mem_reads) \o read
      <4>1. /\ new \in Seq(Roots \X Nat) /\ Len(new) = ns - p + q
            /\ Moved(mem_reads, new, ns, p, q, read[1])
        <5>1. /\ mem_reads \in Seq(Roots \X Nat) /\ ns = Len(mem_reads) /\ One(read) = q
              /\ read \in Seq(Roots \X Nat) /\ (read = <<>> \/ \E x \in Roots \X Nat : read = <<x>>)
          BY <2>1, <3>8, <3>10
        <5>. PICK T : T = Roots \X Nat
          OBVIOUS
        <5>2. /\ new \in Seq(T) /\ Len(new) = Len(mem_reads) - p + One(read)
              /\ Moved(mem_reads, new, Len(mem_reads), p, One(read), read[1])
          BY <3>11, <5>1, QueueNumbers
        <5> QED BY <5>1, <5>2
      <4>2. mem_reads' = new
        BY <1>1
      <4> HIDE DEF new, ns, p, q, i
      <4>3. Moved(mem_reads, new, ns, p, q, <<Bases[1], i[1] \div 2>>)
        BY <2>2, <3>6, <3>10, <4>1, MovedAny
      <4> QED BY <4>1, <4>2, <4>3
    <3>17. /\ BasesInv' /\ BaseCount' = ni - q + k
           /\ Moved(Bases, Bases', ni, q, k, RootTable[virt[1].l1])
      <4>. PICK root : root = RootTable[virt[1].l1]
        OBVIOUS
      <4>1. accepts => root \in Roots
        BY <3>3
      <4> HIDE DEF basePops, dataRd, accepts
      <4>2. /\ BasesInv' /\ BaseCount' = ni - AsNumber(dataRd /\ readData # <<>>) + AsNumber(accepts)
            /\ Moved(Bases, Bases', ni, AsNumber(dataRd /\ readData # <<>>), AsNumber(accepts), root)
        BY <1>1, <2>1, <3>12, <4>1, BasesMove
      <4> QED BY <3>12, <4>2
    <3>18. q = 1 => Bases[1] # BadBase
      BY <3>2, <3>10
    <3> HIDE DEF v, i, s, nv, ns, ni, p, q, k
    <3>19. InStep(v', nv - p + k, i', ni - q + k, s', ns - p + q, mem_reads', Bases')
      <4>1. InStep(v, nv, i, ni, s, ns, mem_reads, Bases)
        BY <2>1
      <4>2. Moves(v, nv, i, ni, s, ns, mem_reads, Bases, p, q, k, virt[1],
                  v', i', s', mem_reads', Bases')
        BY <2>2, <3>10, <3>13, <3>14, <3>15, <3>16, <3>17, <3>18 DEF Moves
      <4> QED BY <4>1, <4>2, InStepMoves
    <3> QED BY <3>13, <3>14, <3>15, <3>16, <3>17, <3>19 DEF Aligned, v, i, s
  <2> QED BY <1>2, <2>4, <2>5 DEF MmuInv
<1> QED BY <1>2, <1>3, <1>4

---------------------------------------------------------------------------
(* The three side by side *)

StructInv == UploadInv /\ ListInv /\ MmuInv

LEMMA StructStarts ==
    StructInit => StructInv
BY UploadStarts, ListStarts, MmuStarts DEF StructInit, StructInv

LEMMA StructKeepsInv ==
    StructInv /\ [StructNext]_structVars => StructInv'
<1> SUFFICES ASSUME StructInv, [StructNext]_structVars PROVE StructInv'
  OBVIOUS
<1>1. UploadInv /\ ListInv /\ MmuInv
  BY DEF StructInv
<1>2. ASSUME UNCHANGED upVars PROVE UploadInv'
  <2>1. UNCHANGED <<st, buff, buff_offset, remaining, sizeOfitems, lastWordCntr, timeoutCntr,
                    uploadedCntr, next_slot, up_burst>>
    BY <1>2 DEF upVars
  <2> QED BY <1>1, <2>1
     DEF UploadInv, OffsetInv, TimerInv, SendingInv, NotAcked, FromSlot
<1>3. ASSUME UNCHANGED listVars PROVE ListInv'
  <2>1. UNCHANGED <<downloadPending, baseIndex, inBlockRemain, rdPtr, wrPtr, dataFifo, list_pos, dl>>
    BY <1>3 DEF listVars
  <2> QED BY <1>1, <2>1 DEF ListInv, PlaceInv, BurstInv, Distance
<1>4. ASSUME UNCHANGED mmuVars PROVE MmuInv'
  <2>1. UNCHANGED <<read_pending, readData, readDataOverflow, lvl2indxFifo, pageOffsetFifo,
                    itemSubIndexFifo, segfaultFlag, mem_reads, translated>>
    BY <1>4 DEF mmuVars
  <2>2. BaseCount' = BaseCount /\ Bases' = Bases
    BY <2>1 DEF BaseCount, Bases
  <2>3. BasesInv' = BasesInv
    BY <2>1 DEF BasesInv
  <2>4. Aligned' = Aligned
    BY <2>1, <2>2, <2>3 DEF Aligned
  <2>5. TranslationsMatch' = TranslationsMatch
    BY <2>1 DEF TranslationsMatch
  <2> QED BY <1>1, <2>1, <2>4, <2>5 DEF MmuInv
<1>5. CASE UploadNext /\ UNCHANGED <<listVars, mmuVars>>
  <2>1. UNCHANGED listVars /\ UNCHANGED mmuVars
    BY <1>5
  <2>. PICK vld \in BOOLEAN, req_rd \in BOOLEAN, w_rd \in BOOLEAN, ack \in Acks :
          UploadCycle(vld, req_rd, w_rd, ack)
    BY <1>5 DEF UploadNext
  <2>2. ack \in BOOLEAN
    BY DEF Acks
  <2> QED BY <1>1, <1>3, <1>4, <2>1, <2>2, UploadKeepsInv DEF StructInv
<1>6. CASE ListNext /\ UNCHANGED <<upVars, mmuVars>>
  <2>1. UNCHANGED upVars /\ UNCHANGED mmuVars
    BY <1>6
  <2> QED BY <1>1, <1>2, <1>4, <1>6, <2>1, ListKeepsInv DEF StructInv, ListNext
<1>7. CASE MmuNext /\ UNCHANGED <<upVars, listVars>>
  <2>1. UNCHANGED upVars /\ UNCHANGED listVars
    BY <1>7
  <2> QED BY <1>1, <1>2, <1>3, <1>7, <2>1, MmuKeepsInv DEF StructInv, MmuNext
<1>8. CASE UNCHANGED structVars
  BY <1>1, <1>2, <1>3, <1>4, <1>8 DEF structVars, StructInv
<1> QED BY <1>5, <1>6, <1>7, <1>8 DEF StructNext

\* For every number of slots, items in a block and length of bursts, every list, root table and
\* set of mapped pages: ArrayBuff_writer sends each item to its slot, also when the buffer wraps,
\* a request is cut at its end or the time is over, and uploadedCntr counts the acknowledged ones;
\* CLinkedListReader asks for the items of the list in order, follows the link at the end of a
\* block, and never for more than there are or fit; MMU_2pageLvl answers an address with its own
\* leaf item, whatever waits in its fifos, and none after a page that is not mapped.
THEOREM StructuresStay ==
    StructSpec => []StructuresAreKept
<1>1. StructInv => StructuresAreKept
  BY ItemsFollow, ItemsInOrder DEF StructInv, MmuInv, StructuresAreKept
<1>2. StructInit => StructInv
  BY StructStarts
<1>3. StructInv /\ [StructNext]_structVars => StructInv'
  BY StructKeepsInv
<1> QED BY <1>1, <1>2, <1>3, PTL DEF StructSpec
===========================================================================
