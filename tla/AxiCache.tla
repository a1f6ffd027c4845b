------------------------------ MODULE AxiCache ------------------------------
(***************************************************************************)
(* hwtLib.amba.axi_comp.cache: AxiCacheWriteAllocWawOnlyWritePropagating   *)
(* and its AxiCacheTagArray.  One action is one clock.  A write is looked  *)
(* up (a RAM that answers one clock later), gets its way or a victim       *)
(* (st0), and is written to the data array, which flushes the line that    *)
(* was there; a read is looked up and answered from the array or from the  *)
(* memory.  The data array is a RamTransactional with items of several     *)
(* words: here an item is written, and the old one flushed, as a whole.    *)
(* The array of pseudo LRU bits only decides who is the victim, which is   *)
(* any way here.                                                           *)
(***************************************************************************)
EXTENDS Naturals, FiniteSets

CONSTANTS
    Lines,             \* addresses of cache lines, records of an index and a tag
    Ways,              \* numbered from 0
    NoTag,             \* of an entry that is not valid
    Stale,             \* data that are no more, or never were, the latest of a line
    SAME_SET_OVERLAP   \* a write follows an unfinished one to its set

VARIABLES
    tag_mem,           \* for each index and way
    update_tmp,        \* the update of the last clock
    lookup_tmp,        \* for each port "r", "w": the line that is looked up
    tag_dout,          \* for each port the output of tag_mem
    st0,               \* the write that gets a victim
    item_open,           \* the data array is busy with the words of an item
    init_cntr,         \* index to clear, Indexes + 1 when init_in_progress is over
    \* data, as the lines of which they are the latest
    data_array, memory

cacheVars ==
    <<tag_mem, update_tmp, lookup_tmp, tag_dout, st0, item_open, init_cntr, data_array, memory>>

Indexes == {l.index : l \in Lines}
Tags == {l.tag : l \in Lines}
init_in_progress == init_cntr \in Indexes

ASSUME CacheAssumption ==
    /\ Ways \in SUBSET Nat /\ Ways # {}
    /\ Lines \subseteq [index : Nat, tag : Tags]
    /\ IsFiniteSet(Indexes) /\ Indexes = 0 .. Cardinality(Indexes) - 1
    /\ NoTag \notin Tags /\ Stale \notin Tags

---------------------------------------------------------------------------
(* AxiCacheTagArray: lookup *)

JustUpdated(line) == {u \in update_tmp : u.index = line.index}

\* Ways with the tag, corrected by an update the RAM did not show yet.
FoundWays_AsRead(line, tags) == {w \in Ways : tags[w] = line.tag}

FoundWays(line, tags) ==
    {w \in Ways : tags[w] = line.tag /\ \A u \in JustUpdated(line) : w \notin u.way_en}
    \cup UNION {u.way_en : u \in {v \in JustUpdated(line) : ~v.delete /\ v.tag = line.tag}}

\* A port takes a line when its last one leaves, otherwise it looks up the last one again.
NextLookup(port, line, lookupRes_rd) ==
    IF lookup_tmp[port] = {} \/ lookupRes_rd THEN line ELSE lookup_tmp[port]

NextDout(port, line, lookupRes_rd) ==
    LET looked_up == NextLookup(port, line, lookupRes_rd) IN
    IF looked_up = {} THEN tag_dout[port] ELSE tag_mem[(CHOOSE l \in looked_up : TRUE).index]

\* The entries of an index after an update.
NextTags(update) ==
    [i \in Indexes |-> [w \in Ways |->
        IF \E u \in update : u.index = i /\ w \in u.way_en
        THEN LET u == CHOOSE v \in update : TRUE IN IF u.delete THEN NoTag ELSE u.tag
        ELSE tag_mem[i][w]]]

---------------------------------------------------------------------------
(* Writes *)

EmptyWays(s) == {w \in Ways : s.tags[w] = NoTag}
NeedToFlush(s) == ~s.tag_found /\ EmptyWays(s) = {}

\* resolve_victim: the way of the tag, else the first empty way, else the victim.
VictimWay(s, victim_way) ==
    IF s.tag_found THEN s.found_way
    ELSE IF EmptyWays(s) # {} THEN CHOOSE w \in EmptyWays(s) : \A v \in EmptyWays(s) : w <= v
    ELSE victim_way

St0(line, tags) ==
    [line |-> line, tags |-> tags, tag_found |-> FoundWays(line, tags) # {},
     found_way |-> IF FoundWays(line, tags) = {} THEN 0 ELSE CHOOSE w \in FoundWays(line, tags) : TRUE]

\* The update of tag_mem: an entry is cleared in the beginning, or set when the data array
\* takes the write.
Update(da_w_rd, victim_way) ==
    IF init_in_progress
    THEN {[index |-> init_cntr, tag |-> NoTag, way_en |-> Ways, delete |-> TRUE]}
    ELSE {[index |-> s.line.index, tag |-> s.line.tag, delete |-> FALSE,
           way_en |-> {VictimWay(s, victim_way)}] : s \in {t \in st0 : da_w_rd}}

\* The data array takes write s: the latest data of its line are now there.
DataStored(s, way) ==
    [i \in Indexes |-> [w \in Ways |->
        IF i # s.line.index THEN data_array[i][w]
        ELSE IF w = way THEN s.line.tag
        ELSE IF data_array[i][w] = s.line.tag THEN Stale ELSE data_array[i][w]]]

\* What was in the way goes to the address made of the tag of the victim and the index.
Flushed(s, way) ==
    LET victim == [index |-> s.line.index, tag |-> s.tags[way]]
        old    == data_array[s.line.index][way]
    IN  IF ~NeedToFlush(s) THEN memory \ {s.line}
        ELSE (IF old = victim.tag THEN memory \cup {victim} ELSE memory \ {victim}) \ {s.line}

---------------------------------------------------------------------------
(* One clock *)

\* The master offers the lines of aw and ar (one or none each), the data array would take a
\* write, it finishes the item it writes (with its answer at s.b), read results are taken.
CacheCycle(aw, ar, da_rd, done, r_rd, victim_way) ==
    LET da_w_rd  == da_rd /\ (~item_open \/ done)
        st0_rd   == st0 = {} \/ da_w_rd
        w_line   == IF init_in_progress THEN {} ELSE aw
        r_line   == IF init_in_progress THEN {} ELSE ar
        update   == Update(da_w_rd, victim_way)
    IN
    /\ update_tmp' = update
    /\ tag_mem' = NextTags(update)
    /\ lookup_tmp' = [r |-> NextLookup("r", r_line, r_rd), w |-> NextLookup("w", w_line, st0_rd)]
    /\ tag_dout' = [r |-> NextDout("r", r_line, r_rd), w |-> NextDout("w", w_line, st0_rd)]
    /\ st0' = IF st0_rd THEN {St0(l, tag_dout["w"]) : l \in lookup_tmp["w"]} ELSE st0
    /\ item_open' = ((st0 # {} /\ da_w_rd) \/ (item_open /\ ~done))
    /\ init_cntr' = IF init_in_progress THEN init_cntr + 1 ELSE init_cntr
    /\ IF st0 # {} /\ da_w_rd
       THEN \E s \in st0 : /\ data_array' = DataStored(s, VictimWay(s, victim_way))
                           /\ memory' = Flushed(s, VictimWay(s, victim_way))
       ELSE UNCHANGED <<data_array, memory>>

AnyTags == [Ways -> Tags \cup {NoTag}]

\* The RAM of the tags holds anything before it is cleared.
CacheInit ==
    /\ tag_mem \in [Indexes -> {f \in AnyTags : \A v, w \in Ways : f[v] = f[w]}]
    /\ update_tmp = {}
    /\ lookup_tmp = [r |-> {}, w |-> {}]
    /\ tag_dout \in [{"r", "w"} -> {[w \in Ways |-> NoTag]}]
    /\ st0 = {} /\ item_open = FALSE
    /\ init_cntr = 0
    /\ data_array = [i \in Indexes |-> [w \in Ways |-> Stale]]
    /\ memory = Lines

\* The writes whose tags are not yet where a lookup sees them.
UnderWay == lookup_tmp["w"] \cup {s.line : s \in st0}
            \cup {[index |-> u.index, tag |-> u.tag] : u \in update_tmp}

Offer == {{}} \cup {{l} : l \in Lines}

CacheNext ==
    \E aw, ar \in Offer, da_rd, done, r_rd \in BOOLEAN, victim_way \in Ways :
        /\ SAME_SET_OVERLAP \/ \A l \in aw, u \in UnderWay : l.index # u.index
        /\ CacheCycle(aw, ar, da_rd, done, r_rd, victim_way)

CacheSpec == CacheInit /\ [][CacheNext]_cacheVars

---------------------------------------------------------------------------
(* Properties *)

\* The latest data of every line are where a lookup of it leads: in the only way with its
\* tag, or in the memory when there is no such way.  And what the lookup for a read says in
\* this clock is what the tags are now, whatever was updated meanwhile.
LinesAreKept ==
    ~init_in_progress =>
        /\ \A l \in Lines :
               LET here == {w \in Ways : tag_mem[l.index][w] = l.tag} IN
               /\ Cardinality(here) <= 1
               /\ \A w \in here : data_array[l.index][w] = l.tag
               /\ here = {} => l \in memory
        /\ \A l \in lookup_tmp["r"] :
               FoundWays(l, tag_dout["r"]) = {w \in Ways : tag_mem[l.index][w] = l.tag}
===========================================================================
