-------------------------- MODULE CuckooHashTable --------------------------
(***************************************************************************)
(* hwtLib.mem.cuckooHashTable.CuckooHashTable over the table engines of    *)
(* hashTableCore.py: a key is in the slot of its hash in one of the        *)
(* tables.  An item that finds all of its slots occupied takes the place   *)
(* of another one, which goes into the stash and is inserted in its turn,  *)
(* at most MAX_REINSERT times.                                             *)
(***************************************************************************)
EXTENDS Naturals, Sequences

CONSTANTS
    TABLE_CNT, TABLE_ITEMS,  \* TABLE_SIZE \div TABLE_CNT
    Keys, TableData,
    NoItem,                  \* a slot that is not valid
    Hash,                    \* of each key in each table
    MAX_LOOKUP_OVERLAP, MAX_REINSERT,
    PIPE,                    \* lookups that the table engines hold
    DELETE_ABSENT,           \* a key that is not in the table may be deleted
    TABLES_STALL             \* the table engines may refuse a write

Tables == 0 .. TABLE_CNT - 1
Slots == 0 .. TABLE_ITEMS - 1
Items == [key : Keys, data : TableData]

\* log2ceil
Width(n) == CHOOSE w \in 0 .. n : 2 ^ w >= n /\ \A v \in 0 .. w - 1 : 2 ^ v < n
CounterSize == 2 ^ Width(MAX_LOOKUP_OVERLAP - 1)

\* lookup_in_progress can count the lookups that the engines and the stash hold, or those that
\* are let in.  With an overlap of one more than a power of two only the former helps.
ASSUME CuckooParams ==
    /\ TABLE_CNT \in Nat \ {0} /\ TABLE_ITEMS \in Nat \ {0}
    /\ \A t \in Tables, k \in Keys : Hash[t][k] \in Slots
    /\ NoItem \notin Items
    /\ MAX_REINSERT \in Nat \ {0}
    /\ MAX_LOOKUP_OVERLAP \in Nat \ {0} /\ PIPE \in Nat /\ CounterSize \in Nat
    /\ PIPE + 1 < CounterSize \/ MAX_LOOKUP_OVERLAP - 1 < CounterSize

VARIABLES
    fsm,                 \* insertFsm
    stash,
    insertTargetOH,      \* as a set of tables
    insertFinal,
    cleanupAddr,
    lookup_in_progress,
    tables,              \* the memories of the engines
    pipe,                \* lookups in the engines, with what was read for them
    res_vld,             \* the engines offer the result of the first one
    answer               \* what was transferred on insertRes or lookupRes

cuckooVars == <<fsm, stash, insertTargetOH, insertFinal, cleanupAddr, lookup_in_progress,
                tables, pipe, res_vld, answer>>

NoStash == [op |-> "DELETE", item |-> NoItem, key |-> NoItem, reinsert_cntr |-> 0]
NoAnswer == [port |-> "none"]

\* After a clean, which the power up of a memory needs.
CuckooInit ==
    /\ fsm = "idle"
    /\ stash = NoStash
    /\ insertTargetOH \in SUBSET Tables
    /\ insertFinal \in BOOLEAN
    /\ cleanupAddr = 0
    /\ lookup_in_progress = 0
    /\ tables = [t \in Tables |-> [s \in Slots |-> NoItem]]
    /\ pipe = <<>>
    /\ res_vld = FALSE
    /\ answer = NoAnswer

---------------------------------------------------------------------------
(* The table engines (HashTableCore). *)

\* lookupLogic: the items in the slots of the key.
LookupResult(key) == [key |-> key, items |-> [t \in Tables |-> tables[t][Hash[t][key]]]]

Found(res) == {t \in Tables : res.items[t] # NoItem /\ res.items[t].key = res.key}
Empty(res) == {t \in Tables : res.items[t] = NoItem}

TablesRd == Len(pipe) < PIPE

First(set) == CHOOSE t \in set : \A u \in set : t <= u

\* What the engines offer after the lookups became p: a result is not withdrawn.
NextResVld(p, pop) ==
    IF p = <<>> THEN {FALSE} ELSE IF res_vld /\ ~pop THEN {TRUE} ELSE BOOLEAN

Engines(send, pop) ==
    /\ pipe' = (IF pop THEN Tail(pipe) ELSE pipe)
               \o (IF send THEN <<LookupResult(stash.key)>> ELSE <<>>)
    /\ res_vld' \in NextResVld(pipe', pop)

\* insertLogic: tables_insert_driver gives one address to all of them.
Written(targets, index, item) ==
    [t \in Tables |-> IF t \in targets THEN [tables[t] EXCEPT ![index] = item] ELSE tables[t]]

\* tables_lookupRes_resolver: where the item goes.
NextTarget(res) ==
    IF Found(res) # {} THEN Found(res)
    ELSE IF Empty(res) # {} THEN {First(Empty(res))}
    ELSE IF insertTargetOH # {} THEN {(t + TABLE_CNT - 1) % TABLE_CNT : t \in insertTargetOH}
    ELSE {TABLE_CNT - 1}

NextFinal(res) == Found(res) # {} \/ Empty(res) # {}

---------------------------------------------------------------------------
(* idle: cmd is what is accepted from the ports of the user. *)

LookupNotInProgress == lookup_in_progress = 0 /\ stash.op # "LOOKUP"

\* rd of clean, delete and insert, and of lookup.
CmdRd(cmd) ==
    CASE cmd.port = "none" -> TRUE
      [] cmd.port = "lookup" -> /\ stash.op # "LOOKUP" \/ TablesRd
                                /\ lookup_in_progress # MAX_LOOKUP_OVERLAP - 1
      [] OTHER -> LookupNotInProgress

NextStash(cmd) ==
    CASE cmd.port = "clean" -> NoStash
      [] cmd.port = "delete" -> [NoStash EXCEPT !.key = cmd.key]
      [] cmd.port = "insert" -> [op |-> "INSERT", item |-> [key |-> cmd.key, data |-> cmd.data],
                                 key |-> cmd.key, reinsert_cntr |-> MAX_REINSERT]
      [] cmd.port = "lookup" -> [NoStash EXCEPT !.op = "LOOKUP", !.key = cmd.key]
      [] OTHER -> IF TablesRd THEN NoStash ELSE stash

LookupAnswer ==
    LET res == Head(pipe) IN
    [port |-> "lookupRes", key |-> res.key,
     items |-> {res.items[t] : t \in Found(res)}]

Idle(cmd, rd) ==
    LET send == stash.op = "LOOKUP" /\ TablesRd
        pop == res_vld /\ rd
    IN /\ fsm = "idle"
       /\ CmdRd(cmd)
       /\ stash' = NextStash(cmd)
       /\ fsm' = CASE cmd.port = "clean" -> "cleaning"
                   [] cmd.port \in {"insert", "delete"} -> "lookup"
                   [] OTHER -> "idle"
       /\ lookup_in_progress' =
             IF (cmd.port = "lookup") = pop THEN lookup_in_progress
             ELSE IF pop THEN (lookup_in_progress + CounterSize - 1) % CounterSize
             ELSE (lookup_in_progress + 1) % CounterSize
       /\ Engines(send, pop)
       /\ answer' = IF pop THEN LookupAnswer ELSE NoAnswer
       /\ UNCHANGED <<insertTargetOH, insertFinal, cleanupAddr, tables>>

\* clean_addr_iterator: every slot of every table, one after the other.
Cleaning(ins_rd) ==
    LET last == cleanupAddr = TABLE_ITEMS - 1 IN
    /\ fsm = "cleaning"
    /\ IF ins_rd
       THEN /\ tables' = Written(Tables, cleanupAddr, NoItem)
            /\ cleanupAddr' = IF last THEN 0 ELSE cleanupAddr + 1
            /\ fsm' = IF last THEN "idle" ELSE fsm
       ELSE UNCHANGED <<tables, cleanupAddr, fsm>>
    /\ answer' = NoAnswer
    /\ UNCHANGED <<stash, insertTargetOH, insertFinal, lookup_in_progress, pipe, res_vld>>

\* lookup: an item that was displaced too often leaves through insertRes.
TimedOut == stash.op = "INSERT" /\ stash.reinsert_cntr = 0

LookupForInsert(rd) ==
    /\ fsm = "lookup"
    /\ IF TimedOut
       THEN /\ fsm' = IF rd THEN "idle" ELSE fsm
            /\ stash' = IF rd THEN NoStash ELSE stash
            /\ answer' = IF rd THEN [port |-> "insertRes", pop |-> TRUE, item |-> stash.item]
                         ELSE NoAnswer
            /\ Engines(FALSE, FALSE)
       ELSE /\ fsm' = IF TablesRd THEN "lookupResWaitRd" ELSE fsm
            /\ answer' = NoAnswer
            /\ Engines(TablesRd, FALSE)
            /\ UNCHANGED stash
    /\ UNCHANGED <<insertTargetOH, insertFinal, cleanupAddr, lookup_in_progress, tables>>

LookupResWaitRd ==
    /\ fsm = "lookupResWaitRd"
    /\ IF res_vld
       THEN /\ insertTargetOH' = NextTarget(Head(pipe))
            /\ insertFinal' = NextFinal(Head(pipe))
            /\ fsm' = "lookupResAck"
       ELSE UNCHANGED <<insertTargetOH, insertFinal, fsm>>
    /\ answer' = NoAnswer
    /\ Engines(FALSE, FALSE)
    /\ UNCHANGED <<stash, cleanupAddr, lookup_in_progress, tables>>

\* lookupResAck: the item is written and what was in its place goes to the stash.
Displaced == LET t == First(insertTargetOH) IN Head(pipe).items[t]

NextStashOfAck_KeepsCount == [stash EXCEPT !.item = Displaced, !.key = Displaced.key]
NextStashOfAck_KeepsItem == [stash EXCEPT !.reinsert_cntr = @ - 1]
NextStashOfAck ==
    [stash EXCEPT !.item = Displaced, !.key = Displaced.key, !.reinsert_cntr = @ - 1]

LookupResAck(ins_rd, rd) ==
    LET isDelete == stash.op # "INSERT"
        index == Hash[First(insertTargetOH)][Head(pipe).key]
        done == isDelete \/ (ins_rd /\ insertFinal /\ rd)
        next == done \/ (ins_rd /\ ~insertFinal)
    IN /\ fsm = "lookupResAck"
       /\ tables' = IF ins_rd THEN Written(insertTargetOH, index, stash.item) ELSE tables
       /\ fsm' = IF done THEN "idle" ELSE IF next THEN "lookup" ELSE fsm
       /\ stash' = IF done THEN NoStash ELSE IF next THEN NextStashOfAck ELSE stash
       /\ answer' = IF done /\ ~isDelete
                    THEN [port |-> "insertRes", pop |-> FALSE, item |-> stash.item] ELSE NoAnswer
       /\ Engines(FALSE, next)
       /\ UNCHANGED <<insertTargetOH, insertFinal, cleanupAddr, lookup_in_progress>>

---------------------------------------------------------------------------
(* What the table holds: the item in the stash that is to be inserted counts, and it is the *)
(* newer one when its key is also in a table.                                               *)

InHand == IF stash.op = "INSERT" /\ fsm # "idle" THEN {stash.item} ELSE {}

Stored ==
    LET inTables == {tables[t][s] : t \in Tables, s \in Slots} \ {NoItem}
    IN {i \in inTables : \A h \in InHand : i.key # h.key} \cup InHand

Without(key) == {i \in Stored : i.key # key}

Commands ==
    {[port |-> "none"], [port |-> "clean"]}
    \cup [port : {"lookup"}, key : Keys]
    \cup [port : {"delete"}, key : IF DELETE_ABSENT THEN Keys ELSE {i.key : i \in Stored}]
    \cup [port : {"insert"}, key : Keys, data : TableData]

InsRd == IF TABLES_STALL THEN BOOLEAN ELSE {TRUE}

CuckooStep(rd, ins_rd) ==
    \/ \E cmd \in Commands : Idle(cmd, rd)
    \/ Cleaning(ins_rd)
    \/ LookupForInsert(rd)
    \/ LookupResWaitRd
    \/ LookupResAck(ins_rd, rd)

CuckooNext == \E rd \in BOOLEAN, ins_rd \in InsRd : CuckooStep(rd, ins_rd)

CuckooSpec == CuckooInit /\ [][CuckooNext]_cuckooVars

---------------------------------------------------------------------------
(* Properties *)

\* The component is a map.  An insert sets one key from the moment it is accepted, however
\* many items it moves; a delete removes its key and no other; an item is dropped only when
\* insertRes says so, and it is the one that insertRes names; a lookup is answered with
\* what is stored.
MapStep ==
    /\ Stored' =
            IF fsm = "idle" /\ stash'.op = "INSERT"
            THEN {i \in Stored : i.key # stash'.key} \cup {stash'.item}
            ELSE IF answer'.port = "insertRes" /\ answer'.pop THEN Stored \ {answer'.item}
            ELSE IF fsm = "lookupResAck" /\ stash.op = "DELETE" THEN Without(Head(pipe).key)
            ELSE IF fsm = "cleaning" /\ fsm' = "idle" THEN {}
            ELSE IF fsm = "cleaning" THEN Stored \cap Stored'
            ELSE Stored
    /\ answer'.port = "insertRes" => answer'.item \in Stored
    /\ answer'.port = "lookupRes" => answer'.items = {i \in Stored : i.key = answer'.key}

MapIsKept == [][MapStep]_cuckooVars
===========================================================================
