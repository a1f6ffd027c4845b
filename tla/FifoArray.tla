----------------------------- MODULE FifoArray -----------------------------
(***************************************************************************)
(* hwtLib.mem.fifoArray.FifoArray: list nodes in one memory, with which    *)
(* its user keeps any number of FIFOs.  The component knows nodes, not     *)
(* lists: the user remembers head and tail of each of its lists from the   *)
(* addresses the component answers with.                                   *)
(***************************************************************************)
EXTENDS Naturals, Sequences, FiniteSets

CONSTANTS
    ARRAY_ITEMS,  \* ITEMS, a power of two
    Data, Undef,
    MAX_LISTS,    \* bound: the lists that the user keeps at once
    STRAY_ADDR    \* the user gives any addr with the first item of a list

VARIABLES
    item_valid, item_last,  \* bitmaps, as sets of addresses
    insert_addr_next,
    values, next_ptrs,
    lists                   \* the user's lists: [head, tail, items]

arrayVars == <<item_valid, item_last, insert_addr_next, values, next_ptrs, lists>>

ASSUME ArrayAssumption == ARRAY_ITEMS \in Nat \ {0}

Addresses == 0 .. ARRAY_ITEMS - 1

ArrayInit ==
    /\ item_valid = {} /\ item_last = {}
    /\ insert_addr_next = 0
    /\ values = [a \in Addresses |-> Undef]
    /\ next_ptrs = [a \in Addresses |-> 0]
    /\ lists = {}

---------------------------------------------------------------------------
\* oneHotToBin: the lowest index, the highest one when there is none.
OneHotToBin(set) ==
    IF set = {} THEN ARRAY_ITEMS - 1 ELSE CHOOSE a \in set : \A b \in set : a <= b

\* The slot for the next item is chosen from the bitmap as it will be.
NextInsertAddr(valid) == OneHotToBin(Addresses \ valid)

InsertRd == item_valid # Addresses
PopVld == item_valid # {}
PopLast(addr) == addr \in item_last /\ addr \in item_valid

NextItemLast_KeepsParent(insert) ==
    item_last \cup {insert_addr_next : i \in insert}
NextItemLast(insert) ==
    (item_last \ {i.addr : i \in {j \in insert : j.append}})
        \cup {insert_addr_next : i \in insert}

\* One clock edge: insert is {} or {[addr, append, data]}, pop is {} or {addr}, as accepted.
ArrayCycle(insert, pop) ==
    /\ item_valid' = (item_valid \ pop) \cup {insert_addr_next : i \in insert}
    /\ item_last' = NextItemLast(insert)
    /\ insert_addr_next' = NextInsertAddr(item_valid')
    /\ values' = [a \in Addresses |->
                     IF insert # {} /\ a = insert_addr_next
                     THEN (CHOOSE i \in insert : TRUE).data ELSE values[a]]
    /\ next_ptrs' = [a \in Addresses |->
                        IF \E i \in insert : i.addr = a THEN insert_addr_next ELSE next_ptrs[a]]

---------------------------------------------------------------------------
(* The user. *)

\* The addr that comes with a new list: that of the new node, unless it may be any.
NewListAddrs == IF STRAY_ADDR THEN Addresses ELSE {insert_addr_next}

\* A list after the pop of its head; none when that was its last item.
AfterPop(l) ==
    IF PopLast(l.head) THEN {}
    ELSE {[l EXCEPT !.head = next_ptrs[l.head], !.items = Tail(@)]}

\* A list after an item was appended; if its last item leaves in the same cycle the item
\* starts a new list.
AfterAppend(rest, data) ==
    IF rest = {} THEN {[head |-> insert_addr_next, tail |-> insert_addr_next, items |-> <<data>>]}
    ELSE {[l EXCEPT !.tail = insert_addr_next, !.items = Append(@, data)] : l \in rest}

\* `to' and `from' are the lists that are appended to and popped, {} for none; new is a new list.
UserCycle(to, new, from, data, addr) ==
    LET inserts == (to # {} \/ new) /\ InsertRd
        insert == IF ~inserts THEN {}
                  ELSE IF new THEN {[addr |-> addr, append |-> FALSE, data |-> data]}
                  ELSE {[addr |-> l.tail, append |-> TRUE, data |-> data] : l \in to}
        pop == IF PopVld THEN {l.head : l \in from} ELSE {}
        popped(l) == IF l.head \in pop THEN AfterPop(l) ELSE {l}
    IN /\ ArrayCycle(insert, pop)
       /\ lists' = (UNION {IF inserts /\ l \in to THEN AfterAppend(popped(l), data) ELSE popped(l)
                              : l \in lists})
                   \cup (IF inserts /\ new THEN AfterAppend({}, data) ELSE {})

ArrayNext ==
    \E to \in {{}} \cup {{l} : l \in lists}, from \in {{}} \cup {{l} : l \in lists},
       new \in BOOLEAN, data \in Data, addr \in NewListAddrs :
        /\ ~(new /\ to # {})
        /\ new => Cardinality(lists) < MAX_LISTS
        /\ UserCycle(to, new, from, data, addr)

ArraySpec == ArrayInit /\ [][ArrayNext]_arrayVars

---------------------------------------------------------------------------
(* Properties *)

\* The node that is reached after n steps from the head of a list.
Node(l, n) ==
    LET From[i \in 0 .. n] == IF i = 0 THEN l.head ELSE next_ptrs[From[i - 1]]
    IN From[n]

Nodes(l) == {Node(l, n) : n \in 0 .. Len(l.items) - 1}

\* Every list of the user is in the memory, whatever happens to the others: the links lead
\* from its head over its items, in their order, to its tail, which alone is marked last; no
\* node is in two lists, none is lost, and the slot for the next item is in none.
ListsAreIntact ==
    /\ \A l \in lists :
          /\ Node(l, Len(l.items) - 1) = l.tail
          /\ Cardinality(Nodes(l)) = Len(l.items)
          /\ \A n \in 1 .. Len(l.items) : values[Node(l, n - 1)] = l.items[n]
          /\ Nodes(l) \cap item_last = {l.tail}
    /\ \A l, m \in lists : l # m => Nodes(l) \cap Nodes(m) = {}
    /\ UNION {Nodes(l) : l \in lists} = item_valid
    /\ InsertRd => insert_addr_next \notin item_valid
===========================================================================
