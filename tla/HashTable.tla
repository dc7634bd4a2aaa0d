----------------------------- MODULE HashTable -----------------------------
(***************************************************************************)
(* The open-addressing hash table of src/htable.c, at the level of its     *)
(* slots: htable_search, htable_insert, htable_update_str, htable_set,     *)
(* htable_del and the incremental loop of htable_resize.                   *)
(*                                                                         *)
(* A call is one action, except that a call that triggers htable_resize    *)
(* leaves pc = "rehash", where the only steps are the iterations of the    *)
(* resize loop (the server is single-threaded: no other call runs until    *)
(* the loop ends).  The value of an item is whatever its void pointer      *)
(* leads to; its type is the business of the typed layers above.           *)
(***************************************************************************)
EXTENDS OpenAddressing

CONSTANT Values   \* what a stored pointer leads to

Item == [key : Keys, value : Values \cup {NULL}]
Slot == Item \cup {NULL, DELETED}

ASSUME ItemAssumption == NULL \notin Values \cup Item /\ DELETED \notin Item

VARIABLES size, used, items,             \* the table the server holds
          newSize, newUsed, newItems,    \* new_ht, the table a resize fills
          scan,                          \* i, the next slot the resize moves
          pc,                            \* "idle", "rehash" or "nested"
          ret                            \* the last call and what it returned

table == <<size, used, items>>
newTable == <<newSize, newUsed, newItems, scan>>
vars == <<table, newTable, pc, ret>>

-----------------------------------------------------------------------------
(* The slot's item is not a tombstone and its key is k. *)
Holds(slot, k) == ~ Free(slot) /\ slot.key = k

(* The probe loop of search, update and delete stops at index i with a match. *)
Hit(tab, n, k, i) ==
    /\ Holds(tab[hash_func(k, n, i)], k)
    /\ \A j \in 0 .. (i - 1) : LET slot == tab[hash_func(k, n, j)]
                               IN  slot # NULL /\ ~ Holds(slot, k)

htable_exists(tab, n, k) == \E i \in Slots(n) : Hit(tab, n, k, i)

(* What htable_search finds: the value of the item it stops at. *)
htable_get(tab, n, k) ==
    IF htable_exists(tab, n, k)
    THEN tab[hash_func(k, n, CHOOSE i \in Slots(n) : Hit(tab, n, k, i))].value
    ELSE NULL

Call(op, k, res) == [op |-> op, key |-> k, res |-> res]

Init ==
    /\ size = next_prime(HT_BASE_SIZE)
    /\ used = 0
    /\ items = EmptyTable(size)
    /\ newSize = 0 /\ newUsed = 0 /\ newItems = EmptyTable(0) /\ scan = 0
    /\ pc = "idle"
    /\ ret = Call("none", NULL, FALSE)

-----------------------------------------------------------------------------
NoResize == pc' = "idle" /\ UNCHANGED newTable

(* Broken variant: the loop starts at slot 1. *)
StartResize_late(n) ==
    IF n < HT_BASE_SIZE
    THEN NoResize
    ELSE /\ next_prime(n) <= MaxSize
         /\ pc' = "rehash"
         /\ newSize' = next_prime(n) /\ newUsed' = 0
         /\ newItems' = EmptyTable(newSize')
         /\ scan' = 1

(* htable_resize(ht, n) up to the head of its loop. *)
StartResize(n) ==
    IF n < HT_BASE_SIZE
    THEN NoResize
    ELSE /\ next_prime(n) <= MaxSize
         /\ pc' = "rehash"
         /\ newSize' = next_prime(n) /\ newUsed' = 0
         /\ newItems' = EmptyTable(newSize')
         /\ scan' = 0

(* Broken variant: the table grows only when it is more than full. *)
htable_resize_up_full(u) == IF Load(u, size) > 100 THEN StartResize(2 * size) ELSE NoResize

htable_resize_up(u) == IF Load(u, size) > 70 THEN StartResize(2 * size) ELSE NoResize
htable_resize_down(u) == IF Load(u, size) < 10 THEN StartResize(size \div 2) ELSE NoResize

htable_update_str(k, v) ==
    /\ \E i \in Slots(size) :
        /\ Hit(items, size, k, i)
        /\ items' = [items EXCEPT ![hash_func(k, size, i)] = [key |-> k, value |-> v]]
    /\ ret' = Call("set", k, FALSE)
    /\ NoResize
    /\ UNCHANGED <<size, used>>

(* The loop may end without a slot: nothing is stored, nothing is reported. *)
htable_insert(k, v) ==
    \/ /\ \E i \in Slots(size) :
            /\ FirstFree(items, size, k, i)
            /\ items' = [items EXCEPT ![hash_func(k, size, i)] = [key |-> k, value |-> v]]
       /\ used' = used + 1
       /\ htable_resize_up(used')
       /\ UNCHANGED size
    \/ /\ Blocked(items, size, k)
       /\ NoResize
       /\ UNCHANGED table

(* Broken variant: the key is not looked up first. *)
htable_set_blind(k, v) ==
    /\ pc = "idle"
    /\ htable_insert(k, v)
    /\ ret' = Call("set", k, TRUE)

htable_set(k, v) ==
    /\ pc = "idle"
    /\ \/ htable_exists(items, size, k) /\ htable_update_str(k, v)
       \/ /\ ~ htable_exists(items, size, k)
          /\ htable_insert(k, v)
          /\ ret' = Call("set", k, TRUE)

(* Broken variants: the deleted slot becomes NULL, and used is decremented   *)
(* whether or not the key is found.                                          *)
htable_del_null(k) ==
    /\ pc = "idle"
    /\ htable_exists(items, size, k)
    /\ items' = [s \in Slots(size) |-> IF Holds(items[s], k) THEN NULL ELSE items[s]]
    /\ used' = used - 1
    /\ htable_resize_down(used')
    /\ ret' = Call("del", k, TRUE)
    /\ UNCHANGED size
htable_del_uncounted(k) ==
    /\ pc = "idle"
    /\ ~ htable_exists(items, size, k)
    /\ used' = used - 1
    /\ ret' = Call("del", k, FALSE)
    /\ NoResize
    /\ UNCHANGED <<size, items>>

htable_del(k) ==
    /\ pc = "idle"
    /\ \/ /\ \E i \in Slots(size) :
                /\ Hit(items, size, k, i)
                /\ items' = [items EXCEPT ![hash_func(k, size, i)] = DELETED]
          /\ used' = used - 1
          /\ htable_resize_down(used')
          /\ ret' = Call("del", k, TRUE)
          /\ UNCHANGED size
       \/ /\ ~ htable_exists(items, size, k)
          /\ ret' = Call("del", k, FALSE)
          /\ NoResize
          /\ UNCHANGED table

-----------------------------------------------------------------------------
(* htable_insert(new_ht, ...) of the item in slot scan.  If new_ht itself   *)
(* passed the load limit it would be resized in turn: pc = "nested" stands  *)
(* for that recursion, which has no further steps here.                     *)
MoveItem ==
    LET k == items[scan].key IN
    \/ /\ \E i \in Slots(newSize) :
            /\ FirstFree(newItems, newSize, k, i)
            /\ newItems' = [newItems EXCEPT ![hash_func(k, newSize, i)] = items[scan]]
       /\ newUsed' = newUsed + 1
       /\ pc' = IF Load(newUsed', newSize) > 70 THEN "nested" ELSE "rehash"
    \/ /\ Blocked(newItems, newSize, k)
       /\ UNCHANGED <<newItems, newUsed, pc>>

(* Broken variants: item_swap keeps the old item's pointer to the value, and *)
(* the loop passes over free slots only.                                     *)
Rehash_shared ==
    /\ pc = "rehash" /\ scan < size
    /\ IF Free(items[scan]) THEN UNCHANGED <<newItems, newUsed, pc>> ELSE MoveItem
    /\ scan' = scan + 1
    /\ UNCHANGED <<size, used, items, newSize, ret>>
Rehash_stuck ==
    /\ pc = "rehash" /\ scan < size
    /\ Free(items[scan])
    /\ scan' = scan + 1
    /\ UNCHANGED <<table, newSize, newUsed, newItems, pc, ret>>

(* One iteration of the resize loop: item_swap, or nothing for a free slot. *)
Rehash ==
    /\ pc = "rehash" /\ scan < size
    /\ \/ /\ ~ Free(items[scan])
          /\ MoveItem
          /\ items' = [items EXCEPT ![scan].value = NULL]
       \/ /\ Free(items[scan])
          /\ UNCHANGED <<items, newItems, newUsed, pc>>
    /\ scan' = scan + 1
    /\ UNCHANGED <<size, used, newSize, ret>>

(* The tables swap their size and items, not their used; the old is freed. *)
FinishResize ==
    /\ pc = "rehash" /\ scan = size
    /\ size' = newSize /\ items' = newItems
    /\ newSize' = 0 /\ newUsed' = 0 /\ newItems' = EmptyTable(0) /\ scan' = 0
    /\ pc' = "idle"
    /\ UNCHANGED <<used, ret>>

Next ==
    \/ \E k \in Keys : htable_del(k) \/ \E v \in Values : htable_set(k, v)
    \/ Rehash
    \/ FinishResize

Spec == Init /\ [][Next]_vars

(* The resize loop is straight-line code of the one server thread. *)
FairSpec == Spec /\ WF_vars(Rehash \/ FinishResize)

-----------------------------------------------------------------------------
(* Type invariant. *)
TypeOK ==
    /\ size \in HT_BASE_SIZE .. MaxSize /\ used \in 0 .. MaxSize
    /\ items \in [Slots(size) -> Slot]
    /\ newSize \in 0 .. MaxSize /\ newUsed \in 0 .. newSize
    /\ newItems \in [Slots(newSize) -> Slot]
    /\ scan \in 0 .. size
    /\ pc \in {"idle", "rehash", "nested"}
    /\ ret \in [op : {"none", "set", "del"}, key : Keys \cup {NULL}, res : BOOLEAN]

(* The probe loop of a lookup ends at the very slot of every live item: no   *)
(* NULL slot cuts the path to it, no other item of its key shadows it.       *)
Reachable(tab, n) ==
    \A s \in LiveSlots(tab, n) : \E i \in Slots(n) :
        /\ hash_func(tab[s].key, n, i) = s
        /\ Hit(tab, n, tab[s].key, i)

(* htable_search, htable_update_str and htable_del find every item that is   *)
(* in the table, through any mix of inserts, tombstones and resizes.         *)
LookupFindsStored == Reachable(items, size) /\ Reachable(newItems, newSize)

(* used never falls below the number of occupied slots (it exceeds it when a *)
(* resize has lost keys), and with the load limit that leaves a free slot in *)
(* the table between calls, which is what ends the probe loops.  An insert   *)
(* into new_ht never resizes new_ht in turn: htable_resize is not reentered  *)
(* although its call graph is recursive.                                     *)
UsedBounds ==
    /\ Cardinality(LiveSlots(items, size)) <= used
    /\ newUsed = Cardinality(LiveSlots(newItems, newSize))
    /\ pc = "idle" => used < size /\ Load(used, size) <= 70
    /\ pc # "nested"

(* A value pointer has one owner: item_swap clears it in the old table, so   *)
(* htable_free(new_ht) cannot free a value that the new table still holds,   *)
(* and no item that a lookup can return has lost its value.                  *)
OneOwner ==
    \A s \in LiveSlots(items, size) :
        items[s].value = NULL <=> pc = "rehash" /\ s < scan

-----------------------------------------------------------------------------
(* What the table holds for k: during a resize, what has been moved and what *)
(* is still to be moved.                                                     *)
Contents(k) ==
    LET moved   == {newItems[s].value : s \in {t \in Slots(newSize) : Holds(newItems[t], k)}}
        waiting == {items[s].value : s \in {t \in scan .. (size - 1) : Holds(items[t], k)}}
    IN  IF moved \cup waiting = {} THEN NULL ELSE CHOOSE v \in moved \cup waiting : TRUE

Promise == INSTANCE Dictionary WITH
    Absent <- NULL, dict <- [k \in Keys |-> Contents(k)],
    last <- ret, resizing <- pc # "idle"

(* The slots implement the abstract map: each call has the effect and the    *)
(* answer of a map's, except that an insert may be refused and a resize may  *)
(* lose keys.                                                                *)
RefinesDictionary == Promise!Spec

(* A key is refused only if its step is 0, so that one slot is all it ever   *)
(* probes, and disappears without a delete only in a resize, if its step in  *)
(* the new table is 0.  For other keys the table is an exact map.            *)
OnlyZeroStepsAreLost ==
    [][\A k \in Keys :
        /\ Contents(k) # NULL /\ Contents(k)' = NULL =>
               \/ pc = "idle" /\ ret' = Call("del", k, TRUE)
               \/ pc = "rehash" /\ Step(k, newSize) = 0
        /\ pc = "idle" /\ ret' = Call("set", k, TRUE) /\ Contents(k)' = NULL =>
               Step(k, size) = 0]_vars

(* A resize ends and the table serves calls again. *)
ResizeEnds == pc # "idle" ~> pc = "idle"

(* examples.md, "SET name ... OK, GET name ...": a key that was set is there. *)
SetIsStored ==
    pc = "idle" /\ ret.op = "set" => htable_exists(items, size, ret.key)
=============================================================================
