-------------------------- MODULE HashTableProofs --------------------------
(***************************************************************************)
(* The invariants of HashTable, that it implements the map of Dictionary,  *)
(* and the properties of HashKey: for every set of keys, every pair of     *)
(* hash functions and every table size, and commands of any length.        *)
(***************************************************************************)
EXTENDS HashKey, OpenAddressingProofs

(***************************************************************************)
(* One table: what inserting, replacing and deleting do to Reachable.      *)
(***************************************************************************)

(* A well-formed table whose live slots are S and are all reachable. *)
GoodTable(tab, n, S) ==
    /\ tab \in [Slots(n) -> Slot]
    /\ LiveSlots(tab, n) = S
    /\ Reachable(tab, n)

(* A live slot holds an item with a key of Keys. *)
LEMMA LiveSlotIsItem ==
    ASSUME NEW n \in Nat, NEW tab \in [Slots(n) -> Slot], NEW s \in LiveSlots(tab, n)
    PROVE  /\ s \in Slots(n) /\ tab[s] \in Item /\ tab[s].key \in Keys
           /\ tab[s].value \in Values \cup {NULL}
BY DEF LiveSlots, Free, Slot, Item

(* In a reachable table a key has at most one live slot. *)
LEMMA OneSlotPerKey ==
    ASSUME NEW n \in Nat, NEW tab \in [Slots(n) -> Slot], Reachable(tab, n),
           NEW s \in LiveSlots(tab, n), NEW t \in LiveSlots(tab, n),
           tab[s].key = tab[t].key
    PROVE  s = t
<1> DEFINE k == tab[s].key
<1>1. PICK i \in Slots(n) : hash_func(k, n, i) = s /\ Hit(tab, n, k, i)
  BY DEF Reachable
<1>2. PICK j \in Slots(n) : hash_func(k, n, j) = t /\ Hit(tab, n, k, j)
  BY DEF Reachable
<1>3. ~ (i < j) /\ ~ (j < i)
  BY <1>1, <1>2 DEF Hit, Slots
<1> QED  BY <1>1, <1>2, <1>3 DEF Slots

(* In a reachable table a lookup that fails means that the key is absent. *)
LEMMA LookupIsComplete ==
    ASSUME NEW n \in Nat, NEW tab \in [Slots(n) -> Slot], Reachable(tab, n),
           NEW k \in Keys, ~ htable_exists(tab, n, k), NEW s \in LiveSlots(tab, n)
    PROVE  tab[s].key # k
BY DEF Reachable, htable_exists

(* Storing an item of a key that is absent, in the first free slot of its    *)
(* probe sequence, keeps every item reachable.                               *)
LEMMA InsertKeepsReachable ==
    ASSUME NEW n \in Sizes, NEW tab \in [Slots(n) -> Slot], Reachable(tab, n),
           NEW k \in Keys, NEW item \in Item, item.key = k,
           \A s \in LiveSlots(tab, n) : tab[s].key # k,
           NEW i \in Slots(n), FirstFree(tab, n, k, i),
           NEW new, new = [tab EXCEPT ![hash_func(k, n, i)] = item]
    PROVE  /\ GoodTable(new, n, LiveSlots(tab, n) \cup {hash_func(k, n, i)})
           /\ hash_func(k, n, i) \notin LiveSlots(tab, n)
<1> DEFINE h == hash_func(k, n, i)
<1>1. h \in Slots(n) /\ n \in Nat
  <2>1. h \in Slots(n)
    BY ProbeStaysInTable
  <2> QED  BY <2>1, TableAssumption DEF Sizes
<1>2. ~ Free(item) /\ item \in Slot
  BY TableAssumption, ItemAssumption DEF Free, Slot
<1>3. new \in [Slots(n) -> Slot]
  BY <1>1, <1>2
<1>4. LiveSlots(new, n) = LiveSlots(tab, n) \cup {h} /\ h \notin LiveSlots(tab, n)
  BY <1>1, <1>2 DEF LiveSlots, FirstFree
<1>5. ASSUME NEW s \in LiveSlots(new, n)
      PROVE  \E j \in Slots(n) : /\ hash_func(new[s].key, n, j) = s
                                 /\ Hit(new, n, new[s].key, j)
  <2>1. CASE s = h
    <3>1. new[s] = item /\ Holds(item, k)
      BY <1>1, <1>2, <2>1 DEF Holds
    <3>2. ASSUME NEW j \in 0 .. (i - 1)
          PROVE  /\ hash_func(k, n, j) # h
                 /\ tab[hash_func(k, n, j)] # NULL
                 /\ ~ Holds(tab[hash_func(k, n, j)], k)
      <4>1. j \in Slots(n)
        BY <1>1 DEF Slots
      <4>2. hash_func(k, n, j) \in Slots(n)
        BY <4>1, ProbeStaysInTable
      <4> QED  BY <1>1, <4>2 DEF FirstFree, Free, Holds, LiveSlots
    <3>3. Hit(new, n, k, i)
      <4>1. \A j \in 0 .. (i - 1) : j \in Slots(n)
        BY <1>1 DEF Slots
      <4>2. \A j \in 0 .. (i - 1) : new[hash_func(k, n, j)] = tab[hash_func(k, n, j)]
        BY <3>2, <4>1, ProbeStaysInTable
      <4> QED  BY <2>1, <3>1, <3>2, <4>2 DEF Hit
    <3> QED  BY <2>1, <3>1, <3>3
  <2>2. CASE s # h
    <3>1. s \in LiveSlots(tab, n) /\ new[s] = tab[s] /\ tab[s].key # k /\ tab[s].key \in Keys
      BY <1>1, <1>4, <2>2, LiveSlotIsItem
    <3> DEFINE q == tab[s].key
    <3>2. PICK j \in Slots(n) : hash_func(q, n, j) = s /\ Hit(tab, n, q, j)
      BY <3>1 DEF Reachable
    <3>3. ASSUME NEW m \in 0 .. (j - 1)
          PROVE  new[hash_func(q, n, m)] # NULL /\ ~ Holds(new[hash_func(q, n, m)], q)
      <4>1. hash_func(q, n, m) \in Slots(n)
        <5>1. m \in Slots(n)
          BY <1>1 DEF Slots
        <5> QED  BY <3>1, <5>1, ProbeStaysInTable
      <4>2. CASE hash_func(q, n, m) = h
        BY <1>1, <1>2, <3>1, <4>2 DEF Holds, Free
      <4>3. CASE hash_func(q, n, m) # h
        BY <3>2, <4>1, <4>3 DEF Hit
      <4> QED  BY <4>2, <4>3
    <3>4. Hit(new, n, q, j)
      BY <3>1, <3>2, <3>3 DEF Hit
    <3> QED  BY <3>1, <3>2, <3>4
  <2> QED  BY <2>1, <2>2
<1> QED  BY <1>3, <1>4, <1>5 DEF Reachable, GoodTable

(* Leaving a tombstone in the place of an item keeps the others reachable. *)
LEMMA DeleteKeepsReachable ==
    ASSUME NEW n \in Sizes, NEW tab \in [Slots(n) -> Slot], Reachable(tab, n),
           NEW h \in LiveSlots(tab, n),
           NEW new, new = [tab EXCEPT ![h] = DELETED]
    PROVE  GoodTable(new, n, LiveSlots(tab, n) \ {h})
<1>1. h \in Slots(n) /\ n \in Nat
  BY TableAssumption DEF LiveSlots, Sizes
<1>2. Free(DELETED) /\ DELETED # NULL
  BY TableAssumption, ItemAssumption DEF Free
<1>3. new \in [Slots(n) -> Slot] /\ LiveSlots(new, n) = LiveSlots(tab, n) \ {h}
  BY <1>1, <1>2 DEF LiveSlots, Slot
<1>4. ASSUME NEW s \in LiveSlots(new, n)
      PROVE  \E j \in Slots(n) : /\ hash_func(new[s].key, n, j) = s
                                 /\ Hit(new, n, new[s].key, j)
  <2>1. s \in LiveSlots(tab, n) /\ s # h /\ new[s] = tab[s] /\ tab[s].key \in Keys
    BY <1>1, <1>3, LiveSlotIsItem
  <2> DEFINE q == tab[s].key
  <2>2. PICK j \in Slots(n) : hash_func(q, n, j) = s /\ Hit(tab, n, q, j)
    BY <2>1 DEF Reachable
  <2>3. ASSUME NEW m \in 0 .. (j - 1)
        PROVE  new[hash_func(q, n, m)] # NULL /\ ~ Holds(new[hash_func(q, n, m)], q)
    <3>1. hash_func(q, n, m) \in Slots(n)
      BY <1>1, <2>1, ProbeStaysInTable DEF Slots
    <3> QED  BY <1>1, <1>2, <2>2, <3>1 DEF Hit, Holds
  <2>4. Hit(new, n, q, j)
    BY <2>1, <2>2, <2>3 DEF Hit
  <2> QED  BY <2>1, <2>2, <2>4
<1> QED  BY <1>3, <1>4 DEF Reachable, GoodTable

(* Changing the value of an item, and not its key, keeps all reachable. *)
LEMMA UpdateKeepsReachable ==
    ASSUME NEW n \in Sizes, NEW tab \in [Slots(n) -> Slot], Reachable(tab, n),
           NEW h \in LiveSlots(tab, n), NEW item \in Item, item.key = tab[h].key,
           NEW new, new = [tab EXCEPT ![h] = item]
    PROVE  GoodTable(new, n, LiveSlots(tab, n))
<1>1. h \in Slots(n) /\ n \in Nat /\ ~ Free(tab[h])
  BY TableAssumption DEF LiveSlots, Sizes
<1>2. ~ Free(item) /\ item \in Slot
  BY TableAssumption, ItemAssumption DEF Free, Slot
<1>3. new \in [Slots(n) -> Slot] /\ LiveSlots(new, n) = LiveSlots(tab, n)
  BY <1>1, <1>2 DEF LiveSlots
<1>4. \A s \in Slots(n) : /\ \A q : Holds(new[s], q) <=> Holds(tab[s], q)
                          /\ new[s] = NULL <=> tab[s] = NULL
  BY <1>1, <1>2 DEF Holds, Free
<1>5. ASSUME NEW s \in LiveSlots(new, n)
      PROVE  \E j \in Slots(n) : /\ hash_func(new[s].key, n, j) = s
                                 /\ Hit(new, n, new[s].key, j)
  <2>1. s \in LiveSlots(tab, n) /\ new[s].key = tab[s].key /\ tab[s].key \in Keys
    BY <1>1, <1>3, LiveSlotIsItem
  <2> DEFINE q == tab[s].key
  <2>2. PICK j \in Slots(n) : hash_func(q, n, j) = s /\ Hit(tab, n, q, j)
    BY <2>1 DEF Reachable
  <2>3. \A m \in 0 .. j : hash_func(q, n, m) \in Slots(n)
    BY <1>1, <2>1, ProbeStaysInTable DEF Slots
  <2>4. Hit(new, n, q, j)
    BY <1>1, <1>4, <2>2, <2>3 DEF Hit, Slots
  <2> QED  BY <2>1, <2>2, <2>4
<1> QED  BY <1>3, <1>5 DEF Reachable, GoodTable

(* A new table holds nothing. *)
LEMMA EmptyTableIsReachable ==
    ASSUME NEW n \in Nat
    PROVE  /\ EmptyTable(n) \in [Slots(n) -> Slot]
           /\ LiveSlots(EmptyTable(n), n) = {}
           /\ Reachable(EmptyTable(n), n)
BY DEF EmptyTable, LiveSlots, Reachable, Slot, Free

(***************************************************************************)
(* The inductive invariant.  TypeOK alone is not inductive (used - 1 could *)
(* be negative), nor is LookupFindsStored (a moved key could be in the new *)
(* table already), so the parts below are proved together.                 *)
(***************************************************************************)
Waiting == {s \in LiveSlots(items, size) : s >= scan}

Shape ==
    /\ size \in HT_BASE_SIZE .. MaxSize /\ used \in Nat
    /\ items \in [Slots(size) -> Slot]
    /\ newSize \in Nat /\ newUsed \in Nat
    /\ newItems \in [Slots(newSize) -> Slot]
    /\ scan \in 0 .. size
    /\ ret \in [op : {"none", "set", "del"}, key : Keys \cup {NULL}, res : BOOLEAN]
    /\ \/ pc = "idle" /\ newSize = 0 /\ newUsed = 0 /\ scan = 0
       \/ pc = "rehash" /\ newSize \in HT_BASE_SIZE .. MaxSize

(* What was moved and what is still to be moved fit in what used counts. *)
Counted ==
    /\ Cardinality(LiveSlots(items, size)) <= used
    /\ newUsed = Cardinality(LiveSlots(newItems, newSize))
    /\ newUsed + Cardinality(Waiting) <= Cardinality(LiveSlots(items, size))

(* The load limit holds in the table that the next call will see. *)
LoadLimit ==
    /\ pc = "idle" => used * 100 < 71 * size
    /\ pc = "rehash" => used * 100 < 71 * newSize

(* What the new table holds was moved there from a slot below scan. *)
MovedFromBelow ==
    \A t \in LiveSlots(newItems, newSize) :
        /\ newItems[t].value # NULL
        /\ \E s \in LiveSlots(items, size) : s < scan /\ items[s].key = newItems[t].key

IInv ==
    /\ Shape
    /\ LookupFindsStored
    /\ Counted
    /\ LoadLimit
    /\ MovedFromBelow
    /\ OneOwner

(* htable_init leaves a table that satisfies the inductive invariant.        *)
THEOREM InitEstablishesIInv == Init => IInv
<1> SUFFICES ASSUME Init PROVE IInv
  OBVIOUS
<1>1. size \in HT_BASE_SIZE .. MaxSize
  <2>1. HT_BASE_SIZE \in 2 .. 2 * MaxSize
    BY TableAssumption
  <2>2. next_prime(HT_BASE_SIZE) \in HT_BASE_SIZE .. 2 * HT_BASE_SIZE
    BY <2>1, NextPrimeBounds
  <2> QED  BY <2>2, TableAssumption DEF Init
<1>2. size \in Nat /\ 0 \in Nat
  BY <1>1, TableAssumption
<1>3. /\ items \in [Slots(size) -> Slot] /\ LiveSlots(items, size) = {}
      /\ Reachable(items, size)
      /\ newItems \in [Slots(newSize) -> Slot] /\ LiveSlots(newItems, newSize) = {}
      /\ Reachable(newItems, newSize)
  BY <1>2, EmptyTableIsReachable DEF Init
<1>4. Shape
  BY <1>1, <1>2, <1>3, TableAssumption, ItemAssumption DEF Init, Shape, Call
<1>5. Counted
  <2>1. Waiting = {}
    BY <1>3 DEF Waiting
  <2> QED  BY <1>3, <2>1, FS_EmptySet DEF Init, Counted
<1> QED  BY <1>1, <1>2, <1>3, <1>4, <1>5, TableAssumption, ItemAssumption
         DEF IInv, Init, LookupFindsStored, LoadLimit, MovedFromBelow, OneOwner

(***************************************************************************)
(* A call on an idle table either leaves it idle or opens a resize.        *)
(***************************************************************************)
Ret == [op : {"none", "set", "del"}, key : Keys \cup {NULL}, res : BOOLEAN]

(* A resize that starts has room in its new table for all that used counts. *)
LEMMA ResizeStartsWithRoom ==
    ASSUME Shape, LoadLimit, pc = "idle", used' \in Nat,
           \/ NoResize /\ used' * 100 < 71 * size
           \/ htable_resize_up(used') /\ used' = used + 1
           \/ htable_resize_down(used') /\ used' = used - 1
    PROVE  \/ NoResize /\ used' * 100 < 71 * size
           \/ /\ pc' = "rehash" /\ newUsed' = 0 /\ scan' = 0
              /\ newSize' \in Nat /\ newSize' \in HT_BASE_SIZE .. MaxSize
              /\ newItems' = EmptyTable(newSize')
              /\ used' * 100 < 71 * newSize'
<1> USE ConstantFacts
<1>1. size \in Nat \ {0} /\ used \in Nat /\ size >= 2 /\ used * 100 < 71 * size
  BY DEF Shape, LoadLimit
<1>2. CASE NoResize /\ used' * 100 < 71 * size
  BY <1>2
<1>3. CASE htable_resize_up(used') /\ used' = used + 1
  <2>1. CASE Load(used', size) <= 70
    <3>1. used' * 100 < 71 * size
      BY <1>1, <2>1, LoadBound
    <3>2. ~ (Load(used', size) > 70)
      BY <1>1, <2>1, LoadBound
    <3> QED  BY <1>3, <3>1, <3>2 DEF htable_resize_up
  <2>2. CASE Load(used', size) > 70
    <3>1. ~ (2 * size < HT_BASE_SIZE) /\ 2 * size \in 2 .. 2 * MaxSize
      BY <1>1 DEF Shape
    <3>2. next_prime(2 * size) \in 2 * size .. 2 * (2 * size)
      BY <3>1, NextPrimeBounds
    <3>3. StartResize(2 * size)
      BY <1>3, <2>2 DEF htable_resize_up
    <3>4. newSize' \in Nat /\ newSize' >= 2 * size /\ newSize' \in HT_BASE_SIZE .. MaxSize
      BY <1>1, <3>1, <3>2, <3>3 DEF StartResize
    <3>5. used' * 100 < 71 * newSize'
      BY <1>1, <1>3, <3>4, RoomAfterGrowing
    <3> QED  BY <3>1, <3>3, <3>4, <3>5 DEF StartResize
  <2>3. Load(used', size) \in Nat
    BY <1>1, LoadBound
  <2> QED  BY <2>1, <2>2, <2>3
<1>4. CASE htable_resize_down(used') /\ used' = used - 1
  <2>1. used' * 100 < 71 * size
    BY <1>1, <1>4
  <2>2. CASE ~ (Load(used', size) < 10 /\ size \div 2 >= HT_BASE_SIZE)
    BY <1>1, <1>4, <2>1, <2>2 DEF htable_resize_down, StartResize
  <2>3. CASE Load(used', size) < 10 /\ size \div 2 >= HT_BASE_SIZE
    <3> DEFINE half == size \div 2
    <3>1. half \in Nat /\ 2 * half <= size /\ size <= 2 * half + 1
      BY <1>1
    <3>2. half \in 2 .. 2 * MaxSize /\ ~ (half < HT_BASE_SIZE)
      BY <1>1, <2>3, <3>1 DEF Shape
    <3>3. used' * 100 < 10 * size
      BY <1>1, <2>3, LoadBound
    <3>4. next_prime(half) \in half .. 2 * half
      BY <3>2, NextPrimeBounds
    <3>5. StartResize(half)
      BY <1>4, <2>3 DEF htable_resize_down
    <3> HIDE DEF half
    <3>6. newSize' \in Nat /\ newSize' >= half /\ newSize' \in HT_BASE_SIZE .. MaxSize
      BY <3>1, <3>2, <3>4, <3>5 DEF StartResize
    <3>7. used' * 100 < 71 * newSize'
      BY <1>1, <3>1, <3>3, <3>6, RoomAfterShrinking
    <3> QED  BY <3>2, <3>5, <3>6, <3>7 DEF StartResize
  <2> QED  BY <2>2, <2>3
<1> QED  BY <1>2, <1>3, <1>4

(* What an idle call must establish for its slots and its counter. *)
LEMMA IdleCallKeepsIInv ==
    ASSUME IInv, pc = "idle", size' = size,
           items' \in [Slots(size) -> Slot], Reachable(items', size),
           \A s \in LiveSlots(items', size) : items'[s].value # NULL,
           used' \in Nat, Cardinality(LiveSlots(items', size)) <= used',
           ret' \in Ret,
           \/ NoResize /\ used' * 100 < 71 * size
           \/ htable_resize_up(used') /\ used' = used + 1
           \/ htable_resize_down(used') /\ used' = used - 1
    PROVE  IInv'
<1> USE ConstantFacts
<1>1. \/ NoResize /\ used' * 100 < 71 * size
      \/ /\ pc' = "rehash" /\ newUsed' = 0 /\ scan' = 0
         /\ newSize' \in Nat /\ newSize' \in HT_BASE_SIZE .. MaxSize
         /\ newItems' = EmptyTable(newSize')
         /\ used' * 100 < 71 * newSize'
  BY ResizeStartsWithRoom DEF IInv
<1>2. newUsed' = 0 /\ scan' = 0 /\ newSize' \in Nat
  BY <1>1 DEF IInv, Shape, NoResize, newTable
<1>3. /\ newItems' \in [Slots(newSize') -> Slot]
      /\ LiveSlots(newItems', newSize') = {}
      /\ Reachable(newItems', newSize')
  <2>1. CASE NoResize
    <3>1. newSize = 0 /\ newSize' = 0 /\ newItems' = newItems
      BY <2>1 DEF IInv, Shape, NoResize, newTable
    <3>2. LiveSlots(newItems, 0) = {}
      BY DEF LiveSlots, Slots
    <3> QED  BY <3>1, <3>2 DEF IInv, Shape, LookupFindsStored
  <2>2. CASE newItems' = EmptyTable(newSize')
    BY <1>2, <2>2, EmptyTableIsReachable
  <2> QED  BY <1>1, <2>1, <2>2
<1>4. Shape'
  <2>1. size \in HT_BASE_SIZE .. MaxSize
    BY DEF IInv, Shape
  <2>2. \/ pc' = "idle" /\ newSize' = 0
        \/ pc' = "rehash" /\ newSize' \in HT_BASE_SIZE .. MaxSize
    BY <1>1 DEF IInv, Shape, NoResize, newTable
  <2> QED  BY <1>2, <1>3, <2>1, <2>2 DEF Shape, Ret
<1>5. LookupFindsStored'
  BY <1>3 DEF LookupFindsStored
<1>6. Counted'
  <2>1. Waiting' \subseteq LiveSlots(items', size)
    BY DEF Waiting
  <2>2. size \in Nat
    BY DEF IInv, Shape
  <2>3. /\ Cardinality(Waiting') \in Nat
        /\ Cardinality(Waiting') <= Cardinality(LiveSlots(items', size))
    BY <2>1, <2>2, LiveSlotsFinite, FS_Subset, FS_CardinalityType
  <2>4. Cardinality(LiveSlots(newItems', newSize')) = 0
    BY <1>3, FS_EmptySet
  <2> QED  BY <1>2, <2>3, <2>4, <2>2, LiveSlotsFinite DEF Counted
<1>7. LoadLimit'
  BY <1>1 DEF LoadLimit, NoResize
<1>8. MovedFromBelow'
  BY <1>3 DEF MovedFromBelow
<1>9. OneOwner'
  <2>1. \A s \in LiveSlots(items', size) : ~ (s < scan')
    BY <1>2 DEF LiveSlots, Slots, IInv, Shape
  <2> QED  BY <2>1 DEF OneOwner
<1> QED  BY <1>4, <1>5, <1>6, <1>7, <1>8, <1>9 DEF IInv

(* A slot where a lookup hits is a live slot of the key looked up. *)
LEMMA HitIsLive ==
    ASSUME NEW n \in Sizes, NEW tab, NEW k \in Keys, NEW i \in Slots(n),
           Hit(tab, n, k, i)
    PROVE  /\ hash_func(k, n, i) \in LiveSlots(tab, n)
           /\ tab[hash_func(k, n, i)].key = k
BY ProbeStaysInTable DEF Hit, Holds, LiveSlots

(* The record of a call has the type of ret. *)
LEMMA CallIsRet ==
    ASSUME NEW op \in {"none", "set", "del"}, NEW k \in Keys \cup {NULL}, NEW b \in BOOLEAN
    PROVE  Call(op, k, b) \in Ret
BY DEF Call, Ret

(***************************************************************************)
(* Each action keeps the invariant.                                        *)
(***************************************************************************)

(* htable_set, as an update, as an insert that may start a resize, and as an *)
(* insert that finds no slot.                                                *)
LEMMA SetKeepsIInv ==
    ASSUME IInv, NEW k \in Keys, NEW v \in Values, htable_set(k, v)
    PROVE  IInv'
<1>0. /\ size \in Sizes
      /\ items \in [Slots(size) -> Slot] /\ Reachable(items, size)
  BY ConstantFacts DEF IInv, Shape, LookupFindsStored, Sizes
<1>1. /\ pc = "idle" /\ size \in Nat /\ used \in Nat
      /\ used * 100 < 71 * size
      /\ Cardinality(LiveSlots(items, size)) <= used
      /\ \A s \in LiveSlots(items, size) : items[s].value # NULL
  BY ConstantFacts DEF IInv, Shape, LoadLimit, Counted, OneOwner, htable_set
<1>3. PICK item : item \in Item /\ item = [key |-> k, value |-> v]
  BY DEF Item
<1>2. item \in Item /\ item.key = k
  BY <1>3
<1>7. item.value # NULL
  BY <1>3, ItemAssumption
<1>6. ret' \in Ret
  <2>1. ret' = Call("set", k, TRUE) \/ ret' = Call("set", k, FALSE)
    BY DEF htable_set, htable_update_str
  <2> QED  BY <2>1, CallIsRet
<1>4. CASE htable_exists(items, size, k) /\ htable_update_str(k, v)
  <2>1. PICK i \in Slots(size) :
            /\ Hit(items, size, k, i)
            /\ items' = [items EXCEPT ![hash_func(k, size, i)] = item]
    BY <1>3, <1>4 DEF htable_update_str
  <2> DEFINE h == hash_func(k, size, i)
  <2>2. h \in LiveSlots(items, size) /\ item.key = items[h].key
    BY <1>0, <1>2, <2>1, HitIsLive
  <2>6. items' = [items EXCEPT ![h] = item]
    BY <2>1
  <2> HIDE DEF h
  <2>3. /\ items' \in [Slots(size) -> Slot]
        /\ LiveSlots(items', size) = LiveSlots(items, size)
        /\ Reachable(items', size)
    <3>1. GoodTable(items', size, LiveSlots(items, size))
      BY <1>0, <1>2, <2>2, <2>6, UpdateKeepsReachable
    <3> QED  BY <3>1 DEF GoodTable
  <2>4. \A s \in LiveSlots(items', size) : items'[s].value # NULL
    BY <1>0, <1>1, <1>7, <2>3, <2>6, LiveSlotIsItem
  <2>5. NoResize /\ size' = size /\ used' = used
    BY <1>4 DEF htable_update_str
  <2> QED  BY <1>1, <1>6, <2>3, <2>4, <2>5, <1>0, IdleCallKeepsIInv
<1>5. CASE ~ htable_exists(items, size, k) /\ htable_insert(k, v)
  <2>1. \A s \in LiveSlots(items, size) : items[s].key # k
    BY <1>0, <1>1, <1>5, LookupIsComplete
  <2>2. CASE /\ \E i \in Slots(size) :
                 /\ FirstFree(items, size, k, i)
                 /\ items' = [items EXCEPT ![hash_func(k, size, i)] = item]
             /\ used' = used + 1 /\ htable_resize_up(used') /\ size' = size
    <3>1. PICK i \in Slots(size) :
              /\ FirstFree(items, size, k, i)
              /\ items' = [items EXCEPT ![hash_func(k, size, i)] = item]
      BY <2>2
    <3> DEFINE h == hash_func(k, size, i)
    <3>2. /\ items' \in [Slots(size) -> Slot]
          /\ LiveSlots(items', size) = LiveSlots(items, size) \cup {h}
          /\ h \notin LiveSlots(items, size)
          /\ Reachable(items', size)
      <4>1. /\ GoodTable(items', size, LiveSlots(items, size) \cup {h})
            /\ h \notin LiveSlots(items, size)
        BY <1>0, <1>2, <2>1, <3>1, InsertKeepsReachable
      <4> QED  BY <4>1 DEF GoodTable
    <3>3. h \in Slots(size)
      BY <1>0, ProbeStaysInTable
    <3>4. \A s \in LiveSlots(items', size) : items'[s].value # NULL
      <4>1. items'[h] = item
        BY <1>0, <3>1, <3>3
      <4>2. \A s \in LiveSlots(items, size) : s \in Slots(size) /\ s # h
        BY <3>2 DEF LiveSlots
      <4>3. \A s \in LiveSlots(items, size) : items'[s] = items[s]
        BY <1>0, <3>1, <4>2
      <4> QED  BY <1>1, <1>7, <3>2, <4>1, <4>3
    <3>5. Cardinality(LiveSlots(items', size)) = Cardinality(LiveSlots(items, size)) + 1
      BY <1>1, <3>2, LiveSlotsFinite, FS_AddElement
    <3>6. used' \in Nat /\ Cardinality(LiveSlots(items', size)) <= used'
      BY <1>1, <2>2, <3>5, LiveSlotsFinite
    <3> QED  BY <1>1, <1>6, <2>2, <3>2, <3>4, <3>6, <1>0, IdleCallKeepsIInv
  <2>3. CASE NoResize /\ UNCHANGED table
    <3>1. size' = size /\ used' = used /\ items' = items
      BY <2>3 DEF table
    <3> QED  BY <1>1, <1>6, <2>3, <3>1, <1>0, IdleCallKeepsIInv
  <2> QED  BY <1>3, <1>5, <2>2, <2>3 DEF htable_insert
<1> QED  BY <1>4, <1>5 DEF htable_set

(* htable_del, with a hit, which may start a resize, and without. *)
LEMMA DelKeepsIInv ==
    ASSUME IInv, NEW k \in Keys, htable_del(k)
    PROVE  IInv'
<1>0. /\ size \in Sizes
      /\ items \in [Slots(size) -> Slot] /\ Reachable(items, size)
  BY ConstantFacts DEF IInv, Shape, LookupFindsStored, Sizes
<1>1. /\ pc = "idle" /\ size \in Nat /\ used \in Nat
      /\ used * 100 < 71 * size
      /\ Cardinality(LiveSlots(items, size)) <= used
      /\ \A s \in LiveSlots(items, size) : items[s].value # NULL
  BY ConstantFacts DEF IInv, Shape, LoadLimit, Counted, OneOwner, htable_del
<1>2. ret' \in Ret
  <2>1. ret' = Call("del", k, TRUE) \/ ret' = Call("del", k, FALSE)
    BY DEF htable_del
  <2> QED  BY <2>1, CallIsRet
<1>3. CASE /\ \E i \in Slots(size) :
               /\ Hit(items, size, k, i)
               /\ items' = [items EXCEPT ![hash_func(k, size, i)] = DELETED]
           /\ used' = used - 1 /\ htable_resize_down(used') /\ size' = size
  <2>1. PICK i \in Slots(size) :
            /\ Hit(items, size, k, i)
            /\ items' = [items EXCEPT ![hash_func(k, size, i)] = DELETED]
    BY <1>3
  <2> DEFINE h == hash_func(k, size, i)
  <2>2. h \in LiveSlots(items, size)
    BY <1>0, <2>1, HitIsLive
  <2>3. /\ items' \in [Slots(size) -> Slot]
        /\ LiveSlots(items', size) = LiveSlots(items, size) \ {h}
        /\ Reachable(items', size)
    <3>1. GoodTable(items', size, LiveSlots(items, size) \ {h})
      BY <1>0, <2>1, <2>2, DeleteKeepsReachable
    <3> QED  BY <3>1 DEF GoodTable
  <2>4. \A s \in LiveSlots(items', size) : items'[s].value # NULL
    BY <1>0, <1>1, <2>1, <2>3 DEF LiveSlots
  <2>5. Cardinality(LiveSlots(items', size)) = Cardinality(LiveSlots(items, size)) - 1
    BY <1>1, <2>2, <2>3, LiveSlotsFinite, FS_RemoveElement
  <2>6. used' \in Nat /\ Cardinality(LiveSlots(items', size)) <= used'
    <3>1. Cardinality(LiveSlots(items', size)) \in Nat
      BY <1>1, LiveSlotsFinite
    <3> QED  BY <1>1, <1>3, <2>5, <3>1, LiveSlotsFinite
  <2> QED  BY <1>1, <1>2, <1>3, <2>3, <2>4, <2>6, <1>0, IdleCallKeepsIInv
<1>4. CASE NoResize /\ UNCHANGED table
  <2>1. size' = size /\ used' = used /\ items' = items
    BY <1>4 DEF table
  <2> QED  BY <1>1, <1>2, <1>4, <2>1, <1>0, IdleCallKeepsIInv
<1> QED  BY <1>3, <1>4 DEF htable_del

(* The item that a resize step leaves behind in the old table. *)
Hollow(item) == [item EXCEPT !.value = NULL]

(* What a resize step over an occupied slot does to the old table. *)
LEMMA MovedItemStaysReachable ==
    ASSUME IInv, Rehash, ~ Free(items[scan])
    PROVE  /\ scan \in LiveSlots(items, size)
           /\ items[scan].value # NULL
           /\ GoodTable(items', size, LiveSlots(items, size))
           /\ \A s \in LiveSlots(items, size) : items'[s].key = items[s].key
           /\ \A s \in LiveSlots(items, size) :
                  items'[s].value = IF s = scan THEN NULL ELSE items[s].value
<1>0. /\ size \in Sizes /\ size \in Nat /\ items \in [Slots(size) -> Slot]
      /\ Reachable(items, size) /\ scan \in Slots(size) /\ pc = "rehash"
  BY ConstantFacts DEF IInv, Shape, LookupFindsStored, Sizes, Slots, Rehash
<1>1. scan \in LiveSlots(items, size)
  BY <1>0 DEF LiveSlots
<1>2. items[scan].value # NULL
  BY <1>0, <1>1 DEF IInv, Shape, OneOwner
<1>3. items[scan] \in Item
  BY <1>0, <1>1, LiveSlotIsItem
<1>4. PICK item : item = Hollow(items[scan])
  OBVIOUS
<1>5. item \in Item /\ item.key = items[scan].key /\ item.value = NULL
  BY <1>3, <1>4 DEF Hollow, Item
<1>6. items' = [items EXCEPT ![scan] = item]
  <2>1. items' = [items EXCEPT ![scan].value = NULL]
    BY DEF Rehash
  <2> QED  BY <2>1, <1>4, <1>0 DEF Hollow
<1>7. GoodTable(items', size, LiveSlots(items, size))
  <2>1. item \in Item /\ item.key = items[scan].key
    BY <1>5
  <2> QED  BY <1>0, <1>1, <2>1, <1>6, UpdateKeepsReachable
<1>8. \A s \in LiveSlots(items, size) : s \in Slots(size)
  BY DEF LiveSlots
<1>9. \A s \in LiveSlots(items, size) :
          items'[s] = IF s = scan THEN item ELSE items[s]
  BY <1>0, <1>6, <1>8
<1> QED  BY <1>1, <1>2, <1>5, <1>7, <1>9

(* A resize step over an occupied slot takes it off the waiting ones. *)
LEMMA WaitingShrinks ==
    ASSUME IInv, Rehash, scan \in LiveSlots(items, size),
           LiveSlots(items', size) = LiveSlots(items, size)
    PROVE  /\ Cardinality(Waiting) \in Nat
           /\ Cardinality(Waiting') + 1 = Cardinality(Waiting)
<1>1. size \in Nat /\ scan \in Nat /\ size' = size /\ scan' = scan + 1
  BY ConstantFacts DEF IInv, Shape, Rehash
<1>2. LiveSlots(items, size) \subseteq Nat
  BY <1>1 DEF LiveSlots, Slots
<1>3. Waiting' = Waiting \ {scan} /\ scan \in Waiting
  BY <1>1, <1>2 DEF Waiting
<1>4. IsFiniteSet(Waiting)
  <2>1. Waiting \subseteq LiveSlots(items, size)
    BY DEF Waiting
  <2> QED  BY <1>1, <2>1, LiveSlotsFinite, FS_Subset
<1>5. Cardinality(Waiting') = Cardinality(Waiting) - 1
  BY <1>3, <1>4, FS_RemoveElement
<1> QED  BY <1>4, <1>5, FS_CardinalityType

(* What a resize step does to the new table when it stores the item. *)
LEMMA StoredItemIsReachable ==
    ASSUME IInv, Rehash, ~ Free(items[scan]), NEW i \in Slots(newSize),
           FirstFree(newItems, newSize, items[scan].key, i),
           newItems' = [newItems EXCEPT ![hash_func(items[scan].key, newSize, i)] = items[scan]]
    PROVE  /\ GoodTable(newItems', newSize, LiveSlots(newItems, newSize)
                             \cup {hash_func(items[scan].key, newSize, i)})
           /\ Cardinality(LiveSlots(newItems', newSize)) = newUsed + 1
           /\ \A t \in LiveSlots(newItems', newSize) :
                  \/ newItems'[t] = items[scan]
                  \/ t \in LiveSlots(newItems, newSize) /\ newItems'[t] = newItems[t]
<1> DEFINE k == items[scan].key
           h == hash_func(k, newSize, i)
<1>0. /\ newSize \in Sizes /\ newSize \in Nat /\ newItems \in [Slots(newSize) -> Slot]
      /\ Reachable(newItems, newSize)
  BY ConstantFacts DEF IInv, Shape, LookupFindsStored, Sizes, Rehash
<1>1. /\ size \in Nat /\ items \in [Slots(size) -> Slot] /\ Reachable(items, size)
      /\ scan \in Nat
  BY ConstantFacts DEF IInv, Shape, LookupFindsStored, Rehash
<1>2. scan \in LiveSlots(items, size)
  BY MovedItemStaysReachable
<1>3. items[scan] \in Item /\ k \in Keys
  BY <1>1, <1>2, LiveSlotIsItem
<1>4. ASSUME NEW t \in LiveSlots(newItems, newSize)
      PROVE  newItems[t].key # k
  <2>1. PICK s \in LiveSlots(items, size) : s < scan /\ items[s].key = newItems[t].key
    BY DEF IInv, MovedFromBelow
  <2>2. s # scan
    BY <1>1, <2>1 DEF LiveSlots, Slots
  <2> QED  BY <1>1, <1>2, <2>1, <2>2, OneSlotPerKey
<1>5. /\ GoodTable(newItems', newSize, LiveSlots(newItems, newSize) \cup {h})
      /\ h \notin LiveSlots(newItems, newSize)
  BY <1>0, <1>3, <1>4, InsertKeepsReachable
<1>6. LiveSlots(newItems', newSize) = LiveSlots(newItems, newSize) \cup {h}
  BY <1>5 DEF GoodTable
<1>7. Cardinality(LiveSlots(newItems', newSize)) = newUsed + 1
  <2>1. Cardinality(LiveSlots(newItems, newSize)) = newUsed
    BY DEF IInv, Counted
  <2> QED  BY <1>0, <1>5, <1>6, <2>1, LiveSlotsFinite, FS_AddElement
<1>8. h \in Slots(newSize)
  BY <1>0, <1>3, ProbeStaysInTable
<1>9. \A t \in LiveSlots(newItems, newSize) : t \in Slots(newSize) /\ t # h
  BY <1>5 DEF LiveSlots
<1>10. newItems'[h] = items[scan]
  BY <1>0, <1>8
<1>11. \A t \in LiveSlots(newItems, newSize) : newItems'[t] = newItems[t]
  BY <1>0, <1>9
<1> QED  BY <1>5, <1>6, <1>7, <1>10, <1>11

(* The parts of the invariant that a step over an occupied slot must restore *)
(* once it is known what the new table holds.                                *)
LEMMA MoveKeepsIInv ==
    ASSUME IInv, Rehash, ~ Free(items[scan]), pc' = "rehash",
           newItems' \in [Slots(newSize) -> Slot], Reachable(newItems', newSize),
           newUsed' \in Nat, newUsed' <= newUsed + 1,
           newUsed' = Cardinality(LiveSlots(newItems', newSize)),
           \A t \in LiveSlots(newItems', newSize) :
              \/ newItems'[t] = items[scan]
              \/ t \in LiveSlots(newItems, newSize) /\ newItems'[t] = newItems[t]
    PROVE  IInv'
<1>1. /\ scan \in LiveSlots(items, size) /\ items[scan].value # NULL
      /\ GoodTable(items', size, LiveSlots(items, size))
      /\ \A s \in LiveSlots(items, size) : items'[s].key = items[s].key
      /\ \A s \in LiveSlots(items, size) :
             items'[s].value = IF s = scan THEN NULL ELSE items[s].value
  BY MovedItemStaysReachable
<1>2. /\ items' \in [Slots(size) -> Slot] /\ Reachable(items', size)
      /\ LiveSlots(items', size) = LiveSlots(items, size)
  BY <1>1 DEF GoodTable
<1>3. /\ pc = "rehash" /\ scan < size /\ scan' = scan + 1
      /\ size' = size /\ used' = used /\ newSize' = newSize /\ ret' = ret
  BY DEF Rehash
<1>4. /\ size \in Nat /\ scan \in Nat /\ newSize \in Nat /\ newUsed \in Nat /\ used \in Nat
      /\ \A s \in LiveSlots(items, size) : s \in Nat
  BY ConstantFacts DEF IInv, Shape, LiveSlots, Slots
<1>5. Shape'
  <2>1. scan' \in 0 .. size
    BY <1>3, <1>4
  <2> QED  BY <1>2, <1>3, <2>1 DEF IInv, Shape
<1>6. LookupFindsStored'
  BY <1>2, <1>3 DEF LookupFindsStored
<1>7. Counted'
  <2>1. /\ Cardinality(Waiting) \in Nat
        /\ Cardinality(Waiting') + 1 = Cardinality(Waiting)
    BY <1>1, <1>2, WaitingShrinks
  <2>2. /\ Cardinality(Waiting') \in Int
        /\ Cardinality(LiveSlots(items, size)) \in Nat
    <3>1. Waiting' \subseteq LiveSlots(items, size)
      BY <1>2, <1>3 DEF Waiting
    <3> QED  BY <1>4, <3>1, LiveSlotsFinite, FS_Subset, FS_CardinalityType
  <2>3. newUsed + Cardinality(Waiting) <= Cardinality(LiveSlots(items, size))
    BY DEF IInv, Counted
  <2>4. newUsed' + Cardinality(Waiting') <= Cardinality(LiveSlots(items, size))
    BY <1>4, <2>1, <2>2, <2>3
  <2> QED  BY <1>2, <1>3, <2>4 DEF IInv, Counted
<1>8. LoadLimit'
  BY <1>3 DEF IInv, LoadLimit
<1>9. MovedFromBelow'
  <2>1. ASSUME NEW t \in LiveSlots(newItems', newSize)
        PROVE  /\ newItems'[t].value # NULL
               /\ \E s \in LiveSlots(items, size) :
                      s < scan + 1 /\ items[s].key = newItems'[t].key
    <3>1. CASE newItems'[t] = items[scan]
      BY <1>1, <1>4, <3>1
    <3>2. CASE t \in LiveSlots(newItems, newSize) /\ newItems'[t] = newItems[t]
      <4>1. newItems[t].value # NULL
        BY <3>2 DEF IInv, MovedFromBelow
      <4>2. PICK s \in LiveSlots(items, size) : s < scan /\ items[s].key = newItems[t].key
        BY <3>2 DEF IInv, MovedFromBelow
      <4>3. s < scan + 1
        BY <1>4, <4>2
      <4> QED  BY <3>2, <4>1, <4>2, <4>3
    <3> QED  BY <3>1, <3>2
  <2> QED  BY <1>1, <1>2, <1>3, <2>1 DEF MovedFromBelow
<1>10. OneOwner'
  <2>1. ASSUME NEW s \in LiveSlots(items, size)
        PROVE  items'[s].value = NULL <=> s < scan + 1
    <3>1. items[s].value = NULL <=> s < scan
      BY <1>3 DEF IInv, OneOwner
    <3>2. s < scan + 1 <=> s < scan \/ s = scan
      BY <1>4
    <3> QED  BY <1>1, <3>1, <3>2
  <2> QED  BY <1>2, <1>3, <2>1 DEF OneOwner
<1> QED  BY <1>5, <1>6, <1>7, <1>8, <1>9, <1>10 DEF IInv

(* An iteration of the loop of htable_resize. *)
LEMMA RehashKeepsIInv ==
    ASSUME IInv, Rehash
    PROVE  IInv'
<1>0. /\ pc = "rehash" /\ scan < size /\ scan' = scan + 1
      /\ size' = size /\ used' = used /\ newSize' = newSize /\ ret' = ret
      /\ size \in Nat /\ scan \in Nat /\ newSize \in Nat /\ newUsed \in Nat /\ used \in Nat
      /\ \A s \in LiveSlots(items, size) : s \in Nat
  BY ConstantFacts DEF IInv, Shape, Rehash, LiveSlots, Slots
<1>1. /\ newItems \in [Slots(newSize) -> Slot] /\ Reachable(newItems, newSize)
      /\ newUsed = Cardinality(LiveSlots(newItems, newSize))
  BY DEF IInv, Shape, LookupFindsStored, Counted
<1>2. CASE ~ Free(items[scan]) /\ MoveItem
  <2> DEFINE k == items[scan].key
  <2>1. CASE /\ \E i \in Slots(newSize) :
                 /\ FirstFree(newItems, newSize, k, i)
                 /\ newItems' = [newItems EXCEPT ![hash_func(k, newSize, i)] = items[scan]]
             /\ newUsed' = newUsed + 1
             /\ pc' = IF Load(newUsed', newSize) > 70 THEN "nested" ELSE "rehash"
    <3>1. PICK i \in Slots(newSize) :
              /\ FirstFree(newItems, newSize, k, i)
              /\ newItems' = [newItems EXCEPT ![hash_func(k, newSize, i)] = items[scan]]
      BY <2>1
    <3>2. /\ GoodTable(newItems', newSize, LiveSlots(newItems, newSize)
                                  \cup {hash_func(k, newSize, i)})
          /\ Cardinality(LiveSlots(newItems', newSize)) = newUsed + 1
          /\ \A t \in LiveSlots(newItems', newSize) :
                 \/ newItems'[t] = items[scan]
                 \/ t \in LiveSlots(newItems, newSize) /\ newItems'[t] = newItems[t]
      BY <1>2, <3>1, StoredItemIsReachable
    <3>3. newUsed' <= used /\ newUsed' \in Nat
      <4>1. scan \in LiveSlots(items, size) /\ LiveSlots(items', size) = LiveSlots(items, size)
        BY <1>2, MovedItemStaysReachable DEF GoodTable
      <4>2. Cardinality(Waiting) \in Nat /\ Cardinality(Waiting') + 1 = Cardinality(Waiting)
        BY <4>1, WaitingShrinks
      <4>3. Cardinality(Waiting') \in Nat
        <5>1. Waiting' \subseteq LiveSlots(items, size)
          BY <1>0, <4>1 DEF Waiting
        <5> QED  BY <1>0, <5>1, LiveSlotsFinite, FS_Subset, FS_CardinalityType
      <4>4. Cardinality(LiveSlots(items, size)) \in Nat
        BY <1>0, LiveSlotsFinite
      <4>5. /\ newUsed + Cardinality(Waiting) <= Cardinality(LiveSlots(items, size))
            /\ Cardinality(LiveSlots(items, size)) <= used
        BY DEF IInv, Counted
      <4> QED  BY <1>0, <2>1, <4>2, <4>3, <4>4, <4>5
    <3>4. newSize \in Nat \ {0} /\ used * 100 < 71 * newSize
      BY <1>0, ConstantFacts DEF IInv, Shape, LoadLimit
    <3>5. newUsed' * 100 < 71 * newSize
      BY <1>0, <3>3, <3>4, FewerFit
    <3>6. Load(newUsed', newSize) <= 70 /\ Load(newUsed', newSize) \in Nat
      BY <3>3, <3>4, <3>5, LoadBound
    <3>7. pc' = "rehash"
      BY <2>1, <3>6
    <3>8. newItems' \in [Slots(newSize) -> Slot] /\ Reachable(newItems', newSize)
      BY <3>2 DEF GoodTable
    <3>9. newUsed' = Cardinality(LiveSlots(newItems', newSize)) /\ newUsed' <= newUsed + 1
      BY <1>0, <2>1, <3>2
    <3> QED  BY <1>2, <3>2, <3>3, <3>7, <3>8, <3>9, MoveKeepsIInv
  <2>2. CASE newItems' = newItems /\ newUsed' = newUsed /\ pc' = pc
    <3>1. newUsed' <= newUsed + 1
      BY <1>0, <2>2
    <3> QED  BY <1>0, <1>1, <1>2, <2>2, <3>1, MoveKeepsIInv
  <2> QED  BY <1>2, <2>1, <2>2 DEF MoveItem
<1>3. CASE Free(items[scan]) /\ UNCHANGED <<items, newItems, newUsed, pc>>
  <2>1. scan \notin LiveSlots(items, size)
    BY <1>3 DEF LiveSlots
  <2>2. \A s \in LiveSlots(items, size) : /\ s < scan + 1 <=> s < scan
                                         /\ s >= scan + 1 <=> s >= scan
    BY <1>0, <2>1
  <2>3. Waiting' = Waiting
    BY <1>0, <1>3, <2>2 DEF Waiting
  <2>4. scan + 1 \in 0 .. size
    BY <1>0
  <2>5. Shape'
    BY <1>0, <1>3, <2>4 DEF IInv, Shape
  <2>6. LookupFindsStored' /\ Counted' /\ LoadLimit'
    BY <1>0, <1>3, <2>3 DEF IInv, LookupFindsStored, Counted, LoadLimit
  <2>7. MovedFromBelow' /\ OneOwner'
    BY <1>0, <1>3, <2>2 DEF IInv, MovedFromBelow, OneOwner
  <2> QED  BY <2>5, <2>6, <2>7 DEF IInv
<1> QED  BY <1>2, <1>3 DEF Rehash

(* The swap of the tables at the end of htable_resize. *)
LEMMA FinishKeepsIInv ==
    ASSUME IInv, FinishResize
    PROVE  IInv'
<1>0. /\ pc = "rehash" /\ scan = size /\ pc' = "idle"
      /\ size' = newSize /\ items' = newItems /\ used' = used /\ ret' = ret
      /\ newSize' = 0 /\ newUsed' = 0 /\ newItems' = EmptyTable(0) /\ scan' = 0
  BY DEF FinishResize
<1>1. /\ newSize \in HT_BASE_SIZE .. MaxSize /\ newSize \in Nat /\ size \in Nat
      /\ newItems \in [Slots(newSize) -> Slot] /\ Reachable(newItems, newSize)
      /\ newUsed = Cardinality(LiveSlots(newItems, newSize)) /\ newUsed \in Nat /\ used \in Nat
  BY <1>0, ConstantFacts DEF IInv, Shape, LookupFindsStored, Counted
<1>2. /\ newItems' \in [Slots(0) -> Slot] /\ LiveSlots(newItems', 0) = {}
      /\ Reachable(newItems', 0)
  BY <1>0, EmptyTableIsReachable
<1>3. Shape'
  BY <1>0, <1>1, <1>2 DEF IInv, Shape
<1>4. LookupFindsStored'
  BY <1>0, <1>1, <1>2 DEF LookupFindsStored
<1>5. Counted'
  <2>1. Waiting' \subseteq LiveSlots(newItems, newSize)
    BY <1>0 DEF Waiting
  <2>2. /\ Cardinality(Waiting') \in Nat
        /\ Cardinality(Waiting') <= Cardinality(LiveSlots(newItems, newSize))
    BY <1>1, <2>1, LiveSlotsFinite, FS_Subset, FS_CardinalityType
  <2>3. newUsed <= used
    <3>1. Cardinality(Waiting) \in Nat
      <4>1. Waiting \subseteq LiveSlots(items, size)
        BY DEF Waiting
      <4> QED  BY <1>1, <4>1, LiveSlotsFinite, FS_Subset, FS_CardinalityType
    <3>2. Cardinality(LiveSlots(items, size)) \in Nat
      BY <1>1, LiveSlotsFinite
    <3> QED  BY <1>1, <3>1, <3>2 DEF IInv, Counted
  <2>4. Cardinality(LiveSlots(newItems', 0)) = 0
    BY <1>2, FS_EmptySet
  <2> QED  BY <1>0, <1>1, <2>2, <2>3, <2>4 DEF Counted
<1>6. LoadLimit'
  BY <1>0 DEF IInv, LoadLimit
<1>7. MovedFromBelow'
  BY <1>0, <1>2 DEF MovedFromBelow
<1>8. OneOwner'
  BY <1>0 DEF IInv, OneOwner, MovedFromBelow
<1> QED  BY <1>3, <1>4, <1>5, <1>6, <1>7, <1>8 DEF IInv

(* Every step keeps the inductive invariant. *)
THEOREM NextKeepsIInv == IInv /\ [Next]_vars => IInv'
<1> SUFFICES ASSUME IInv, [Next]_vars PROVE IInv'
  OBVIOUS
<1>1. ASSUME NEW k \in Keys, NEW v \in Values, htable_set(k, v) PROVE IInv'
  BY <1>1, SetKeepsIInv
<1>2. ASSUME NEW k \in Keys, htable_del(k) PROVE IInv'
  BY <1>2, DelKeepsIInv
<1>3. CASE Rehash
  BY <1>3, RehashKeepsIInv
<1>4. CASE FinishResize
  BY <1>4, FinishKeepsIInv
<1>5. CASE UNCHANGED vars
  BY <1>5 DEF vars, table, newTable, IInv, Shape, LookupFindsStored, Counted, Waiting,
              LoadLimit, MovedFromBelow, OneOwner
<1> QED  BY <1>1, <1>2, <1>3, <1>4, <1>5 DEF Next

(***************************************************************************)
(* The theorems.                                                           *)
(***************************************************************************)

(* The inductive invariant holds in every reachable state. *)
THEOREM Invariance == Spec => []IInv
BY InitEstablishesIInv, NextKeepsIInv, PTL DEF Spec

(* The table, the table being filled, the counters and the answer keep the   *)
(* types that htable.c's fields and return values have.                      *)
THEOREM TypeCorrectness == Spec => []TypeOK
<1>1. IInv => TypeOK
  <2> SUFFICES ASSUME IInv PROVE TypeOK
    OBVIOUS
  <2>1. /\ size \in HT_BASE_SIZE .. MaxSize /\ size \in Nat /\ used \in Nat
        /\ newSize \in 0 .. MaxSize /\ newSize \in Nat /\ MaxSize \in Nat
    BY ConstantFacts DEF IInv, Shape
  <2>2. pc \in {"idle", "rehash"}
    BY DEF IInv, Shape
  <2>3. used <= MaxSize
    <3>1. CASE pc = "idle"
      BY <2>1, <3>1 DEF IInv, LoadLimit
    <3>2. CASE pc = "rehash"
      BY <2>1, <3>2 DEF IInv, LoadLimit
    <3> QED  BY <2>2, <3>1, <3>2
  <2>4. newUsed <= newSize
    BY <2>1, LiveSlotsFinite DEF IInv, Counted
  <2> QED  BY <2>1, <2>2, <2>3, <2>4 DEF IInv, Shape, TypeOK
<1> QED  BY <1>1, Invariance, PTL

(* htable_search finds every item in the table: no probe chain is ever cut,  *)
(* and no key is ever in two slots, whatever the keys hash to.               *)
THEOREM LookupCorrectness == Spec => []LookupFindsStored
<1>1. IInv => LookupFindsStored
  BY DEF IInv
<1> QED  BY <1>1, Invariance, PTL

(* used bounds the occupied slots and stays under the load limit, so a table *)
(* that serves calls has a free slot, and a resize never starts another one  *)
(* while it fills its new table.                                             *)
THEOREM UsedIsBounded == Spec => []UsedBounds
<1>1. IInv => UsedBounds
  <2> SUFFICES ASSUME IInv PROVE UsedBounds
    OBVIOUS
  <2>1. size \in Nat \ {0} /\ used \in Nat
    BY ConstantFacts DEF IInv, Shape
  <2>2. ASSUME pc = "idle" PROVE used < size /\ Load(used, size) <= 70
    <3>1. used * 100 < 71 * size
      BY <2>2 DEF IInv, LoadLimit
    <3> QED  BY <2>1, <3>1, LoadBound
  <2>3. pc # "nested"
    BY DEF IInv, Shape
  <2> QED  BY <2>2, <2>3 DEF IInv, Counted, UsedBounds
<1> QED  BY <1>1, Invariance, PTL

(* A value has one owner, during a resize too. *)
THEOREM OwnershipIsUnique == Spec => []OneOwner
<1>1. IInv => OneOwner
  BY DEF IInv
<1> QED  BY <1>1, Invariance, PTL

-----------------------------------------------------------------------------
(***************************************************************************)
(* What a step does to the slots, said once for the proofs that build on   *)
(* it: which of its alternatives a call took, which slot it wrote, and     *)
(* what became of the counters.                                            *)
(***************************************************************************)

(* The facts about an idle table that a call starts from. *)
LEMMA IdleFacts ==
    ASSUME IInv
    PROVE  /\ size \in Sizes /\ size \in Nat /\ used \in Nat
           /\ items \in [Slots(size) -> Slot] /\ Reachable(items, size)
BY ConstantFacts DEF IInv, Shape, LookupFindsStored, Sizes

NoLive(k) == \A s \in LiveSlots(items, size) : items[s].key # k

(* htable_set replaces the value of the key's slot, ...                      *)
SetReplaces(k, v) ==
    /\ \E h \in LiveSlots(items, size) :
        /\ items[h].key = k
        /\ items' = [items EXCEPT ![h] = [key |-> k, value |-> v]]
    /\ LiveSlots(items', size) = LiveSlots(items, size)
    /\ used' = used /\ NoResize
    /\ ret' = Call("set", k, FALSE)

(* ... fills a slot that was free, ...                                       *)
SetFills(k, v) ==
    /\ NoLive(k)
    /\ \E h \in Slots(size) \ LiveSlots(items, size) :
        /\ items' = [items EXCEPT ![h] = [key |-> k, value |-> v]]
        /\ LiveSlots(items', size) = LiveSlots(items, size) \cup {h}
    /\ used' = used + 1 /\ htable_resize_up(used')
    /\ ret' = Call("set", k, TRUE)

(* ... or does nothing. *)
SetRefuses(k) ==
    /\ NoLive(k) /\ Blocked(items, size, k)
    /\ items' = items /\ used' = used /\ NoResize
    /\ ret' = Call("set", k, TRUE)

(* The three outcomes of htable_set. *)
LEMMA SetEffect ==
    ASSUME IInv, NEW k \in Keys, NEW v \in Values, htable_set(k, v)
    PROVE  /\ size' = size /\ pc = "idle"
           /\ SetReplaces(k, v) \/ SetFills(k, v) \/ SetRefuses(k)
<1> DEFINE item == [key |-> k, value |-> v]
<1>0. /\ size \in Sizes /\ items \in [Slots(size) -> Slot] /\ Reachable(items, size)
      /\ size \in Nat
  BY IdleFacts
<1>1. item \in Item /\ item.key = k
  BY DEF Item
<1>2. CASE htable_exists(items, size, k) /\ htable_update_str(k, v)
  <2>1. PICK i \in Slots(size) :
            /\ Hit(items, size, k, i)
            /\ items' = [items EXCEPT ![hash_func(k, size, i)] = item]
    BY <1>2 DEF htable_update_str
  <2> DEFINE h == hash_func(k, size, i)
  <2>2. h \in LiveSlots(items, size) /\ items[h].key = k
    BY <1>0, <2>1, HitIsLive
  <2>3. LiveSlots(items', size) = LiveSlots(items, size)
    <3>1. GoodTable(items', size, LiveSlots(items, size))
      <4> HIDE DEF item
      <4> QED  BY <1>0, <1>1, <2>1, <2>2, UpdateKeepsReachable
    <3> QED  BY <3>1 DEF GoodTable
  <2> QED  BY <1>2, <2>1, <2>2, <2>3 DEF htable_update_str, SetReplaces, htable_set
<1>3. CASE ~ htable_exists(items, size, k) /\ htable_insert(k, v) /\ ret' = Call("set", k, TRUE)
  <2>1. NoLive(k)
    BY <1>0, <1>3, LookupIsComplete DEF NoLive
  <2>2. CASE /\ \E i \in Slots(size) :
                 /\ FirstFree(items, size, k, i)
                 /\ items' = [items EXCEPT ![hash_func(k, size, i)] = item]
             /\ used' = used + 1 /\ htable_resize_up(used') /\ size' = size
    <3>1. PICK i \in Slots(size) :
              /\ FirstFree(items, size, k, i)
              /\ items' = [items EXCEPT ![hash_func(k, size, i)] = item]
      BY <2>2
    <3> DEFINE h == hash_func(k, size, i)
    <3>2. /\ GoodTable(items', size, LiveSlots(items, size) \cup {h})
          /\ h \notin LiveSlots(items, size)
      <4>1. \A s \in LiveSlots(items, size) : items[s].key # k
        BY <2>1 DEF NoLive
      <4> HIDE DEF item
      <4> QED  BY <1>0, <1>1, <4>1, <3>1, InsertKeepsReachable
    <3>3. h \in Slots(size)
      BY <1>0, ProbeStaysInTable
    <3> QED  BY <1>3, <2>1, <2>2, <3>1, <3>2, <3>3 DEF GoodTable, SetFills, htable_set
  <2>3. CASE Blocked(items, size, k) /\ NoResize /\ UNCHANGED table
    BY <1>3, <2>1, <2>3 DEF table, SetRefuses, htable_set
  <2> QED  BY <1>3, <2>2, <2>3 DEF htable_insert
<1> QED  BY <1>2, <1>3 DEF htable_set

(* htable_del leaves a tombstone in the key's slot, or does nothing. *)
DelEmpties(k) ==
    /\ \E h \in LiveSlots(items, size) :
        /\ items[h].key = k
        /\ items' = [items EXCEPT ![h] = DELETED]
        /\ LiveSlots(items', size) = LiveSlots(items, size) \ {h}
    /\ used' = used - 1 /\ htable_resize_down(used')
    /\ ret' = Call("del", k, TRUE)

DelMisses(k) ==
    /\ NoLive(k)
    /\ items' = items /\ used' = used /\ NoResize
    /\ ret' = Call("del", k, FALSE)

(* The two outcomes of htable_del. *)
LEMMA DelEffect ==
    ASSUME IInv, NEW k \in Keys, htable_del(k)
    PROVE  /\ size' = size /\ pc = "idle"
           /\ DelEmpties(k) \/ DelMisses(k)
<1>0. /\ size \in Sizes /\ items \in [Slots(size) -> Slot] /\ Reachable(items, size)
      /\ size \in Nat
  BY IdleFacts
<1>1. CASE /\ \E i \in Slots(size) :
               /\ Hit(items, size, k, i)
               /\ items' = [items EXCEPT ![hash_func(k, size, i)] = DELETED]
           /\ used' = used - 1 /\ htable_resize_down(used')
           /\ ret' = Call("del", k, TRUE) /\ size' = size
  <2>1. PICK i \in Slots(size) :
            /\ Hit(items, size, k, i)
            /\ items' = [items EXCEPT ![hash_func(k, size, i)] = DELETED]
    BY <1>1
  <2> DEFINE h == hash_func(k, size, i)
  <2>2. h \in LiveSlots(items, size) /\ items[h].key = k
    BY <1>0, <2>1, HitIsLive
  <2>3. GoodTable(items', size, LiveSlots(items, size) \ {h})
    BY <1>0, <2>1, <2>2, DeleteKeepsReachable
  <2> QED  BY <1>1, <2>1, <2>2, <2>3 DEF GoodTable, DelEmpties, htable_del
<1>2. CASE /\ ~ htable_exists(items, size, k) /\ ret' = Call("del", k, FALSE)
           /\ NoResize /\ UNCHANGED table
  <2>1. NoLive(k)
    BY <1>0, <1>2, LookupIsComplete DEF NoLive
  <2> QED  BY <1>2, <2>1 DEF DelMisses, table, htable_del
<1> QED  BY <1>1, <1>2 DEF htable_del

(* A call returns, or is in a resize that has not moved anything. *)
LEMMA CallMayResize ==
    ASSUME IInv, pc = "idle", NEW u,
           NoResize \/ htable_resize_up(u) \/ htable_resize_down(u)
    PROVE  /\ scan' = 0 /\ newUsed' = 0
           /\ \/ pc' = "idle" /\ newSize' = newSize /\ newItems' = newItems
              \/ pc' = "rehash" /\ newItems' = EmptyTable(newSize')
BY DEF IInv, Shape, NoResize, StartResize, htable_resize_up, htable_resize_down, newTable

(* A resize step passes over a free slot, ...                                *)
StepSkips ==
    /\ scan \notin LiveSlots(items, size)
    /\ items' = items /\ newItems' = newItems /\ newUsed' = newUsed

(* ... moves the item of the slot to a slot of the new table that was free,  *)
StepMoves ==
    /\ scan \in LiveSlots(items, size)
    /\ items' = [items EXCEPT ![scan].value = NULL]
    /\ \E h \in Slots(newSize) \ LiveSlots(newItems, newSize) :
        /\ newItems' = [newItems EXCEPT ![h] = items[scan]]
        /\ LiveSlots(newItems', newSize) = LiveSlots(newItems, newSize) \cup {h}
    /\ newUsed' = newUsed + 1

(* or loses it, as its key finds no free slot there.                         *)
StepLoses ==
    /\ scan \in LiveSlots(items, size)
    /\ items' = [items EXCEPT ![scan].value = NULL]
    /\ Blocked(newItems, newSize, items[scan].key)
    /\ newItems' = newItems /\ newUsed' = newUsed

(* The three outcomes of an iteration of the resize loop. *)
LEMMA RehashEffect ==
    ASSUME IInv, Rehash
    PROVE  /\ pc = "rehash" /\ pc' = "rehash" /\ scan' = scan + 1
           /\ size' = size /\ used' = used /\ newSize' = newSize /\ ret' = ret
           /\ StepSkips \/ StepMoves \/ StepLoses
<1>1. pc = "rehash" /\ scan < size /\ scan \in Nat /\ newSize \in Sizes
  BY ConstantFacts DEF IInv, Shape, Rehash, Sizes
<1>2. pc' = "rehash"
  <2>1. Shape'
    BY RehashKeepsIInv DEF IInv
  <2>2. pc' \in {"rehash", "nested"}
    BY <1>1 DEF Rehash, MoveItem
  <2> QED  BY <2>1, <2>2 DEF Shape
<1>3. CASE ~ Free(items[scan]) /\ MoveItem
  <2> DEFINE k == items[scan].key
  <2>1. scan \in LiveSlots(items, size) /\ k \in Keys
    <3>1. scan \in LiveSlots(items, size)
      BY <1>3, MovedItemStaysReachable
    <3> QED  BY <3>1, IdleFacts, LiveSlotIsItem
  <2>2. items' = [items EXCEPT ![scan].value = NULL]
    BY <1>3 DEF Rehash
  <2>3. ASSUME \E i \in Slots(newSize) :
                   /\ FirstFree(newItems, newSize, k, i)
                   /\ newItems' = [newItems EXCEPT ![hash_func(k, newSize, i)] = items[scan]],
               newUsed' = newUsed + 1
        PROVE  StepMoves
    <3>1. PICK i \in Slots(newSize) :
              /\ FirstFree(newItems, newSize, k, i)
              /\ newItems' = [newItems EXCEPT ![hash_func(k, newSize, i)] = items[scan]]
      BY <2>3
    <3>2. GoodTable(newItems', newSize,
                    LiveSlots(newItems, newSize) \cup {hash_func(k, newSize, i)})
      BY <1>3, <3>1, StoredItemIsReachable
    <3>3. hash_func(k, newSize, i) \in Slots(newSize)
      BY <1>1, <2>1, ProbeStaysInTable
    <3>4. hash_func(k, newSize, i) \notin LiveSlots(newItems, newSize)
      BY <3>1 DEF FirstFree, LiveSlots
    <3> QED  BY <2>1, <2>2, <2>3, <3>1, <3>2, <3>3, <3>4 DEF GoodTable, StepMoves
  <2>4. ASSUME Blocked(newItems, newSize, k), newItems' = newItems, newUsed' = newUsed
        PROVE  StepLoses
    BY <2>1, <2>2, <2>4 DEF StepLoses
  <2>5. StepMoves \/ StepLoses
    BY <1>3, <2>3, <2>4 DEF MoveItem
  <2> QED  BY <1>1, <1>2, <2>5 DEF Rehash
<1>4. CASE Free(items[scan]) /\ UNCHANGED <<items, newItems, newUsed, pc>>
  <2>1. scan \notin LiveSlots(items, size)
    BY <1>4 DEF LiveSlots
  <2> QED  BY <1>1, <1>2, <1>4, <2>1 DEF Rehash, StepSkips
<1> QED  BY <1>3, <1>4 DEF Rehash

-----------------------------------------------------------------------------
(***************************************************************************)
(* The table implements Dictionary, for every set of keys and values and   *)
(* every pair of hash functions: each call and each resize step is one of  *)
(* the abstract map's, or changes nothing that the map shows.              *)
(***************************************************************************)

(* The values that are stored for k, in the new table and in the slots that  *)
(* a resize has not reached; Contents chooses among them.                    *)
Moved(k) == {newItems[s].value : s \in {t \in Slots(newSize) : Holds(newItems[t], k)}}
Unmoved(k) == {items[s].value : s \in {t \in scan .. (size - 1) : Holds(items[t], k)}}
Held(k) == Moved(k) \cup Unmoved(k)

LEMMA ContentsOfHeld ==
    ASSUME NEW k
    PROVE  /\ Held(k) = {} => Contents(k) = NULL
           /\ Held(k) # {} => Contents(k) \in Held(k)
           /\ \A v : Held(k) = {v} => Contents(k) = v
BY DEF Contents, Held, Moved, Unmoved

LEMMA SameHeldSameContents ==
    ASSUME NEW k, Held(k)' = Held(k)
    PROVE  Contents(k)' = Contents(k)
<1>1. Contents(k) = IF Held(k) = {} THEN NULL ELSE CHOOSE v \in Held(k) : TRUE
  BY DEF Contents, Held, Moved, Unmoved
<1>2. Contents(k)' = IF Held(k)' = {} THEN NULL ELSE CHOOSE v \in Held(k)' : TRUE
  BY DEF Contents, Held, Moved, Unmoved
<1> QED  BY <1>1, <1>2

LEMMA ContentsOfHeldNext ==
    ASSUME NEW k
    PROVE  /\ Held(k)' = {} => Contents(k)' = NULL
           /\ \A v : Held(k)' = {v} => Contents(k)' = v
<1>1. Contents(k)' = IF Held(k)' = {} THEN NULL ELSE CHOOSE v \in Held(k)' : TRUE
  BY DEF Contents, Held, Moved, Unmoved
<1> QED  BY <1>1

(* Before and after a call nothing has been moved, and what is stored for a  *)
(* key is what its live slots hold.                                          *)
OfSlots(tab, n, k) == {tab[s].value : s \in {t \in LiveSlots(tab, n) : tab[t].key = k}}

LEMMA HeldAtRest ==
    ASSUME NEW k, size \in Nat, scan = 0, LiveSlots(newItems, newSize) = {}
    PROVE  Held(k) = OfSlots(items, size, k)
<1>1. Moved(k) = {}
  BY DEF Moved, Holds, LiveSlots
<1>2. {t \in scan .. (size - 1) : Holds(items[t], k)}
          = {t \in LiveSlots(items, size) : items[t].key = k}
  BY DEF Holds, LiveSlots, Slots
<1> QED  BY <1>1, <1>2 DEF Held, Unmoved, OfSlots

(* A call shows its effect in the live slots, whether or not a resize starts. *)
LEMMA HeldByCall ==
    ASSUME IInv, pc = "idle", size' = size, NEW k,
           NEW u, NoResize \/ htable_resize_up(u) \/ htable_resize_down(u)
    PROVE  /\ Held(k) = OfSlots(items, size, k)
           /\ Held(k)' = OfSlots(items', size, k)
<1>1. size \in Nat /\ scan = 0 /\ newSize = 0
  BY IdleFacts DEF IInv, Shape
<1>2. LiveSlots(newItems, newSize) = {}
  BY <1>1 DEF LiveSlots, Slots
<1>3. scan' = 0 /\ LiveSlots(newItems', newSize') = {}
  <2>1. CASE newSize' = newSize /\ newItems' = newItems /\ scan' = 0
    BY <1>2, <2>1
  <2>2. CASE newItems' = EmptyTable(newSize') /\ scan' = 0
    BY <2>2 DEF EmptyTable, LiveSlots, Free
  <2> QED  BY <2>1, <2>2, CallMayResize
<1>4. Held(k) = OfSlots(items, size, k)
  BY <1>1, <1>2, HeldAtRest
<1>5. Held(k)' = OfSlots(items, size, k)'
  <2>1. Moved(k)' = {}
    BY <1>3 DEF Moved, Holds, LiveSlots
  <2>2. {t \in scan' .. (size' - 1) : Holds(items'[t], k)}
            = {t \in LiveSlots(items', size') : items'[t].key = k}
    BY <1>1, <1>3 DEF Holds, LiveSlots, Slots
  <2> QED  BY <2>1, <2>2 DEF Held, Unmoved, OfSlots
<1> QED  BY <1>4, <1>5 DEF OfSlots

(* Between calls a stored value is a value. *)
LEMMA HeldIsValue ==
    ASSUME IInv, pc = "idle", NEW k, NEW v \in OfSlots(items, size, k)
    PROVE  v # NULL
BY DEF IInv, Shape, OneOwner, OfSlots

-----------------------------------------------------------------------------
(* The table new is tab with k and v in slot h, where k was or nothing.      *)
Written(tab, new, n, h, k, v) ==
    /\ tab \in [Slots(n) -> Slot] /\ h \in Slots(n)
    /\ new = [tab EXCEPT ![h] = [key |-> k, value |-> v]]
    /\ LiveSlots(new, n) = LiveSlots(tab, n) \cup {h}
    /\ \A s \in LiveSlots(tab, n) \ {h} : tab[s].key # k
    /\ h \in LiveSlots(tab, n) => tab[h].key = k

(* Writing the item of k into slot h gives k that value, and no other key    *)
(* another.                                                                  *)
LEMMA WriteSlot ==
    ASSUME NEW n, NEW tab, NEW h, NEW k, NEW v, NEW new, Written(tab, new, n, h, k, v)
    PROVE  /\ OfSlots(new, n, k) = {v}
           /\ \A q : q # k => OfSlots(new, n, q) = OfSlots(tab, n, q)
<1> USE DEF Written
<1> DEFINE item == [key |-> k, value |-> v]
<1>1. new[h] = item /\ item.key = k /\ item.value = v
  OBVIOUS
<1> HIDE DEF item
<1>2. \A s \in LiveSlots(tab, n) \ {h} : new[s] = tab[s]
  BY DEF LiveSlots
<1>3. {t \in LiveSlots(new, n) : new[t].key = k} = {h}
  BY <1>1, <1>2
<1>4. OfSlots(new, n, k) = {v}
  BY <1>1, <1>3 DEF OfSlots
<1>5. ASSUME NEW q, q # k
      PROVE  OfSlots(new, n, q) = OfSlots(tab, n, q)
  <2> DEFINE S == {t \in LiveSlots(tab, n) : tab[t].key = q}
  <2>1. {t \in LiveSlots(new, n) : new[t].key = q} = S
    BY <1>1, <1>2, <1>5
  <2>2. \A t \in S : new[t] = tab[t]
    BY <1>2, <1>5
  <2>3. OfSlots(new, n, q) = {new[t].value : t \in S} /\ OfSlots(tab, n, q) = {tab[t].value : t \in S}
    BY <2>1 DEF OfSlots
  <2> HIDE DEF S
  <2>4. \A x : x \in {new[t].value : t \in S} <=> x \in {tab[t].value : t \in S}
    BY <2>2
  <2>5. {new[t].value : t \in S} = {tab[t].value : t \in S}
    BY <2>4
  <2> QED  BY <2>3, <2>5
<1> QED  BY <1>4, <1>5

(* The table new is tab with a tombstone in slot h, where k was. *)
Emptied(tab, new, n, h, k) ==
    /\ tab \in [Slots(n) -> Slot] /\ h \in LiveSlots(tab, n)
    /\ new = [tab EXCEPT ![h] = DELETED]
    /\ LiveSlots(new, n) = LiveSlots(tab, n) \ {h}
    /\ \A s \in LiveSlots(tab, n) : tab[s].key = k <=> s = h

(* A tombstone in the slot of k takes its value and no other's. *)
LEMMA EmptySlot ==
    ASSUME NEW n, NEW tab, NEW h, NEW k, NEW new, Emptied(tab, new, n, h, k)
    PROVE  /\ OfSlots(new, n, k) = {}
           /\ \A q : q # k => OfSlots(new, n, q) = OfSlots(tab, n, q)
<1> USE DEF Emptied
<1>1. \A s \in LiveSlots(tab, n) \ {h} : new[s] = tab[s]
  BY DEF LiveSlots
<1>2. OfSlots(new, n, k) = {}
  BY <1>1 DEF OfSlots
<1>3. ASSUME NEW q, q # k
      PROVE  OfSlots(new, n, q) = OfSlots(tab, n, q)
  <2> DEFINE S == {t \in LiveSlots(tab, n) : tab[t].key = q}
  <2>1. {t \in LiveSlots(new, n) : new[t].key = q} = S
    BY <1>1, <1>3
  <2>2. \A t \in S : new[t] = tab[t]
    BY <1>1, <1>3
  <2>3. OfSlots(new, n, q) = {new[t].value : t \in S} /\ OfSlots(tab, n, q) = {tab[t].value : t \in S}
    BY <2>1 DEF OfSlots
  <2> HIDE DEF S
  <2>4. \A x : x \in {new[t].value : t \in S} <=> x \in {tab[t].value : t \in S}
    BY <2>2
  <2>5. {new[t].value : t \in S} = {tab[t].value : t \in S}
    BY <2>4
  <2> QED  BY <2>3, <2>5
<1> QED  BY <1>2, <1>3

-----------------------------------------------------------------------------
(* The map after a call that writes v (or Absent) for k, in terms of Contents. *)
LEMMA MapOverridden ==
    ASSUME NEW k \in Keys, NEW v, Contents(k)' = v,
           \A q \in Keys \ {k} : Contents(q)' = Contents(q)
    PROVE  [q \in Keys |-> Contents(q)]' = [[q \in Keys |-> Contents(q)] EXCEPT ![k] = v]
OBVIOUS

LEMMA MapUnchanged ==
    ASSUME \A q \in Keys : Contents(q)' = Contents(q)
    PROVE  [q \in Keys |-> Contents(q)]' = [q \in Keys |-> Contents(q)]
OBVIOUS

-----------------------------------------------------------------------------
(* htable_set is a Put, or a Refuse when it finds no slot. *)
LEMMA SetIsPutOrRefuse ==
    ASSUME IInv, NEW k \in Keys, NEW v \in Values, htable_set(k, v)
    PROVE  Promise!Put(k, v) \/ Promise!Refuse(k)
<1> DEFINE dict == [q \in Keys |-> Contents(q)]
<1>1. /\ size' = size /\ pc = "idle"
      /\ SetReplaces(k, v) \/ SetFills(k, v) \/ SetRefuses(k)
  BY SetEffect
<1>2. /\ size \in Nat /\ items \in [Slots(size) -> Slot] /\ Reachable(items, size)
  BY IdleFacts
<1>3. dict[k] = Contents(k) /\ v # NULL /\ ~ (pc # "idle")
  BY <1>1, ItemAssumption
<1>4. \A q : Held(q) = OfSlots(items, size, q) /\ Held(q)' = OfSlots(items', size, q)
  BY <1>1, HeldByCall DEF SetReplaces, SetFills, SetRefuses
<1>5. ASSUME NEW h, Written(items, items', size, h, k, v)
      PROVE  dict' = [dict EXCEPT ![k] = v]
  <2>1. /\ OfSlots(items', size, k) = {v}
        /\ \A q \in Keys \ {k} : OfSlots(items', size, q) = OfSlots(items, size, q)
    BY <1>5, WriteSlot
  <2>2. Contents(k)' = v
    BY <1>4, <2>1, ContentsOfHeldNext
  <2>3. \A q \in Keys \ {k} : Contents(q)' = Contents(q)
    BY <1>4, <2>1, SameHeldSameContents
  <2> QED  BY <2>2, <2>3, MapOverridden
<1>6. CASE SetReplaces(k, v)
  <2>1. PICK h \in LiveSlots(items, size) :
            /\ items[h].key = k
            /\ items' = [items EXCEPT ![h] = [key |-> k, value |-> v]]
    BY <1>6 DEF SetReplaces
  <2>2. h \in Slots(size) /\ LiveSlots(items', size) = LiveSlots(items, size) \cup {h}
    BY <1>6 DEF SetReplaces, LiveSlots
  <2>3. \A s \in LiveSlots(items, size) \ {h} : items[s].key # k
    BY <1>2, <2>1, OneSlotPerKey
  <2>4. dict' = [dict EXCEPT ![k] = v]
    <3>1. Written(items, items', size, h, k, v)
      BY <1>2, <2>1, <2>2, <2>3 DEF Written
    <3> QED  BY <1>5, <3>1
  <2>5. dict[k] # NULL
    <3>1. Held(k) # {}
      BY <1>4, <2>1 DEF OfSlots
    <3>2. Contents(k) \in OfSlots(items, size, k)
      BY <1>4, <3>1, ContentsOfHeld
    <3> QED  BY <1>1, <1>3, <3>2, HeldIsValue
  <2>6. used' = used /\ ret' = Call("set", k, FALSE)
    BY <1>6 DEF SetReplaces
  <2> QED  BY <1>3, <2>4, <2>5, <2>6 DEF Promise!Put, Promise!Call, Call
<1>7. ASSUME NoLive(k) PROVE dict[k] = NULL
  <2>1. Held(k) = {}
    BY <1>4, <1>7 DEF NoLive, OfSlots
  <2> QED  BY <1>3, <2>1, ContentsOfHeld
<1>8. CASE SetFills(k, v)
  <2>1. PICK h \in Slots(size) \ LiveSlots(items, size) :
            /\ items' = [items EXCEPT ![h] = [key |-> k, value |-> v]]
            /\ LiveSlots(items', size) = LiveSlots(items, size) \cup {h}
    BY <1>8 DEF SetFills
  <2>2. NoLive(k) /\ used' = used + 1 /\ ret' = Call("set", k, TRUE)
    BY <1>8 DEF SetFills
  <2>3. dict' = [dict EXCEPT ![k] = v]
    <3>1. Written(items, items', size, h, k, v)
      BY <1>2, <2>1, <2>2 DEF NoLive, Written
    <3> QED  BY <1>5, <3>1
  <2>4. dict[k] = NULL
    BY <1>7, <2>2
  <2> QED  BY <1>3, <2>2, <2>3, <2>4 DEF Promise!Put, Promise!Call, Call
<1>9. CASE SetRefuses(k)
  <2>1. items' = items /\ NoLive(k) /\ used' = used /\ ret' = Call("set", k, TRUE)
        /\ pc' = "idle"
    BY <1>9 DEF SetRefuses, NoResize
  <2>2. \A q \in Keys : Held(q)' = Held(q)
    BY <1>4, <2>1
  <2>3. dict' = dict
    BY <2>2, SameHeldSameContents, MapUnchanged
  <2>4. dict[k] = NULL
    BY <1>7, <2>1
  <2> QED  BY <1>1, <1>3, <2>1, <2>3, <2>4 DEF Promise!Refuse, Promise!Call, Call
<1> QED  BY <1>1, <1>6, <1>8, <1>9

(* htable_del is a Remove. *)
LEMMA DelIsRemove ==
    ASSUME IInv, NEW k \in Keys, htable_del(k)
    PROVE  Promise!Remove(k)
<1> DEFINE dict == [q \in Keys |-> Contents(q)]
<1>1. /\ size' = size /\ pc = "idle"
      /\ DelEmpties(k) \/ DelMisses(k)
  BY DelEffect
<1>2. /\ size \in Nat /\ items \in [Slots(size) -> Slot] /\ Reachable(items, size)
  BY IdleFacts
<1>3. dict[k] = Contents(k) /\ ~ (pc # "idle")
  BY <1>1
<1>4. \A q : Held(q) = OfSlots(items, size, q) /\ Held(q)' = OfSlots(items', size, q)
  BY <1>1, HeldByCall DEF DelEmpties, DelMisses
<1>5. CASE DelEmpties(k)
  <2>1. PICK h \in LiveSlots(items, size) :
            /\ items[h].key = k
            /\ items' = [items EXCEPT ![h] = DELETED]
            /\ LiveSlots(items', size) = LiveSlots(items, size) \ {h}
    BY <1>5 DEF DelEmpties
  <2>2. \A s \in LiveSlots(items, size) \ {h} : items[s].key # k
    BY <1>2, <2>1, OneSlotPerKey
  <2>3. /\ OfSlots(items', size, k) = {}
        /\ \A q \in Keys \ {k} : OfSlots(items', size, q) = OfSlots(items, size, q)
    <3>1. Emptied(items, items', size, h, k)
      BY <1>2, <2>1, <2>2 DEF Emptied
    <3> QED  BY <3>1, EmptySlot
  <2>4. Contents(k)' = NULL
    BY <1>4, <2>3, ContentsOfHeldNext
  <2>5. dict' = [dict EXCEPT ![k] = NULL]
    <3>1. \A q \in Keys \ {k} : Contents(q)' = Contents(q)
      BY <1>4, <2>3, SameHeldSameContents
    <3> QED  BY <2>4, <3>1, MapOverridden
  <2>6. dict[k] # NULL
    <3>1. Held(k) # {}
      BY <1>4, <2>1 DEF OfSlots
    <3>2. Contents(k) \in OfSlots(items, size, k)
      BY <1>4, <3>1, ContentsOfHeld
    <3> QED  BY <1>1, <1>3, <3>2, HeldIsValue
  <2>7. used' = used - 1 /\ ret' = Call("del", k, TRUE)
    BY <1>5 DEF DelEmpties
  <2> QED  BY <1>3, <2>5, <2>6, <2>7 DEF Promise!Remove, Promise!Call, Call
<1>6. CASE DelMisses(k)
  <2>1. items' = items /\ NoLive(k) /\ used' = used /\ ret' = Call("del", k, FALSE)
        /\ pc' = "idle"
    BY <1>6 DEF DelMisses, NoResize
  <2>2. \A q \in Keys : Held(q)' = Held(q)
    BY <1>4, <2>1
  <2>3. Held(k) = {}
    BY <1>4, <2>1 DEF NoLive, OfSlots
  <2>4. Contents(k) = NULL
    BY <2>3, ContentsOfHeld
  <2>5. dict' = [dict EXCEPT ![k] = NULL]
    <3>1. \A q \in Keys : Contents(q)' = Contents(q)
      BY <2>2, SameHeldSameContents
    <3> QED  BY <2>4, <3>1, MapOverridden
  <2> QED  BY <1>3, <2>1, <2>4, <2>5 DEF Promise!Remove, Promise!Call, Call
<1> QED  BY <1>1, <1>5, <1>6

-----------------------------------------------------------------------------
(* The value that an iteration of the resize loop takes from the old table.  *)
Taken(k) == {w \in {items[scan].value} : Holds(items[scan], k)}

LEMMA UnmovedShrinks ==
    ASSUME IInv, Rehash, NEW k
    PROVE  Unmoved(k) = Unmoved(k)' \cup Taken(k)
<1>1. /\ size \in Nat /\ scan \in Nat /\ scan < size /\ items \in [Slots(size) -> Slot]
      /\ size' = size /\ scan' = scan + 1
  BY IdleFacts DEF IInv, Shape, Rehash
<1>2. \A t \in Slots(size) : t # scan => items'[t] = items[t]
  BY <1>1, RehashEffect DEF StepSkips, StepMoves, StepLoses
<1> DEFINE S == {t \in (scan + 1) .. (size - 1) : Holds(items[t], k)}
<1>3. {t \in scan' .. (size' - 1) : Holds(items'[t], k)} = S
  BY <1>1, <1>2 DEF Slots
<1>4. \A t \in S : items'[t] = items[t]
  BY <1>1, <1>2 DEF Slots
<1>5. {t \in scan .. (size - 1) : Holds(items[t], k)} = S \cup {t \in {scan} : Holds(items[t], k)}
  BY <1>1
<1>6. Unmoved(k)' = {items'[t].value : t \in S}
  BY <1>3 DEF Unmoved
<1>7. Unmoved(k) = {items[t].value : t \in S \cup {t \in {scan} : Holds(items[t], k)}}
  BY <1>5 DEF Unmoved
<1> HIDE DEF S
<1>8. \A x : x \in {items'[t].value : t \in S} <=> x \in {items[t].value : t \in S}
  BY <1>4
<1>9. \A x : x \in Unmoved(k) <=> x \in Unmoved(k)' \/ x \in Taken(k)
  BY <1>6, <1>7, <1>8 DEF Taken
<1> QED  BY <1>9

(* What an iteration stores in the new table is what it took. *)
LEMMA MovedGrows ==
    ASSUME IInv, Rehash, StepMoves, NEW k
    PROVE  Moved(k)' = Moved(k) \cup Taken(k)
<1>1. PICK h \in Slots(newSize) \ LiveSlots(newItems, newSize) :
          newItems' = [newItems EXCEPT ![h] = items[scan]]
  BY DEF StepMoves
<1>2. newItems \in [Slots(newSize) -> Slot] /\ newSize' = newSize
  BY RehashEffect DEF IInv, Shape
<1>3. newItems'[h] = items[scan] /\ ~ Holds(newItems[h], k)
  BY <1>1, <1>2 DEF Holds, LiveSlots
<1>4. \A t \in Slots(newSize) : t # h => newItems'[t] = newItems[t]
  BY <1>1, <1>2
<1> DEFINE S == {t \in Slots(newSize) : Holds(newItems[t], k)}
           T == {t \in {h} : Holds(items[scan], k)}
<1>5. {t \in Slots(newSize') : Holds(newItems'[t], k)} = S \cup T
  BY <1>2, <1>3, <1>4
<1>6. \A t \in S : newItems'[t] = newItems[t]
  BY <1>3, <1>4
<1>7. /\ Moved(k) = {newItems[t].value : t \in S}
      /\ Moved(k)' = {newItems'[t].value : t \in S \cup T}
      /\ \A t : t \in T <=> t = h /\ Holds(items[scan], k)
  BY <1>5 DEF Moved
<1> HIDE DEF S, T
<1>8. \A x : x \in {newItems'[t].value : t \in S} <=> x \in {newItems[t].value : t \in S}
  BY <1>6
<1>9. \A x : x \in Moved(k)' <=>
          \/ x \in {newItems'[t].value : t \in S}
          \/ Holds(items[scan], k) /\ x = newItems'[h].value
  BY <1>7
<1>10. \A x : x \in Taken(k) <=> Holds(items[scan], k) /\ x = newItems'[h].value
  BY <1>3 DEF Taken
<1>11. \A x : x \in Moved(k)' <=> x \in Moved(k) \/ x \in Taken(k)
  BY <1>7, <1>8, <1>9, <1>10
<1> QED  BY <1>11

(* The key of the slot is nowhere else: if it is lost, it is gone. *)
LEMMA TakenIsAll ==
    ASSUME IInv, Rehash, scan \in LiveSlots(items, size), NEW k, k = items[scan].key
    PROVE  k \in Keys /\ Moved(k) = {} /\ Unmoved(k)' = {}
<1>1. /\ size \in Nat /\ items \in [Slots(size) -> Slot] /\ Reachable(items, size)
      /\ scan \in Nat
  BY IdleFacts DEF IInv, Shape, Rehash
<1>2. k \in Keys
  BY <1>1, LiveSlotIsItem
<1>3. \A s \in LiveSlots(items, size) : items[s].key = k => s = scan
  BY <1>1, OneSlotPerKey
<1>4. Moved(k) = {}
  <2>1. ASSUME NEW t \in LiveSlots(newItems, newSize) PROVE newItems[t].key # k
    <3>1. PICK s \in LiveSlots(items, size) : s < scan /\ items[s].key = newItems[t].key
      BY DEF IInv, MovedFromBelow
    <3> QED  BY <1>1, <1>3, <3>1
  <2> QED  BY <2>1 DEF Moved, Holds, LiveSlots
<1>5. Unmoved(k)' = {}
  <2>1. /\ size' = size /\ scan' = scan + 1
        /\ \A t \in Slots(size) : t # scan => items'[t] = items[t]
    BY <1>1, RehashEffect DEF StepSkips, StepMoves, StepLoses
  <2>2. \A t \in (scan + 1) .. (size - 1) : ~ Holds(items'[t], k)
    BY <1>1, <1>3, <2>1 DEF Holds, LiveSlots, Slots
  <2> QED  BY <2>1, <2>2 DEF Unmoved
<1> QED  BY <1>2, <1>4, <1>5

(* An iteration of the resize loop shows nothing, or loses a key that finds  *)
(* no slot in the new table.                                                 *)
LEMMA RehashIsResizeStepOrLose ==
    ASSUME IInv, Rehash
    PROVE  \/ Promise!ResizeStep
           \/ \E k \in Keys : Promise!Lose(k) /\ Blocked(newItems, newSize, k)
<1> DEFINE dict == [q \in Keys |-> Contents(q)]
<1>1. /\ pc = "rehash" /\ pc' = "rehash" /\ used' = used /\ ret' = ret
      /\ newSize' = newSize
      /\ StepSkips \/ StepMoves \/ StepLoses
  BY RehashEffect
<1>2. (pc # "idle") /\ (pc' # "idle") /\ (pc' # "idle") = (pc # "idle")
  BY <1>1
<1>3. CASE StepSkips \/ StepMoves
  <2>1. ASSUME NEW q \in Keys PROVE Held(q)' = Held(q)
    <3>1. Unmoved(q) = Unmoved(q)' \cup Taken(q)
      BY UnmovedShrinks
    <3>2. CASE StepSkips
      <4>1. Taken(q) = {}
        BY <3>2 DEF StepSkips, Taken, Holds, LiveSlots, IInv, Shape, Rehash, Slots
      <4>2. Moved(q)' = Moved(q)
        BY <1>1, <3>2 DEF StepSkips, Moved
      <4> QED  BY <3>1, <4>1, <4>2 DEF Held
    <3>3. CASE StepMoves
      <4>1. Moved(q)' = Moved(q) \cup Taken(q)
        BY <3>3, MovedGrows
      <4> QED  BY <3>1, <4>1 DEF Held
    <3> QED  BY <1>3, <3>2, <3>3
  <2>2. dict' = dict
    BY <2>1, SameHeldSameContents, MapUnchanged
  <2> QED  BY <1>1, <1>2, <2>2 DEF Promise!ResizeStep
<1>4. CASE StepLoses
  <2>0. PICK k : k = items[scan].key
    OBVIOUS
  <2>1. k \in Keys /\ Moved(k) = {} /\ Unmoved(k)' = {}
    BY <1>4, <2>0, TakenIsAll DEF StepLoses
  <2>2. \A q : Moved(q)' = Moved(q)
    BY <1>1, <1>4 DEF StepLoses, Moved
  <2>3. Contents(k)' = NULL
    <3>1. Held(k)' = {}
      BY <2>1, <2>2 DEF Held
    <3> QED  BY <3>1, ContentsOfHeldNext
  <2>4. ASSUME NEW q \in Keys \ {k} PROVE Contents(q)' = Contents(q)
    <3>1. Taken(q) = {}
      BY <2>0 DEF Taken, Holds
    <3>2. Unmoved(q) = Unmoved(q)' \cup Taken(q)
      BY UnmovedShrinks
    <3>3. Held(q)' = Held(q)
      BY <2>2, <3>1, <3>2 DEF Held
    <3> QED  BY <3>3, SameHeldSameContents
  <2>5. dict' = [dict EXCEPT ![k] = NULL]
    BY <2>1, <2>3, <2>4, MapOverridden
  <2>6. Promise!Lose(k)
    BY <1>1, <1>2, <2>5 DEF Promise!Lose
  <2>7. Blocked(newItems, newSize, k)
    BY <1>4, <2>0 DEF StepLoses
  <2> QED  BY <2>1, <2>6, <2>7
<1> QED  BY <1>1, <1>3, <1>4

(* The swap of the tables shows nothing but the end of the resize. *)
LEMMA FinishIsResizeStep ==
    ASSUME IInv, FinishResize
    PROVE  Promise!ResizeStep
<1> DEFINE dict == [q \in Keys |-> Contents(q)]
<1>1. /\ pc = "rehash" /\ pc' = "idle" /\ scan = size /\ scan' = 0
      /\ size' = newSize /\ items' = newItems /\ newSize' = 0
      /\ used' = used /\ ret' = ret /\ size \in Nat
  BY IdleFacts DEF FinishResize
<1>2. ASSUME NEW q \in Keys PROVE Held(q)' = Held(q)
  <2>1. Unmoved(q) = {} /\ Moved(q)' = {}
    BY <1>1 DEF Unmoved, Moved, Slots
  <2>2. Unmoved(q)' = Moved(q)
    BY <1>1 DEF Unmoved, Moved, Slots
  <2> QED  BY <2>1, <2>2 DEF Held
<1>3. dict' = dict
  BY <1>2, SameHeldSameContents, MapUnchanged
<1> QED  BY <1>1, <1>3 DEF Promise!ResizeStep

(***************************************************************************)
(* The theorem.                                                            *)
(***************************************************************************)

(* htable_init leaves the empty map. *)
LEMMA InitIsEmptyMap == Init => Promise!Init
<1> SUFFICES ASSUME Init PROVE Promise!Init
  OBVIOUS
<1>1. size \in Nat
  BY InitEstablishesIInv, IdleFacts
<1>2. ASSUME NEW q \in Keys PROVE Contents(q) = NULL
  <2>1. LiveSlots(items, size) = {} /\ LiveSlots(newItems, newSize) = {} /\ scan = 0
    BY <1>1, EmptyTableIsReachable DEF Init
  <2>2. Held(q) = {}
    BY <1>1, <2>1, HeldAtRest DEF OfSlots
  <2> QED  BY <2>2, ContentsOfHeld
<1>3. [q \in Keys |-> Contents(q)] = [q \in Keys |-> NULL]
  BY <1>2
<1> QED  BY <1>3 DEF Init, Promise!Init, Promise!Call, Call

(* Every step of the slots is a step of the map. *)
LEMMA StepIsMapStep == IInv /\ [Next]_vars => [Promise!Next]_(Promise!vars)
<1> SUFFICES ASSUME IInv, [Next]_vars PROVE [Promise!Next]_(Promise!vars)
  OBVIOUS
<1>1. ASSUME NEW k \in Keys, NEW v \in Values, htable_set(k, v)
      PROVE  Promise!Next
  BY <1>1, SetIsPutOrRefuse DEF Promise!Next
<1>2. ASSUME NEW k \in Keys, htable_del(k) PROVE Promise!Next
  BY <1>2, DelIsRemove DEF Promise!Next
<1>3. CASE Rehash
  BY <1>3, RehashIsResizeStepOrLose DEF Promise!Next
<1>4. CASE FinishResize
  BY <1>4, FinishIsResizeStep DEF Promise!Next
<1>5. CASE UNCHANGED vars
  BY <1>5 DEF vars, table, newTable, Promise!vars, Contents
<1> QED  BY <1>1, <1>2, <1>3, <1>4, <1>5 DEF Next

(* The slots of htable.c implement the map of Dictionary: whatever the keys  *)
(* hash to, a call has the effect and the answer of the map's, and the only  *)
(* other things that happen are the refusals and the losses that it names.   *)
THEOREM Refinement == Spec => RefinesDictionary
BY InitIsEmptyMap, StepIsMapStep, Invariance, PTL DEF Spec, RefinesDictionary, Promise!Spec

-----------------------------------------------------------------------------
(***************************************************************************)
(* Which keys are refused or lost: the sizes are primes, so a key whose    *)
(* step is not 0 probes every slot and finds the one that the load limit   *)
(* leaves free.                                                            *)
(***************************************************************************)

SizesPrime == Prime(size) /\ (pc = "rehash" => Prime(newSize))

(* htable_init asks next_prime for the first size. *)
LEMMA InitSizeIsPrime == Init => SizesPrime
<1>1. HT_BASE_SIZE \in 2 .. 2 * MaxSize
  BY TableAssumption
<1>2. Prime(next_prime(HT_BASE_SIZE))
  BY <1>1, NextPrimeIsPrime
<1> QED  BY <1>2 DEF Init, SizesPrime

(* htable_resize asks it for every other. *)
LEMMA ResizeSizeIsPrime ==
    ASSUME IInv, SizesPrime, pc = "idle", size' = size,
           NEW u, NoResize \/ htable_resize_up(u) \/ htable_resize_down(u)
    PROVE  SizesPrime'
<1>1. size \in 2 .. MaxSize /\ MaxSize \in Nat
  BY ConstantFacts DEF IInv, Shape
<1>2. CASE NoResize
  BY <1>2 DEF NoResize, SizesPrime
<1>3. ASSUME NEW n \in 1 .. 2 * MaxSize, StartResize(n)
      PROVE  SizesPrime'
  <2>1. CASE n < HT_BASE_SIZE
    BY <1>2, <1>3, <2>1 DEF StartResize
  <2>2. CASE ~ (n < HT_BASE_SIZE)
    <3>1. n \in 2 .. 2 * MaxSize
      BY <2>2, <1>1, ConstantFacts
    <3>2. Prime(next_prime(n))
      BY <3>1, NextPrimeIsPrime
    <3> QED  BY <1>3, <2>2, <3>2 DEF StartResize, SizesPrime
  <2> QED  BY <2>1, <2>2
<1>4. 2 * size \in 1 .. 2 * MaxSize /\ size \div 2 \in 1 .. 2 * MaxSize
  BY <1>1
<1> QED  BY <1>2, <1>3, <1>4 DEF htable_resize_up, htable_resize_down

(* Every table that a step leaves has a prime number of slots. *)
LEMMA StepKeepsSizesPrime == IInv /\ SizesPrime /\ [Next]_vars => SizesPrime'
<1> SUFFICES ASSUME IInv, SizesPrime, [Next]_vars PROVE SizesPrime'
  OBVIOUS
<1>1. ASSUME NEW k \in Keys, NEW v \in Values, htable_set(k, v) PROVE SizesPrime'
  <2>1. size' = size /\ pc = "idle" /\ (NoResize \/ htable_resize_up(used'))
    BY <1>1, SetEffect DEF SetReplaces, SetFills, SetRefuses
  <2> QED  BY <2>1, ResizeSizeIsPrime
<1>2. ASSUME NEW k \in Keys, htable_del(k) PROVE SizesPrime'
  <2>1. size' = size /\ pc = "idle" /\ (NoResize \/ htable_resize_down(used'))
    BY <1>2, DelEffect DEF DelEmpties, DelMisses
  <2> QED  BY <2>1, ResizeSizeIsPrime
<1>3. CASE Rehash
  BY <1>3, RehashEffect DEF SizesPrime
<1>4. CASE FinishResize
  BY <1>4 DEF FinishResize, SizesPrime
<1>5. CASE UNCHANGED vars
  BY <1>5 DEF vars, table, newTable, SizesPrime
<1> QED  BY <1>1, <1>2, <1>3, <1>4, <1>5 DEF Next

(* The load limit leaves a free slot in the table that serves a call and in  *)
(* the table that a resize fills.                                            *)
LEMMA TablesAreNotFull ==
    ASSUME IInv
    PROVE  /\ pc = "idle" => Cardinality(LiveSlots(items, size)) < size
           /\ pc = "rehash" => Cardinality(LiveSlots(newItems, newSize)) < newSize
<1>1. /\ size \in Nat /\ size >= 2 /\ used \in Nat /\ newSize \in Nat /\ newUsed \in Nat
      /\ pc = "rehash" => newSize >= 2
  BY ConstantFacts DEF IInv, Shape
<1>2. /\ Cardinality(LiveSlots(items, size)) \in Nat
      /\ Cardinality(LiveSlots(items, size)) <= used
  BY <1>1, LiveSlotsFinite DEF IInv, Counted
<1>3. Cardinality(LiveSlots(newItems, newSize)) <= used
  <2>1. Waiting \subseteq LiveSlots(items, size)
    BY DEF Waiting
  <2>2. Cardinality(Waiting) \in Nat
    BY <1>1, <2>1, LiveSlotsFinite, FS_Subset, FS_CardinalityType
  <2> QED  BY <1>1, <1>2, <2>2 DEF IInv, Counted
<1>4. Cardinality(LiveSlots(newItems, newSize)) \in Nat
  BY <1>1, LiveSlotsFinite
<1>5. ASSUME NEW c \in Nat, NEW n \in Nat, c <= used, used * 100 < 71 * n
      PROVE  c < n
  BY <1>1, <1>5
<1> QED  BY <1>1, <1>2, <1>3, <1>4, <1>5 DEF IInv, LoadLimit

(* A call that says it stored a new key did, and a call that is no delete    *)
(* takes none, unless the step of the key is 0.                              *)
NoLoss(k) ==
    /\ Contents(k) # NULL /\ Contents(k)' = NULL =>
           \/ pc = "idle" /\ ret' = Call("del", k, TRUE)
           \/ pc = "rehash" /\ Step(k, newSize) = 0
    /\ pc = "idle" /\ ret' = Call("set", k, TRUE) /\ Contents(k)' = NULL =>
           Step(k, size) = 0

(* The map reads as Contents. *)
LEMMA MapReads ==
    ASSUME NEW k \in Keys
    PROVE  /\ \A q \in Keys : \A v :
                  [c \in Keys |-> Contents(c)]' = [[c \in Keys |-> Contents(c)] EXCEPT ![q] = v]
                      => Contents(k)' = IF k = q THEN v ELSE Contents(k)
           /\ [c \in Keys |-> Contents(c)]' = [c \in Keys |-> Contents(c)]
                  => Contents(k)' = Contents(k)
<1> DEFINE d == [c \in Keys |-> Contents(c)]
<1>1. d[k] = Contents(k) /\ d'[k] = Contents(k)' /\ d \in [Keys -> {Contents(c) : c \in Keys}]
  OBVIOUS
<1> HIDE DEF d
<1>2. \A q \in Keys : \A v : [d EXCEPT ![q] = v][k] = IF k = q THEN v ELSE d[k]
  BY <1>1
<1> QED  BY <1>1, <1>2 DEF d

LEMMA SetLosesNone ==
    ASSUME IInv, SizesPrime, NEW k \in Keys, NEW q \in Keys, NEW v \in Values, htable_set(q, v)
    PROVE  NoLoss(k)
<1>1. /\ pc = "idle" /\ v # NULL /\ size \in Sizes
      /\ SetReplaces(q, v) \/ SetFills(q, v) \/ SetRefuses(q)
  BY SetEffect, IdleFacts, ItemAssumption
<1>2. Promise!Put(q, v) \/ Promise!Refuse(q)
  BY SetIsPutOrRefuse
<1>3. Contents(k)' = (IF k = q THEN v ELSE Contents(k)) \/ Contents(k)' = Contents(k)
  BY <1>2, MapReads DEF Promise!Put, Promise!Refuse
<1>4. ASSUME ret' = Call("set", k, TRUE), Contents(k)' = NULL
      PROVE  Step(k, size) = 0
  <2>1. k = q
    BY <1>1, <1>4 DEF SetReplaces, SetFills, SetRefuses, Call
  <2>2. ~ SetReplaces(q, v)
    BY <1>4 DEF SetReplaces, Call
  <2>3. CASE SetFills(q, v)
    <3>1. used' # used
      BY <2>3, IdleFacts DEF SetFills
    <3>2. Promise!Put(q, v)
      BY <1>2, <3>1 DEF Promise!Refuse
    <3>3. Contents(k)' = v
      BY <2>1, <3>2, MapReads DEF Promise!Put
    <3> QED  BY <1>1, <1>4, <3>3
  <2>4. CASE SetRefuses(q)
    BY <1>1, <2>1, <2>4, TablesAreNotFull, OnlyZeroStepsAreBlocked DEF SetRefuses, SizesPrime
  <2> QED  BY <1>1, <2>2, <2>3, <2>4
<1> QED  BY <1>1, <1>3, <1>4 DEF NoLoss

LEMMA DelLosesNone ==
    ASSUME IInv, NEW k \in Keys, NEW q \in Keys, htable_del(q)
    PROVE  NoLoss(k)
<1>1. pc = "idle" /\ (DelEmpties(q) \/ DelMisses(q))
  BY DelEffect
<1>2. /\ Promise!Remove(q)
      /\ Contents(k)' = IF k = q THEN NULL ELSE Contents(k)
  BY DelIsRemove, MapReads DEF Promise!Remove
<1>3. [c \in Keys |-> Contents(c)][q] = Contents(q)
  OBVIOUS
<1>4. ret'.op = "del" /\ (Contents(q) # NULL => ret' = Call("del", q, TRUE))
  BY <1>2, <1>3 DEF Promise!Remove, Promise!Call, Call
<1>5. ret' # Call("set", k, TRUE)
  BY <1>4 DEF Call
<1>6. Contents(k) # NULL /\ Contents(k)' = NULL => ret' = Call("del", k, TRUE)
  <2> HAVE Contents(k) # NULL /\ Contents(k)' = NULL
  <2>1. k = q
    BY <1>2
  <2> QED  BY <1>4, <2>1
<1> QED  BY <1>1, <1>5, <1>6 DEF NoLoss

LEMMA ResizeLosesZeroSteps ==
    ASSUME IInv, SizesPrime, NEW k \in Keys, Rehash \/ FinishResize
    PROVE  NoLoss(k)
<1>1. pc = "rehash" /\ newSize \in Sizes
  BY ConstantFacts DEF Rehash, FinishResize, IInv, Shape, Sizes
<1>2. CASE Promise!ResizeStep
  <2>1. Contents(k)' = Contents(k)
    BY <1>2, MapReads DEF Promise!ResizeStep
  <2> QED  BY <1>1, <2>1 DEF NoLoss
<1>3. ASSUME NEW q \in Keys, Promise!Lose(q), Blocked(newItems, newSize, q)
      PROVE  NoLoss(k)
  <2>1. Contents(k)' = IF k = q THEN NULL ELSE Contents(k)
    BY <1>3, MapReads DEF Promise!Lose
  <2>2. Step(q, newSize) = 0
    BY <1>1, <1>3, TablesAreNotFull, OnlyZeroStepsAreBlocked DEF SizesPrime
  <2> QED  BY <1>1, <2>1, <2>2 DEF NoLoss
<1> QED  BY <1>2, <1>3, RehashIsResizeStepOrLose, FinishIsResizeStep

(* Each step refuses and loses only keys whose step is 0. *)
LEMMA StepLosesZeroSteps ==
    IInv /\ SizesPrime /\ [Next]_vars => [\A k \in Keys : NoLoss(k)]_vars
<1> SUFFICES ASSUME IInv, SizesPrime, Next, NEW k \in Keys PROVE NoLoss(k)
  OBVIOUS
<1> QED  BY SetLosesNone, DelLosesNone, ResizeLosesZeroSteps DEF Next

(* A key is refused, or lost by a resize, only if its step in that table is  *)
(* 0; for the other keys the table is an exact map.                          *)
THEOREM LossesHaveZeroSteps == Spec => OnlyZeroStepsAreLost
<1>1. IInv /\ SizesPrime /\ [Next]_vars =>
          [\A k \in Keys :
              /\ Contents(k) # NULL /\ Contents(k)' = NULL =>
                     \/ pc = "idle" /\ ret' = Call("del", k, TRUE)
                     \/ pc = "rehash" /\ Step(k, newSize) = 0
              /\ pc = "idle" /\ ret' = Call("set", k, TRUE) /\ Contents(k)' = NULL =>
                     Step(k, size) = 0]_vars
  BY StepLosesZeroSteps DEF NoLoss
<1> QED  BY <1>1, InitSizeIsPrime, StepKeepsSizesPrime, Invariance, PTL
         DEF Spec, OnlyZeroStepsAreLost

-----------------------------------------------------------------------------
(***************************************************************************)
(* A key that holds a hash: HashKey.                                       *)
(***************************************************************************)

Live == LiveSlots(items, size)

(***************************************************************************)
(* The counter.  UsedIsExact speaks of the table between resizes only.     *)
(* During a resize the fields are those that were moved and those that     *)
(* wait, and the loop's losses are in lost already.                        *)
(***************************************************************************)
UsedInv ==
    /\ IInv
    /\ lost \in Nat
    /\ pc = "idle" => used = Cardinality(Live) + lost
    /\ pc = "rehash" => used = newUsed + Cardinality(Waiting) + lost

(* A call that keeps what used counts beyond the live slots keeps it also    *)
(* when it starts a resize: then all of them wait.                           *)
LEMMA CallKeepsUsed ==
    ASSUME UsedInv, IInv', pc = "idle", lost' = lost, size' = size,
           used' = Cardinality(Live') + lost,
           NEW u, NoResize \/ htable_resize_up(u) \/ htable_resize_down(u)
    PROVE  UsedInv'
<1>1. /\ scan' = 0 /\ newUsed' = 0
      /\ pc' = "idle" \/ pc' = "rehash"
  BY CallMayResize DEF UsedInv
<1>2. size \in Nat
  BY IdleFacts DEF UsedInv
<1>3. Waiting' = Live'
  BY <1>1, <1>2 DEF Waiting, Live, LiveSlots, Slots
<1>4. Cardinality(Live') \in Nat
  BY <1>2, LiveSlotsFinite DEF Live
<1> QED  BY <1>1, <1>3, <1>4 DEF UsedInv

(* The facts about the live slots that the counting needs. *)
LEMMA LiveFacts ==
    ASSUME UsedInv
    PROVE  /\ IsFiniteSet(Live) /\ Cardinality(Live) \in Nat
           /\ IsFiniteSet(Waiting) /\ Cardinality(Waiting) \in Nat
           /\ size \in Nat /\ used \in Nat /\ lost \in Nat
<1>1. size \in Nat /\ used \in Nat
  BY IdleFacts DEF UsedInv
<1>2. Waiting \subseteq Live
  BY DEF Waiting, Live
<1> QED  BY <1>1, <1>2, LiveSlotsFinite, FS_Subset, FS_CardinalityType DEF Live, UsedInv

(* htable_set on the hash's table. *)
LEMMA SetKeepsUsed ==
    ASSUME UsedInv, NEW f \in Keys, NEW v \in Values, htable_set(f, v), lost' = lost
    PROVE  UsedInv'
<1>1. /\ size' = size /\ pc = "idle"
      /\ SetReplaces(f, v) \/ SetFills(f, v) \/ SetRefuses(f)
  BY SetEffect DEF UsedInv
<1>2. IInv'
  BY SetKeepsIInv DEF UsedInv
<1>3. used = Cardinality(Live) + lost
  BY <1>1 DEF UsedInv
<1>4. CASE SetReplaces(f, v)
  BY <1>1, <1>2, <1>3, <1>4, CallKeepsUsed DEF SetReplaces, Live
<1>5. CASE SetFills(f, v)
  <2>1. PICK h \in Slots(size) \ LiveSlots(items, size) : Live' = Live \cup {h}
    BY <1>1, <1>5 DEF SetFills, Live
  <2>2. Cardinality(Live') = Cardinality(Live) + 1
    BY <2>1, LiveFacts, FS_AddElement DEF Live
  <2>3. used' = Cardinality(Live') + lost /\ htable_resize_up(used')
    BY <1>3, <1>5, <2>2, LiveFacts DEF SetFills
  <2> QED  BY <1>1, <1>2, <2>3, CallKeepsUsed
<1>6. CASE SetRefuses(f)
  BY <1>1, <1>2, <1>3, <1>6, CallKeepsUsed DEF SetRefuses, Live
<1> QED  BY <1>1, <1>4, <1>5, <1>6

(* htable_del on the hash's table. *)
LEMMA DelKeepsUsed ==
    ASSUME UsedInv, NEW f \in Keys, htable_del(f), lost' = lost
    PROVE  UsedInv'
<1>1. /\ size' = size /\ pc = "idle"
      /\ DelEmpties(f) \/ DelMisses(f)
  BY DelEffect DEF UsedInv
<1>2. IInv'
  BY DelKeepsIInv DEF UsedInv
<1>3. used = Cardinality(Live) + lost
  BY <1>1 DEF UsedInv
<1>4. CASE DelEmpties(f)
  <2>1. PICK h \in Live : Live' = Live \ {h}
    BY <1>1, <1>4 DEF DelEmpties, Live
  <2>2. Cardinality(Live') = Cardinality(Live) - 1
    BY <2>1, LiveFacts, FS_RemoveElement
  <2>3. used' = Cardinality(Live') + lost /\ htable_resize_down(used')
    BY <1>3, <1>4, <2>2, LiveFacts DEF DelEmpties
  <2> QED  BY <1>1, <1>2, <2>3, CallKeepsUsed
<1>5. CASE DelMisses(f)
  BY <1>1, <1>2, <1>3, <1>5, CallKeepsUsed DEF DelMisses, Live
<1> QED  BY <1>1, <1>4, <1>5

(* A fresh table counts nothing. *)
LEMMA FreshTableIsGood ==
    ASSUME IInv, pc = "idle", FreshTable
    PROVE  IInv' /\ used' = 0 /\ Live' = {} /\ pc' = "idle"
<1>1. size' \in HT_BASE_SIZE .. MaxSize /\ size' \in Nat
  <2>1. HT_BASE_SIZE \in 2 .. 2 * MaxSize
    BY TableAssumption
  <2>2. next_prime(HT_BASE_SIZE) \in HT_BASE_SIZE .. 2 * HT_BASE_SIZE
    BY <2>1, NextPrimeBounds
  <2> QED  BY <2>2, TableAssumption DEF FreshTable
<1>2. /\ items' \in [Slots(size') -> Slot] /\ LiveSlots(items', size') = {}
      /\ Reachable(items', size')
  BY <1>1, EmptyTableIsReachable DEF FreshTable
<1>3. /\ newSize' = 0 /\ newUsed' = 0 /\ scan' = 0 /\ pc' = "idle" /\ used' = 0
      /\ newItems' \in [Slots(0) -> Slot] /\ Reachable(newItems', 0)
      /\ LiveSlots(newItems', 0) = {}
  <2>1. newSize = 0 /\ LiveSlots(newItems, 0) = {}
    BY DEF IInv, Shape, LiveSlots, Slots
  <2> QED  BY <2>1 DEF FreshTable, newTable, IInv, Shape, LookupFindsStored
<1>4. Shape'
  <2>1. ret' \in Ret
    BY DEF FreshTable, Call, Ret
  <2> QED  BY <1>1, <1>2, <1>3, <2>1 DEF Shape, Ret
<1>5. Counted'
  <2>1. Waiting' = {}
    BY <1>2 DEF Waiting
  <2> QED  BY <1>2, <1>3, <2>1, FS_EmptySet DEF Counted
<1>6. LookupFindsStored' /\ OneOwner' /\ MovedFromBelow'
  BY <1>2, <1>3 DEF LookupFindsStored, OneOwner, MovedFromBelow
<1>7. LoadLimit'
  <2>1. size' \in Nat /\ size' >= 2 /\ used' = 0
    BY <1>1, <1>3, ConstantFacts
  <2>2. used' * 100 < 71 * size'
    <3>1. \A n \in Nat : n >= 2 => 0 * 100 < 71 * n
      OBVIOUS
    <3> QED  BY <2>1, <3>1
  <2>3. pc' = "idle" /\ pc' # "rehash"
    BY <1>3
  <2> QED  BY <2>2, <2>3 DEF LoadLimit
<1> QED  BY <1>2, <1>3, <1>4, <1>5, <1>6, <1>7 DEF IInv, Live

(* The key goes, and with it its table. *)
LEMMA DeleteKeyKeepsUsed ==
    ASSUME UsedInv, pc = "idle", DeleteKey
    PROVE  UsedInv'
<1>1. IInv' /\ used' = 0 /\ Live' = {} /\ pc' = "idle" /\ lost' = 0
  BY FreshTableIsGood DEF UsedInv, DeleteKey
<1> QED  BY <1>1, FS_EmptySet DEF UsedInv

(* A resize step moves a field from the waiting ones to the new table, or    *)
(* counts it as lost.                                                        *)
LEMMA ResizeKeepsUsed ==
    ASSUME UsedInv, ResizeStep
    PROVE  UsedInv'
<1>1. CASE Rehash /\ lost' = lost + Bit(~ Free(items[scan]) /\ newItems' = newItems)
  <2>1. /\ pc = "rehash" /\ pc' = "rehash" /\ scan' = scan + 1
        /\ size' = size /\ used' = used /\ newSize' = newSize
        /\ StepSkips \/ StepMoves \/ StepLoses
    BY <1>1, RehashEffect DEF UsedInv
  <2>2. IInv'
    BY <1>1, RehashKeepsIInv DEF UsedInv
  <2>3. used = newUsed + Cardinality(Waiting) + lost
    BY <2>1 DEF UsedInv
  <2>4. newUsed \in Nat /\ newItems \in [Slots(newSize) -> Slot] /\ scan \in Slots(size)
        /\ scan \in Nat
    BY <1>1, IdleFacts DEF UsedInv, IInv, Shape, Rehash, Slots
  <2>5. CASE StepSkips
    <3>1. Free(items[scan])
      BY <2>4, <2>5 DEF StepSkips, LiveSlots
    <3>2. lost' = lost
      BY <1>1, <3>1, LiveFacts DEF Bit
    <3>3. Waiting' = Waiting
      BY <2>1, <2>4, <2>5, LiveFacts DEF StepSkips, Waiting, LiveSlots, Slots
    <3> QED  BY <2>1, <2>2, <2>3, <2>5, <3>2, <3>3, LiveFacts DEF StepSkips, UsedInv
  <2>6. ASSUME scan \in LiveSlots(items, size)
        PROVE  Cardinality(Waiting') + 1 = Cardinality(Waiting) /\ ~ Free(items[scan])
    <3>1. ~ Free(items[scan])
      BY <2>6 DEF LiveSlots
    <3>2. LiveSlots(items', size) = LiveSlots(items, size)
      BY <1>1, <3>1, MovedItemStaysReachable DEF UsedInv, GoodTable
    <3> QED  BY <1>1, <2>6, <3>1, <3>2, WaitingShrinks DEF UsedInv
  <2>7. IsFiniteSet(Waiting') /\ Cardinality(Waiting') \in Nat
    <3>1. Waiting' \subseteq LiveSlots(items', size')
      BY DEF Waiting
    <3> QED  BY <2>1, <3>1, LiveFacts, LiveSlotsFinite, FS_Subset, FS_CardinalityType
  <2>8. CASE StepMoves
    <3>1. PICK h \in Slots(newSize) \ LiveSlots(newItems, newSize) :
              /\ newItems' = [newItems EXCEPT ![h] = items[scan]]
              /\ LiveSlots(newItems', newSize) = LiveSlots(newItems, newSize) \cup {h}
      BY <2>8 DEF StepMoves
    <3>2. newItems' # newItems
      BY <3>1
    <3>3. lost' = lost
      BY <1>1, <3>2, LiveFacts DEF Bit
    <3>4. newUsed' = newUsed + 1 /\ Cardinality(Waiting') + 1 = Cardinality(Waiting)
      BY <2>6, <2>8 DEF StepMoves
    <3> QED  BY <2>1, <2>2, <2>3, <2>4, <2>7, <3>3, <3>4, LiveFacts DEF UsedInv
  <2>9. CASE StepLoses
    <3>1. lost' = lost + 1
      BY <1>1, <2>6, <2>9, LiveFacts DEF StepLoses, Bit
    <3>2. newUsed' = newUsed /\ Cardinality(Waiting') + 1 = Cardinality(Waiting)
      BY <2>6, <2>9 DEF StepLoses
    <3> QED  BY <2>1, <2>2, <2>3, <2>4, <2>7, <3>1, <3>2, LiveFacts DEF UsedInv
  <2> QED  BY <2>1, <2>5, <2>8, <2>9
<1>2. CASE FinishResize /\ UNCHANGED lost
  <2>1. IInv'
    BY <1>2, FinishKeepsIInv DEF UsedInv
  <2>2. /\ pc = "rehash" /\ scan = size /\ pc' = "idle" /\ used' = used
        /\ size' = newSize /\ items' = newItems
    BY <1>2 DEF FinishResize
  <2>3. Cardinality(Live') = newUsed
    BY <2>2 DEF UsedInv, IInv, Counted, Live
  <2>4. Waiting = {}
    BY <2>2, LiveFacts DEF Waiting, LiveSlots, Slots
  <2>5. newUsed \in Nat
    BY DEF UsedInv, IInv, Shape
  <2>6. used = newUsed + lost
    BY <2>2, <2>4, <2>5, LiveFacts, FS_EmptySet DEF UsedInv
  <2> QED  BY <1>2, <2>1, <2>2, <2>3, <2>6, LiveFacts DEF UsedInv
<1> QED  BY <1>1, <1>2 DEF ResizeStep

(***************************************************************************)
(* The commands.  used has changed by what the loop has added up, except   *)
(* for the inserts that were refused; a missing key has the table of       *)
(* htable_init.                                                            *)
(***************************************************************************)
Commands == [op : {"none", "hset", "hdel"}, fields : Seq(Keys)]

KeyShape ==
    /\ present \in BOOLEAN /\ cmd \in Commands
    /\ oks \in Nat /\ refused \in Nat
    /\ before \in [count : Nat, lost : Nat]
    /\ ~ present => used = 0 /\ lost = 0 /\ pc = "idle"

Balance ==
    /\ cmd.op = "none" => oks = 0 /\ refused = 0
    /\ cmd.op = "hset" => used + refused = before.count + before.lost + oks
    /\ cmd.op = "hdel" => used + refused + oks = before.count + before.lost

KInv == UsedInv /\ KeyShape /\ Balance

(* What FreshTable, HashTable's calls and its resize steps do not touch. *)
LEMMA CommandAdvances ==
    ASSUME KeyShape, NEW op \in {"hset", "hdel"}, NEW f, NextField(op, f),
           NEW res \in BOOLEAN, Advance(res)
    PROVE  /\ cmd' \in Commands /\ cmd'.op = op /\ cmd.op = op
           /\ oks' = oks + Bit(res) /\ oks' \in Nat /\ before' = before
           /\ pc = "idle"
<1>1. cmd \in Commands /\ cmd.op = op /\ cmd.fields # <<>> /\ pc = "idle"
  BY DEF KeyShape, NextField, Ready
<1>2. Tail(cmd.fields) \in Seq(Keys)
  BY <1>1 DEF Commands
<1>3. cmd' = [op |-> op, fields |-> Tail(cmd.fields)]
  BY <1>1 DEF Advance, Commands
<1>4. cmd' \in Commands /\ cmd'.op = op
  BY <1>2, <1>3 DEF Commands
<1>5. Bit(res) \in Nat
  BY DEF Bit
<1>6. oks' = oks + Bit(res) /\ oks' \in Nat /\ before' = before
  BY <1>5 DEF Advance, KeyShape
<1> QED  BY <1>1, <1>4, <1>6

(* The server starts without the key. *)
LEMMA InitKeyIsGood == InitKey => KInv
<1> SUFFICES ASSUME InitKey PROVE KInv
  OBVIOUS
<1>1. IInv
  BY InitEstablishesIInv DEF InitKey
<1>2. pc = "idle" /\ used = 0 /\ lost = 0
  BY DEF InitKey, Init
<1>3. Live = {}
  <2>1. size \in Nat /\ items = EmptyTable(size)
    BY <1>1, IdleFacts DEF InitKey, Init
  <2> QED  BY <2>1, EmptyTableIsReachable DEF Live
<1>4. UsedInv
  BY <1>1, <1>2, <1>3, FS_EmptySet DEF UsedInv
<1>5. cmd \in Commands /\ cmd.op = "none"
  BY DEF InitKey, NoCommand, Commands
<1> QED  BY <1>2, <1>4, <1>5 DEF InitKey, KInv, KeyShape, Balance

(* exec_hset and exec_hdel start to count. *)
LEMMA BeginIsGood ==
    ASSUME KInv, NEW op \in {"hset", "hdel"}, NEW fields \in FieldSequences, Begin(op, fields)
    PROVE  KInv'
<1>1. UNCHANGED <<size, used, items, newSize, newUsed, newItems, scan, pc, ret>>
      /\ UNCHANGED <<present, deleted, oks, refused, lost>>
  BY DEF Begin, vars, table, newTable
<1>2. UsedInv'
  BY <1>1 DEF KInv, UsedInv, IInv, Shape, LookupFindsStored, Counted, Waiting,
              LoadLimit, MovedFromBelow, OneOwner, Live
<1>3. fields \in Seq(Keys)
  <2>1. PICK n \in 1 .. MaxItems : fields \in [1 .. n -> Keys]
    BY DEF FieldSequences
  <2> QED  BY <2>1, HashKeyAssumption
<1>4. cmd' \in Commands /\ cmd'.op = op /\ cmd.op = "none" /\ pc = "idle"
  BY <1>3 DEF Begin, Commands, NoCommand, Ready
<1>5. before' = [count |-> Count, lost |-> lost]
  BY DEF Begin
<1>6. Count \in Nat /\ lost \in Nat /\ used = Count + lost
  BY <1>4, LiveFacts DEF KInv, UsedInv, KeyShape, Count, Live
<1>7. KeyShape'
  BY <1>1, <1>4, <1>5, <1>6 DEF KInv, KeyShape
<1>8. oks = 0 /\ refused = 0
  BY <1>4 DEF KInv, Balance
<1>9. Balance'
  BY <1>1, <1>4, <1>5, <1>6, <1>8 DEF Balance
<1> QED  BY <1>2, <1>7, <1>9 DEF KInv

(* htable_update_hash: an answer of 1 is a field more, or a refused one. *)
LEMMA UpdateHashIsGood ==
    ASSUME KInv, NEW f \in Keys, NextField("hset", f), UpdateHash(f)
    PROVE  KInv'
<1>1. PICK v \in Values : htable_set(f, v)
  BY DEF UpdateHash
<1>2. /\ present /\ present' = present /\ lost' = lost
      /\ refused' = refused + Bit(ret'.res /\ ~ (\E s \in Slots(size) : Holds(items'[s], f)))
      /\ Advance(ret'.res)
  BY DEF UpdateHash
<1>3. UsedInv'
  BY <1>1, <1>2, SetKeepsUsed DEF KInv
<1>4. size \in Nat /\ items \in [Slots(size) -> Slot] /\ used \in Nat
  BY IdleFacts DEF KInv, UsedInv
<1>5. \/ ret'.res = FALSE /\ used' = used /\ refused' = refused
      \/ ret'.res = TRUE /\ used' = used + 1 /\ refused' = refused
      \/ ret'.res = TRUE /\ used' = used /\ refused' = refused + 1
  <2>1. SetReplaces(f, v) \/ SetFills(f, v) \/ SetRefuses(f)
    BY <1>1, SetEffect DEF KInv, UsedInv
  <2>2. CASE SetReplaces(f, v)
    <3>1. ret'.res = FALSE /\ used' = used
      BY <2>2 DEF SetReplaces, Call
    <3> QED  BY <1>2, <3>1 DEF Bit, KInv, KeyShape
  <2>3. CASE SetFills(f, v)
    <3>1. PICK h \in Slots(size) \ LiveSlots(items, size) :
              items' = [items EXCEPT ![h] = [key |-> f, value |-> v]]
      BY <2>3 DEF SetFills
    <3>2. Holds(items'[h], f)
      <4>1. [key |-> f, value |-> v] \in Item
        BY DEF Item
      <4>2. ~ Free([key |-> f, value |-> v])
        BY <4>1, ItemAssumption DEF Free
      <4> QED  BY <1>4, <3>1, <4>2 DEF Holds
    <3>3. ret'.res = TRUE /\ used' = used + 1
      BY <2>3 DEF SetFills, Call
    <3> QED  BY <1>2, <3>2, <3>3 DEF Bit, KInv, KeyShape
  <2>4. CASE SetRefuses(f)
    <3>1. ~ (\E s \in Slots(size) : Holds(items'[s], f))
      BY <2>4 DEF SetRefuses, NoLive, LiveSlots, Holds
    <3>2. ret'.res = TRUE /\ used' = used
      BY <2>4 DEF SetRefuses, Call
    <3> QED  BY <1>2, <3>1, <3>2 DEF Bit
  <2> QED  BY <2>1, <2>2, <2>3, <2>4
<1>6. KeyShape /\ Balance
  BY DEF KInv
<1>7. /\ cmd' \in Commands /\ cmd'.op = "hset" /\ cmd.op = "hset"
      /\ oks' = oks + Bit(ret'.res) /\ oks' \in Nat /\ before' = before
  BY <1>2, <1>5, <1>6, CommandAdvances
<1>8. KeyShape'
  BY <1>2, <1>5, <1>6, <1>7 DEF KeyShape
<1>9. Balance'
  <2>1. used + refused = before.count + before.lost + oks
    BY <1>6, <1>7 DEF Balance
  <2>2. used' + refused' = before.count + before.lost + oks'
    BY <1>4, <1>5, <1>6, <1>7, <2>1 DEF Bit, KeyShape
  <2> QED  BY <1>7, <2>2 DEF Balance
<1> QED  BY <1>3, <1>8, <1>9 DEF KInv

(* htable_init and htable_set: the first field of an empty table is stored,  *)
(* so only the insert of the key itself can be refused.                      *)
LEMMA CreateHashIsGood ==
    ASSUME KInv, NEW f \in Keys, NextField("hset", f), CreateHash(f)
    PROVE  KInv'
<1>1. ~ present /\ lost' = lost /\ Advance(TRUE)
  BY DEF CreateHash
<1>2. KeyShape /\ Balance /\ UsedInv /\ IInv
  BY DEF KInv, UsedInv
<1>3. used = 0 /\ lost = 0 /\ pc = "idle"
  BY <1>1, <1>2 DEF KeyShape
<1>4. /\ cmd' \in Commands /\ cmd'.op = "hset" /\ cmd.op = "hset"
      /\ oks' = oks + 1 /\ oks' \in Nat /\ before' = before
  BY <1>1, <1>2, CommandAdvances DEF Bit
<1>5. used + refused = before.count + before.lost + oks
  BY <1>2, <1>4 DEF Balance
<1>6. CASE /\ \E v \in Values : htable_set(f, v)
           /\ present' = TRUE /\ UNCHANGED refused
  <2>1. PICK v \in Values : htable_set(f, v)
    BY <1>6
  <2>2. UsedInv'
    BY <1>1, <1>2, <2>1, SetKeepsUsed
  <2>3. LiveSlots(items, size) = {}
    <3>1. used = Cardinality(Live) + lost
      BY <1>2, <1>3 DEF UsedInv
    <3>2. Cardinality(Live) = 0 /\ IsFiniteSet(Live)
      BY <1>2, <1>3, <3>1, LiveFacts
    <3> QED  BY <3>2, FS_EmptySet DEF Live
  <2>4. ~ SetRefuses(f)
    <3>1. size \in Sizes /\ 0 \in Slots(size)
      BY <1>2, IdleFacts, ConstantFacts DEF Sizes, Slots
    <3>2. hash_func(f, size, 0) \in Slots(size)
      BY <3>1, ProbeStaysInTable
    <3> QED  BY <2>3, <3>1, <3>2 DEF SetRefuses, Blocked, LiveSlots
  <2>5. SetFills(f, v)
    BY <1>2, <2>1, <2>3, <2>4, SetEffect DEF SetReplaces
  <2>6. used' = used + 1
    BY <2>5 DEF SetFills
  <2>7. KeyShape'
    BY <1>2, <1>4, <1>6 DEF KeyShape
  <2>8. Balance'
    <3>1. used' + refused' = before.count + before.lost + oks'
      BY <1>2, <1>3, <1>4, <1>5, <1>6, <2>6 DEF KeyShape
    <3> QED  BY <1>4, <3>1 DEF Balance
  <2> QED  BY <2>2, <2>7, <2>8 DEF KInv
<1>7. CASE present' = FALSE /\ refused' = refused + 1 /\ UNCHANGED vars
  <2>1. UNCHANGED <<size, used, items, newSize, newUsed, newItems, scan, pc, ret>>
    BY <1>7 DEF vars, table, newTable
  <2>2. UsedInv'
    BY <1>1, <1>2, <2>1 DEF UsedInv, IInv, Shape, LookupFindsStored, Counted, Waiting,
                            LoadLimit, MovedFromBelow, OneOwner, Live
  <2>3. KeyShape'
    <3>1. refused' \in Nat /\ present' \in BOOLEAN
      <4>1. refused \in Nat
        BY <1>2 DEF KeyShape
      <4>2. refused' \in Nat
        BY <1>7, <4>1
      <4>3. present' \in BOOLEAN
        BY <1>7
      <4> QED  BY <4>2, <4>3
    <3>2. oks' \in Nat /\ cmd' \in Commands /\ before' = before /\ lost' = lost
      BY <1>1, <1>4
    <3>3. used' = 0 /\ lost' = 0 /\ pc' = "idle"
      BY <1>3, <2>1, <3>2
    <3> QED  BY <1>2, <3>1, <3>2, <3>3 DEF KeyShape
  <2>4. Balance'
    <3>1. used' + refused' = before.count + before.lost + oks'
      BY <1>2, <1>3, <1>4, <1>5, <1>7, <2>1 DEF KeyShape
    <3> QED  BY <1>4, <3>1 DEF Balance
  <2> QED  BY <2>2, <2>3, <2>4 DEF KInv
<1> QED  BY <1>6, <1>7 DEF CreateHash

(* htable_hdel up to its look at used. *)
LEMMA HdelIsGood ==
    ASSUME KInv, NEW f \in Keys, htable_hdel(f)
    PROVE  KInv'
<1>1. NextField("hdel", f) /\ present' = present /\ refused' = refused /\ lost' = lost
  BY DEF htable_hdel
<1>2. KeyShape /\ Balance /\ UsedInv /\ IInv /\ used \in Nat
  BY IdleFacts DEF KInv, UsedInv
<1>3. CASE present /\ htable_del(f) /\ Advance(ret'.res)
  <2>1. UsedInv'
    BY <1>1, <1>2, <1>3, DelKeepsUsed
  <2>2. \/ ret'.res = TRUE /\ used' + 1 = used
        \/ ret'.res = FALSE /\ used' = used
    <3>1. DelEmpties(f) \/ DelMisses(f)
      BY <1>2, <1>3, DelEffect
    <3> QED  BY <1>2, <3>1 DEF DelEmpties, DelMisses, Call
  <2>3. /\ cmd' \in Commands /\ cmd'.op = "hdel" /\ cmd.op = "hdel"
        /\ oks' = oks + Bit(ret'.res) /\ oks' \in Nat /\ before' = before
    BY <1>1, <1>2, <1>3, <2>2, CommandAdvances
  <2>4. KeyShape'
    BY <1>1, <1>2, <1>3, <2>3 DEF KeyShape
  <2>5. used' \in Nat
    BY <2>1, IdleFacts DEF UsedInv, IInv, Shape
  <2>6. Balance'
    <3>1. used + refused + oks = before.count + before.lost
      BY <1>2, <2>3 DEF Balance
    <3>2. oks \in Nat /\ refused \in Nat /\ refused' = refused /\ before' = before
      BY <1>1, <1>2, <2>3 DEF KeyShape
    <3>3. used' + refused + oks' = used + refused + oks
      <4>1. CASE ret'.res = TRUE /\ used' + 1 = used
        <5>1. oks' = oks + 1
          BY <2>3, <4>1 DEF Bit
        <5>2. \A u, r, o \in Nat : u + r + (o + 1) = (u + 1) + r + o
          OBVIOUS
        <5>3. used' + refused + oks' = (used' + 1) + refused + oks
          BY <2>5, <3>2, <5>1, <5>2
        <5> QED  BY <4>1, <5>3
      <4>2. CASE ret'.res = FALSE /\ used' = used
        <5>1. oks' = oks + 0
          BY <2>3, <4>2 DEF Bit
        <5> QED  BY <1>2, <2>5, <3>2, <4>2, <5>1
      <4> QED  BY <2>2, <4>1, <4>2
    <3>4. used' + refused' + oks' = before'.count + before'.lost
      BY <3>1, <3>2, <3>3
    <3> QED  BY <2>3, <3>4 DEF Balance
  <2> QED  BY <2>1, <2>4, <2>6 DEF KInv
<1>4. CASE ~ present /\ Advance(FALSE) /\ UNCHANGED vars
  <2>1. UNCHANGED <<size, used, items, newSize, newUsed, newItems, scan, pc, ret>>
    BY <1>4 DEF vars, table, newTable
  <2>2. UsedInv'
    BY <1>1, <1>2, <2>1 DEF UsedInv, IInv, Shape, LookupFindsStored, Counted, Waiting,
                            LoadLimit, MovedFromBelow, OneOwner, Live
  <2>3. /\ cmd' \in Commands /\ cmd'.op = "hdel" /\ cmd.op = "hdel"
        /\ oks' = oks + 0 /\ oks' \in Nat /\ before' = before
    BY <1>1, <1>2, <1>4, CommandAdvances DEF Bit
  <2>4. KeyShape'
    BY <1>1, <1>2, <1>4, <2>1, <2>3 DEF KeyShape
  <2>5. oks' = oks
    BY <1>2, <2>3 DEF KeyShape
  <2>6. Balance'
    BY <1>1, <1>2, <2>1, <2>3, <2>5 DEF Balance
  <2> QED  BY <2>2, <2>4, <2>6 DEF KInv
<1> QED  BY <1>3, <1>4 DEF htable_hdel

(* The key goes when used is 0, which changes no count. *)
LEMMA DeleteKeyIsGood ==
    ASSUME KInv, pc = "idle", DeleteKey, UNCHANGED <<cmd, oks, before, refused>>,
           used = 0 \/ cmd = NoCommand
    PROVE  KInv'
<1>1. KeyShape /\ Balance /\ UsedInv /\ IInv /\ used \in Nat
  BY IdleFacts DEF KInv, UsedInv
<1>2. UsedInv'
  BY <1>1, DeleteKeyKeepsUsed
<1>3. used' = 0 /\ pc' = "idle" /\ present' = FALSE /\ lost' = 0
  BY DEF DeleteKey, FreshTable
<1>4. KeyShape'
  BY <1>1, <1>3 DEF KeyShape
<1>5. Balance'
  <2>1. CASE used = 0
    BY <1>1, <1>3, <2>1 DEF Balance
  <2>2. CASE cmd = NoCommand
    <3>1. cmd.op = "none" /\ cmd'.op = "none"
      BY <2>2 DEF NoCommand
    <3> QED  BY <1>1, <3>1 DEF Balance
  <2> QED  BY <2>1, <2>2
<1> QED  BY <1>2, <1>4, <1>5 DEF KInv

(* A step that leaves the slots, the counters and the command alone. *)
LEMMA QuietStepIsGood ==
    ASSUME KInv, UNCHANGED vars, UNCHANGED <<present, cmd, oks, before, refused, lost>>
    PROVE  KInv'
<1>1. UNCHANGED <<size, used, items, newSize, newUsed, newItems, scan, pc, ret>>
  BY DEF vars, table, newTable
<1>2. UsedInv'
  BY <1>1 DEF KInv, UsedInv, IInv, Shape, LookupFindsStored, Counted, Waiting,
              LoadLimit, MovedFromBelow, OneOwner, Live
<1>3. KeyShape' /\ Balance'
  BY <1>1 DEF KInv, KeyShape, Balance
<1> QED  BY <1>2, <1>3 DEF KInv

(* The command answers. *)
LEMMA FinishIsGood ==
    ASSUME KInv, Finish
    PROVE  KInv'
<1>1. /\ UNCHANGED <<size, used, items, newSize, newUsed, newItems, scan, pc, ret>>
      /\ UNCHANGED <<present, lost>>
      /\ cmd' = NoCommand /\ oks' = 0 /\ refused' = 0
      /\ before' = [count |-> 0, lost |-> 0]
  BY DEF Finish, vars, table, newTable
<1>2. UsedInv'
  BY <1>1 DEF KInv, UsedInv, IInv, Shape, LookupFindsStored, Counted, Waiting,
              LoadLimit, MovedFromBelow, OneOwner, Live
<1>3. cmd' \in Commands /\ cmd'.op = "none"
  BY <1>1 DEF Commands, NoCommand
<1>4. KeyShape' /\ Balance'
  BY <1>1, <1>3 DEF KInv, KeyShape, Balance
<1> QED  BY <1>2, <1>4 DEF KInv

(* A resize changes what is stored and lost, not what used says. *)
LEMMA ResizeStepIsGood ==
    ASSUME KInv, ResizeStep
    PROVE  KInv'
<1>1. UsedInv'
  BY ResizeKeepsUsed DEF KInv
<1>2. /\ used' = used /\ pc = "rehash"
      /\ UNCHANGED <<present, cmd, oks, before, refused>>
  BY DEF ResizeStep, Rehash, FinishResize
<1>3. KeyShape' /\ Balance'
  BY <1>2 DEF KInv, KeyShape, Balance
<1> QED  BY <1>1, <1>3 DEF KInv

(* Every step keeps the invariant. *)
THEOREM NextKeyKeepsKInv == KInv /\ [NextKey]_allVars => KInv'
<1> SUFFICES ASSUME KInv, [NextKey]_allVars PROVE KInv'
  OBVIOUS
<1>1. ASSUME NEW op \in {"hset", "hdel"}, NEW fields \in FieldSequences, Begin(op, fields)
      PROVE  KInv'
  BY <1>1, BeginIsGood
<1>2. ASSUME NEW f \in Keys, htable_hset(f) PROVE KInv'
  BY <1>2, UpdateHashIsGood, CreateHashIsGood DEF htable_hset
<1>3. ASSUME NEW f \in Keys, htable_hdel(f) PROVE KInv'
  BY <1>3, HdelIsGood
<1>4. CASE LookAtUsed
  <2>1. pc = "idle" /\ UNCHANGED <<cmd, oks, before, refused>>
    BY <1>4 DEF LookAtUsed
  <2>2. CASE used = 0 /\ DeleteKey
    BY <2>1, <2>2, DeleteKeyIsGood
  <2>3. CASE UNCHANGED <<vars, present, lost>>
    BY <2>1, <2>3, QuietStepIsGood
  <2> QED  BY <1>4, <2>2, <2>3 DEF LookAtUsed
<1>5. CASE Finish
  BY <1>5, FinishIsGood
<1>6. CASE ResizeStep
  BY <1>6, ResizeStepIsGood
<1>7. CASE KeyGoes
  BY <1>7, DeleteKeyIsGood DEF KeyGoes, Ready
<1>8. CASE UNCHANGED allVars
  BY <1>8, QuietStepIsGood DEF allVars, outer
<1> QED  BY <1>1, <1>2, <1>3, <1>4, <1>5, <1>6, <1>7, <1>8 DEF NextKey, CallStep

(***************************************************************************)
(* The theorems.                                                           *)
(***************************************************************************)

(* The invariant holds in every reachable state. *)
THEOREM KeyInvariance == SpecKey => []KInv
BY InitKeyIsGood, NextKeyKeepsKInv, PTL DEF SpecKey

(* used is the number of fields and of those that resizes have lost, in      *)
(* every state between calls: no call miscounts, whatever the fields hash    *)
(* to and however often the table is resized.                                *)
THEOREM UsedCountsFieldsAndLosses == SpecKey => []UsedIsExact
<1>1. KInv => UsedIsExact
  BY DEF KInv, UsedInv, UsedIsExact, Live
<1> QED  BY <1>1, KeyInvariance, PTL

(* The integers that HSET and HDEL answer account for the fields that came   *)
(* and went, up to the refused and the lost.                                 *)
THEOREM RepliesAreTrue == SpecKey => RepliesAccount
<1>1. KInv /\ [NextKey]_allVars =>
          [Finish =>
             LET missed == refused + (lost - before.lost)
             IN  Count = IF cmd.op = "hset" THEN before.count + oks - missed
                         ELSE before.count - oks - missed]_allVars
  <2> SUFFICES ASSUME KInv, Finish
               PROVE  Count = IF cmd.op = "hset"
                              THEN before.count + oks - (refused + (lost - before.lost))
                              ELSE before.count - oks - (refused + (lost - before.lost))
    OBVIOUS
  <2>1. cmd.op = "hset" \/ cmd.op = "hdel"
    BY DEF KInv, KeyShape, Commands, Finish, NoCommand
  <2>2. Count \in Nat /\ lost \in Nat /\ used = Count + lost
    BY LiveFacts DEF KInv, UsedInv, KeyShape, Count, Live, Finish, Ready
  <2>3. /\ oks \in Nat /\ refused \in Nat /\ before.count \in Nat /\ before.lost \in Nat
    BY DEF KInv, KeyShape
  <2>4. CASE cmd.op = "hset"
    <3>1. used + refused = before.count + before.lost + oks
      BY <2>4 DEF KInv, Balance
    <3> QED  BY <2>2, <2>3, <2>4, <3>1
  <2>5. CASE cmd.op = "hdel"
    <3>1. used + refused + oks = before.count + before.lost
      BY <2>5 DEF KInv, Balance
    <3>2. \A c, l, o, r, bc, bl \in Nat :
              c + l + r + o = bc + bl => c = bc - o - (r + (l - bl))
      OBVIOUS
    <3>3. Count = before.count - oks - (refused + (lost - before.lost))
      BY <2>2, <2>3, <3>1, <3>2
    <3> QED  BY <2>5, <3>3
  <2> QED  BY <2>1, <2>4, <2>5
<1> QED  BY <1>1, KeyInvariance, PTL DEF SpecKey, RepliesAccount

(* HGETALL answers all the fields or, once a resize has lost one, none.      *)
THEOREM HgetallIsAllOrNothing == SpecKey => []HgetallAllOrNothing
<1>1. KInv => HgetallAllOrNothing
  <2> SUFFICES ASSUME KInv, Ready, present
               PROVE  /\ htable_hgetall = IF lost = 0 THEN Fields ELSE {}
                      /\ Cardinality(LiveSlots(items, size)) <= used
    BY DEF HgetallAllOrNothing
  <2> DEFINE ends == {s \in Slots(size) : Cardinality(Collected(s)) = used}
  <2>1. /\ used = Cardinality(Live) + lost /\ UsedInv /\ IInv
        /\ IsFiniteSet(Live) /\ Cardinality(Live) \in Nat /\ lost \in Nat
        /\ size \in Sizes /\ size \in Nat /\ size >= 1
    BY IdleFacts, LiveFacts DEF KInv, UsedInv, Ready, Sizes
  <2>2. \A s \in Slots(size) : Collected(s) \subseteq Live
    BY <2>1 DEF Collected, Live, LiveSlots, Slots
  <2>3. \A s \in Slots(size) :
            /\ Cardinality(Collected(s)) \in Nat
            /\ Cardinality(Collected(s)) <= Cardinality(Live)
            /\ Cardinality(Collected(s)) = Cardinality(Live) => Collected(s) = Live
    BY <2>1, <2>2, FS_Subset, FS_CardinalityType
  <2>4. Cardinality(LiveSlots(items, size)) <= used
    BY <2>1 DEF Live
  <2>5. CASE lost # 0
    <3>1. ends = {}
      BY <2>1, <2>3, <2>5
    <3> QED  BY <2>4, <2>5, <3>1 DEF htable_hgetall
  <2>6. CASE lost = 0
    <3>1. used = Cardinality(Live)
      BY <2>1, <2>6
    <3>2. size - 1 \in ends
      <4>1. size - 1 \in Slots(size) /\ Collected(size - 1) = Live
        BY <2>1 DEF Collected, Live, LiveSlots, Slots
      <4> QED  BY <3>1, <4>1
    <3> DEFINE least == CHOOSE s \in ends : \A r \in ends : s <= r
    <3>3. least \in ends
      <4>1. ends \subseteq Nat
        BY <2>1 DEF Slots
      <4> HIDE DEF ends
      <4>2. \E s \in ends : \A r \in ends : s <= r
        BY <3>2, <4>1, LeastNatural
      <4> QED  BY <4>2, Zenon
    <3>4. Collected(least) = Live
      <4> HIDE DEF least
      <4> QED  BY <2>3, <3>1, <3>3
    <3>5. htable_hgetall = {items[t].key : t \in Collected(least)}
      BY <3>2 DEF htable_hgetall
    <3>6. htable_hgetall = {items[t].key : t \in Live}
      <4> HIDE DEF least
      <4> QED  BY <3>4, <3>5
    <3>7. {items[t].key : t \in Live} = Fields
      <4>1. items \in [Slots(size) -> Slot] /\ Reachable(items, size)
        BY <2>1, IdleFacts
      <4>2. ASSUME NEW t \in Live PROVE items[t].key \in Fields
        <5>1. items[t].key \in Keys
          BY <2>1, <4>1, LiveSlotIsItem DEF Live
        <5> QED  BY <4>1, <5>1 DEF Fields, Live, Reachable, htable_exists
      <4>3. ASSUME NEW f \in Fields PROVE \E t \in Live : items[t].key = f
        <5>1. f \in Keys
          BY DEF Fields
        <5>2. PICK i \in Slots(size) : Hit(items, size, f, i)
          BY DEF Fields, htable_exists
        <5> QED  BY <2>1, <4>1, <5>1, <5>2, HitIsLive DEF Live
      <4> QED  BY <4>2, <4>3
    <3> QED  BY <2>4, <2>6, <3>6, <3>7
  <2> QED  BY <2>5, <2>6
<1> QED  BY <1>1, KeyInvariance, PTL
=============================================================================
