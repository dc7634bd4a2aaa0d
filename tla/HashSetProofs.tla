---------------------------- MODULE HashSetProofs ----------------------------
(***************************************************************************)
(* The invariants of HashSet, proved for every set of strings, every pair  *)
(* of hash functions and every table size.                                 *)
(***************************************************************************)
EXTENDS HashSet, OpenAddressingProofs

Slot == Keys \cup {NULL, DELETED}
Ret == [op : {"none", "add", "rem"}, key : Keys \cup {NULL}, res : BOOLEAN]

(***************************************************************************)
(* MembersAreFound is not inductive: a removal takes the first copy of a   *)
(* member, and a second one has to be found then.  What every call keeps   *)
(* is that no NULL slot cuts the path to any copy.                         *)
(***************************************************************************)
PathKept(tab, n) ==
    \A s \in LiveSlots(tab, n) : \E i \in Slots(n) :
        /\ hash_func(tab[s], n, i) = s
        /\ \A j \in 0 .. (i - 1) : tab[hash_func(tab[s], n, j)] # NULL

GoodSet(tab, n) == tab \in [Slots(n) -> Slot] /\ PathKept(tab, n)

(* A live slot holds a member. *)
LEMMA LiveSlotIsMember ==
    ASSUME NEW n \in Nat, NEW tab \in [Slots(n) -> Slot], NEW s \in LiveSlots(tab, n)
    PROVE  s \in Slots(n) /\ tab[s] \in Keys
BY DEF LiveSlots, Free, Slot

(* A kept path leads to the first copy. *)
LEMMA CopyIsFound ==
    ASSUME NEW n \in Nat, NEW tab, GoodSet(tab, n), NEW k \in Keys, NEW s \in Slots(n),
           tab[s] = k
    PROVE  set_ismember(tab, n, k)
<1> DEFINE On(i) == /\ tab[hash_func(k, n, i)] = k
                    /\ \A j \in 0 .. (i - 1) : tab[hash_func(k, n, j)] # NULL
           S == {i \in Slots(n) : On(i)}
<1>1. s \in LiveSlots(tab, n)
  BY TableAssumption DEF LiveSlots, Free
<1>2. PICK i \in Slots(n) :
          /\ hash_func(tab[s], n, i) = s
          /\ \A j \in 0 .. (i - 1) : tab[hash_func(tab[s], n, j)] # NULL
  BY <1>1 DEF GoodSet, PathKept
<1>3. i \in S
  BY <1>2
<1>4. S \subseteq Nat
  BY DEF Slots
<1>5. PICK m \in S : \A r \in S : m <= r
  <2> HIDE DEF S
  <2> QED  BY <1>3, <1>4, LeastNatural
<1>6. m \in Slots(n) /\ m \in Nat /\ On(m)
  BY <1>4, <1>5
<1>7. ASSUME NEW j \in 0 .. (m - 1)
      PROVE  tab[hash_func(k, n, j)] \notin {NULL, k}
  <2>1. tab[hash_func(k, n, j)] # NULL
    BY <1>6
  <2>2. j \in Slots(n) /\ j \in Nat /\ ~ (m <= j)
    BY <1>6 DEF Slots
  <2>3. j \notin S
    BY <1>5, <2>2
  <2>4. \A l \in 0 .. (j - 1) : l \in 0 .. (m - 1)
    BY <1>6, <2>2
  <2>5. \A l \in 0 .. (j - 1) : tab[hash_func(k, n, l)] # NULL
    BY <1>6, <2>4
  <2>6. tab[hash_func(k, n, j)] # k
    BY <2>2, <2>3, <2>5
  <2> QED  BY <2>1, <2>6
<1>8. Hit(tab, n, k, m)
  BY <1>6, <1>7 DEF Hit
<1> QED  BY <1>6, <1>8 DEF set_ismember

(* A new table holds nothing. *)
LEMMA EmptySetIsGood ==
    ASSUME NEW n \in Nat
    PROVE  /\ GoodSet(EmptyTable(n), n)
           /\ LiveSlots(EmptyTable(n), n) = {}
BY DEF EmptyTable, LiveSlots, PathKept, GoodSet, Slot, Free

(* The set new is tab with k in the first free slot of its probe sequence.   *)
Added(tab, new, n, k, i) ==
    /\ n \in Sizes /\ GoodSet(tab, n) /\ k \in Keys
    /\ i \in Slots(n) /\ FirstFree(tab, n, k, i)
    /\ new = [tab EXCEPT ![hash_func(k, n, i)] = k]

(* Adding a member cuts no path. *)
LEMMA AddKeepsPaths ==
    ASSUME NEW n, NEW tab, NEW k, NEW i, NEW new, Added(tab, new, n, k, i)
    PROVE  /\ GoodSet(new, n)
           /\ LiveSlots(new, n) = LiveSlots(tab, n) \cup {hash_func(k, n, i)}
           /\ hash_func(k, n, i) \notin LiveSlots(tab, n)
<1> USE DEF Added
<1> DEFINE h == hash_func(k, n, i)
<1>1. h \in Slots(n) /\ n \in Nat /\ tab \in [Slots(n) -> Slot] /\ i \in Nat
  BY ProbeStaysInTable, TableAssumption DEF Sizes, GoodSet, Slots
<1>2. ~ Free(k) /\ k \in Slot /\ k # NULL
  BY TableAssumption DEF Free, Slot
<1>3. /\ new \in [Slots(n) -> Slot] /\ new[h] = k
      /\ \A s \in Slots(n) : s # h => new[s] = tab[s]
  BY <1>1, <1>2
<1>4. LiveSlots(new, n) = LiveSlots(tab, n) \cup {h} /\ h \notin LiveSlots(tab, n)
  BY <1>1, <1>2, <1>3 DEF LiveSlots, FirstFree
<1>5. ASSUME NEW s \in LiveSlots(new, n)
      PROVE  \E m \in Slots(n) :
                 /\ hash_func(new[s], n, m) = s
                 /\ \A j \in 0 .. (m - 1) : new[hash_func(new[s], n, j)] # NULL
  <2>1. \A t \in Slots(n) : tab[t] # NULL => new[t] # NULL
    BY <1>2, <1>3
  <2>2. CASE s = h
    <3>1. ASSUME NEW j \in 0 .. (i - 1) PROVE new[hash_func(k, n, j)] # NULL
      <4>1. hash_func(k, n, j) \in Slots(n)
        BY <1>1, ProbeStaysInTable DEF Slots
      <4>2. tab[hash_func(k, n, j)] # NULL
        BY DEF FirstFree, Free
      <4> QED  BY <2>1, <4>1, <4>2
    <3> QED  BY <1>3, <2>2, <3>1
  <2>3. CASE s # h
    <3>1. s \in LiveSlots(tab, n) /\ new[s] = tab[s] /\ tab[s] \in Keys
      BY <1>1, <1>3, <1>4, <2>3, LiveSlotIsMember DEF LiveSlots
    <3> DEFINE q == tab[s]
    <3>2. PICK m \in Slots(n) :
              /\ hash_func(q, n, m) = s
              /\ \A j \in 0 .. (m - 1) : tab[hash_func(q, n, j)] # NULL
      BY <3>1 DEF GoodSet, PathKept
    <3>3. ASSUME NEW j \in 0 .. (m - 1) PROVE new[hash_func(q, n, j)] # NULL
      <4>1. hash_func(q, n, j) \in Slots(n)
        <5>1. j \in Slots(n)
          BY <1>1 DEF Slots
        <5> QED  BY <3>1, <5>1, ProbeStaysInTable
      <4> QED  BY <2>1, <3>2, <4>1
    <3> QED  BY <3>1, <3>2, <3>3
  <2> QED  BY <2>2, <2>3
<1> QED  BY <1>3, <1>4, <1>5 DEF GoodSet, PathKept

(* A tombstone cuts no path. *)
LEMMA RemoveKeepsPaths ==
    ASSUME NEW n \in Sizes, NEW tab, GoodSet(tab, n), NEW h \in LiveSlots(tab, n),
           NEW new, new = [tab EXCEPT ![h] = DELETED]
    PROVE  GoodSet(new, n) /\ LiveSlots(new, n) = LiveSlots(tab, n) \ {h}
<1>1. h \in Slots(n) /\ n \in Nat /\ tab \in [Slots(n) -> Slot]
  BY TableAssumption DEF Sizes, GoodSet, LiveSlots
<1>2. Free(DELETED) /\ DELETED \in Slot /\ DELETED # NULL
  BY TableAssumption DEF Free, Slot
<1>3. /\ new \in [Slots(n) -> Slot] /\ new[h] = DELETED
      /\ \A s \in Slots(n) : s # h => new[s] = tab[s]
  BY <1>1, <1>2
<1>4. LiveSlots(new, n) = LiveSlots(tab, n) \ {h}
  BY <1>1, <1>2, <1>3 DEF LiveSlots
<1>5. ASSUME NEW s \in LiveSlots(new, n)
      PROVE  \E m \in Slots(n) :
                 /\ hash_func(new[s], n, m) = s
                 /\ \A j \in 0 .. (m - 1) : new[hash_func(new[s], n, j)] # NULL
  <2>1. s \in LiveSlots(tab, n) /\ new[s] = tab[s] /\ tab[s] \in Keys
    BY <1>1, <1>3, <1>4, LiveSlotIsMember DEF LiveSlots
  <2> DEFINE q == tab[s]
  <2>2. PICK m \in Slots(n) :
            /\ hash_func(q, n, m) = s
            /\ \A j \in 0 .. (m - 1) : tab[hash_func(q, n, j)] # NULL
    BY <2>1 DEF GoodSet, PathKept
  <2>3. ASSUME NEW j \in 0 .. (m - 1) PROVE new[hash_func(q, n, j)] # NULL
    <3>1. hash_func(q, n, j) \in Slots(n)
      BY <1>1, <2>1, ProbeStaysInTable DEF Slots
    <3> QED  BY <1>2, <1>3, <2>2, <3>1
  <2> QED  BY <2>1, <2>2, <2>3
<1> QED  BY <1>3, <1>4, <1>5 DEF GoodSet, PathKept

(***************************************************************************)
(* The inductive invariant.                                                *)
(***************************************************************************)
Waiting == {s \in LiveSlots(members, size) : s >= scan}

Shape ==
    /\ size \in HT_BASE_SIZE .. MaxSize /\ used \in Nat
    /\ newSize \in Nat /\ newUsed \in Nat
    /\ scan \in 0 .. size
    /\ ret \in Ret
    /\ \/ pc = "idle" /\ newSize = 0 /\ newUsed = 0 /\ scan = 0
       \/ pc = "rehash" /\ newSize \in HT_BASE_SIZE .. MaxSize

(* What was copied and what is still to be copied fit in what used counts. *)
Counted ==
    /\ Cardinality(LiveSlots(members, size)) <= used
    /\ newUsed = Cardinality(LiveSlots(newMembers, newSize))
    /\ newUsed + Cardinality(Waiting) <= Cardinality(LiveSlots(members, size))

(* The load limit holds in the set that the next call will see. *)
LoadLimit ==
    /\ pc = "idle" => used * 100 < 71 * size
    /\ pc = "rehash" => used * 100 < 71 * newSize

IInv ==
    /\ Shape
    /\ GoodSet(members, size) /\ GoodSet(newMembers, newSize)
    /\ Counted
    /\ LoadLimit

(* set_init leaves a set that satisfies the inductive invariant.             *)
THEOREM InitEstablishesIInv == Init => IInv
<1> SUFFICES ASSUME Init PROVE IInv
  OBVIOUS
<1>1. size \in HT_BASE_SIZE .. MaxSize
  <2>1. HT_BASE_SIZE \in 2 .. 2 * MaxSize
    BY TableAssumption
  <2>2. next_prime(HT_BASE_SIZE) \in HT_BASE_SIZE .. 2 * HT_BASE_SIZE
    BY <2>1, NextPrimeBounds
  <2> QED  BY <2>2, TableAssumption DEF Init
<1>2. size \in Nat /\ size >= 2
  BY <1>1, ConstantFacts
<1>3. /\ GoodSet(members, size) /\ LiveSlots(members, size) = {}
      /\ GoodSet(newMembers, newSize) /\ LiveSlots(newMembers, newSize) = {}
  BY <1>2, EmptySetIsGood DEF Init
<1>4. Shape
  BY <1>1, <1>2 DEF Init, Shape, Call, Ret
<1>5. Counted
  <2>1. Waiting = {}
    BY <1>3 DEF Waiting
  <2> QED  BY <1>3, <2>1, FS_EmptySet DEF Init, Counted
<1>6. LoadLimit
  <2>1. \A n \in Nat : n >= 2 => 0 * 100 < 71 * n
    OBVIOUS
  <2> QED  BY <1>2, <2>1 DEF Init, LoadLimit
<1> QED  BY <1>3, <1>4, <1>5, <1>6 DEF IInv

(* A resize that starts has room in its new set for all that used counts.    *)
LEMMA ResizeStartsWithRoom ==
    ASSUME Shape, LoadLimit, pc = "idle", used' \in Nat,
           \/ NoResize /\ used' * 100 < 71 * size
           \/ set_resize_up(used') /\ used' = used + 1
           \/ set_resize_down(used') /\ used' = used - 1
    PROVE  \/ NoResize /\ used' * 100 < 71 * size
           \/ /\ pc' = "rehash" /\ newUsed' = 0 /\ scan' = 0
              /\ newSize' \in Nat /\ newSize' \in HT_BASE_SIZE .. MaxSize
              /\ newMembers' = EmptyTable(newSize')
              /\ used' * 100 < 71 * newSize'
<1> USE ConstantFacts
<1>1. size \in Nat \ {0} /\ used \in Nat /\ size >= 2 /\ used * 100 < 71 * size
  BY DEF Shape, LoadLimit
<1>2. ASSUME NEW n \in 2 .. 2 * MaxSize, StartResize(n), ~ (n < HT_BASE_SIZE)
      PROVE  /\ pc' = "rehash" /\ newUsed' = 0 /\ scan' = 0
             /\ newSize' \in Nat /\ newSize' >= n /\ newSize' \in HT_BASE_SIZE .. MaxSize
             /\ newMembers' = EmptyTable(newSize')
  <2>1. next_prime(n) \in n .. 2 * n
    BY NextPrimeBounds
  <2> QED  BY <1>2, <2>1 DEF StartResize
<1>3. CASE NoResize /\ used' * 100 < 71 * size
  BY <1>3
<1>4. CASE set_resize_up(used') /\ used' = used + 1
  <2>1. Load(used', size) \in Nat /\ (Load(used', size) <= 70 <=> used' * 100 < 71 * size)
    BY <1>1, LoadBound
  <2>2. CASE Load(used', size) <= 70
    BY <1>4, <2>1, <2>2 DEF set_resize_up
  <2>3. CASE Load(used', size) > 70
    <3>1. StartResize(2 * size) /\ ~ (2 * size < HT_BASE_SIZE) /\ 2 * size \in 2 .. 2 * MaxSize
      BY <1>1, <1>4, <2>3 DEF Shape, set_resize_up
    <3>2. newSize' \in Nat /\ newSize' >= 2 * size
      BY <1>2, <3>1
    <3>3. used' * 100 < 71 * newSize'
      BY <1>1, <1>4, <3>2, RoomAfterGrowing
    <3> QED  BY <1>2, <3>1, <3>3
  <2> QED  BY <2>1, <2>2, <2>3
<1>5. CASE set_resize_down(used') /\ used' = used - 1
  <2>1. used' * 100 < 71 * size
    BY <1>1, <1>5
  <2>2. CASE ~ (Load(used', size) < 10 /\ size \div 2 >= HT_BASE_SIZE)
    BY <1>1, <1>5, <2>1, <2>2 DEF set_resize_down, StartResize
  <2>3. CASE Load(used', size) < 10 /\ size \div 2 >= HT_BASE_SIZE
    <3> DEFINE half == size \div 2
    <3>1. half \in Nat /\ 2 * half <= size /\ size <= 2 * half + 1
      BY <1>1
    <3>2. half \in 2 .. 2 * MaxSize /\ ~ (half < HT_BASE_SIZE)
      BY <1>1, <2>3, <3>1 DEF Shape
    <3>3. used' * 100 < 10 * size
      BY <1>1, <2>3, LoadBound
    <3>4. StartResize(half)
      BY <1>5, <2>3 DEF set_resize_down
    <3> HIDE DEF half
    <3>5. newSize' \in Nat /\ newSize' >= half
      BY <1>2, <3>2, <3>4
    <3>6. used' * 100 < 71 * newSize'
      BY <1>1, <3>1, <3>3, <3>5, RoomAfterShrinking
    <3> QED  BY <1>2, <3>2, <3>4, <3>6
  <2> QED  BY <2>2, <2>3
<1> QED  BY <1>3, <1>4, <1>5

(* What an idle call must establish for its slots and its counter. *)
LEMMA IdleCallKeepsIInv ==
    ASSUME IInv, pc = "idle", size' = size, GoodSet(members', size),
           used' \in Nat, Cardinality(LiveSlots(members', size)) <= used',
           ret' \in Ret,
           \/ NoResize /\ used' * 100 < 71 * size
           \/ set_resize_up(used') /\ used' = used + 1
           \/ set_resize_down(used') /\ used' = used - 1
    PROVE  IInv'
<1> USE ConstantFacts
<1>1. \/ NoResize /\ used' * 100 < 71 * size
      \/ /\ pc' = "rehash" /\ newUsed' = 0 /\ scan' = 0
         /\ newSize' \in Nat /\ newSize' \in HT_BASE_SIZE .. MaxSize
         /\ newMembers' = EmptyTable(newSize')
         /\ used' * 100 < 71 * newSize'
  BY ResizeStartsWithRoom DEF IInv
<1>2. newUsed' = 0 /\ scan' = 0 /\ newSize' \in Nat
  BY <1>1 DEF IInv, Shape, NoResize, newSet
<1>3. GoodSet(newMembers', newSize') /\ LiveSlots(newMembers', newSize') = {}
  <2>1. CASE NoResize
    <3>1. newSize = 0 /\ newSize' = 0 /\ newMembers' = newMembers
      BY <2>1 DEF IInv, Shape, NoResize, newSet
    <3>2. LiveSlots(newMembers, 0) = {}
      BY DEF LiveSlots, Slots
    <3> QED  BY <3>1, <3>2 DEF IInv
  <2>2. CASE newMembers' = EmptyTable(newSize')
    BY <1>2, <2>2, EmptySetIsGood
  <2> QED  BY <1>1, <2>1, <2>2
<1>4. Shape'
  <2>1. size \in HT_BASE_SIZE .. MaxSize
    BY DEF IInv, Shape
  <2>2. \/ pc' = "idle" /\ newSize' = 0
        \/ pc' = "rehash" /\ newSize' \in HT_BASE_SIZE .. MaxSize
    BY <1>1 DEF IInv, Shape, NoResize, newSet
  <2> QED  BY <1>2, <2>1, <2>2 DEF Shape
<1>5. Counted'
  <2>1. Waiting' \subseteq LiveSlots(members', size)
    BY DEF Waiting
  <2>2. size \in Nat
    BY DEF IInv, Shape
  <2>3. /\ Cardinality(Waiting') \in Nat
        /\ Cardinality(Waiting') <= Cardinality(LiveSlots(members', size))
    BY <2>1, <2>2, LiveSlotsFinite, FS_Subset, FS_CardinalityType
  <2>4. Cardinality(LiveSlots(newMembers', newSize')) = 0
    BY <1>3, FS_EmptySet
  <2> QED  BY <1>2, <2>2, <2>3, <2>4, LiveSlotsFinite DEF Counted
<1>6. LoadLimit'
  BY <1>1 DEF LoadLimit, NoResize
<1> QED  BY <1>3, <1>4, <1>5, <1>6 DEF IInv

(* The facts about an idle set that a call starts from. *)
LEMMA IdleFacts ==
    ASSUME IInv
    PROVE  /\ size \in Sizes /\ size \in Nat /\ used \in Nat
           /\ GoodSet(members, size)
           /\ IsFiniteSet(LiveSlots(members, size))
           /\ Cardinality(LiveSlots(members, size)) \in Nat
           /\ Cardinality(LiveSlots(members, size)) <= used
<1>1. size \in Sizes /\ size \in Nat /\ used \in Nat
  BY ConstantFacts DEF IInv, Shape, Sizes
<1> QED  BY <1>1, LiveSlotsFinite DEF IInv, Counted

(* set_add stores the member, or leaves everything as it is. *)
LEMMA AddKeepsIInv ==
    ASSUME IInv, NEW k \in Keys, set_add(k)
    PROVE  IInv'
<1>1. pc = "idle" /\ size' = size /\ used * 100 < 71 * size
  BY DEF set_add, IInv, LoadLimit
<1>2. ASSUME NEW i \in Slots(size), Accepts(members, size, k, i),
             members' = [members EXCEPT ![hash_func(k, size, i)] = k],
             used' = used + 1, set_resize_up(used'), ret' = Call("add", k, TRUE)
      PROVE  IInv'
  <2>1. /\ GoodSet(members', size)
        /\ LiveSlots(members', size) = LiveSlots(members, size) \cup {hash_func(k, size, i)}
        /\ hash_func(k, size, i) \notin LiveSlots(members, size)
    <3>1. Added(members, members', size, k, i)
      BY <1>2, IdleFacts DEF Accepts, Added
    <3> QED  BY <3>1, AddKeepsPaths
  <2>2. Cardinality(LiveSlots(members', size)) = Cardinality(LiveSlots(members, size)) + 1
    BY <2>1, IdleFacts, FS_AddElement
  <2>3. used' \in Nat /\ Cardinality(LiveSlots(members', size)) <= used'
    BY <1>2, <2>2, IdleFacts
  <2>4. ret' \in Ret
    BY <1>2 DEF Call, Ret
  <2> QED  BY <1>1, <1>2, <2>1, <2>3, <2>4, IdleCallKeepsIInv
<1>3. CASE ret' = Call("add", k, FALSE) /\ NoResize /\ UNCHANGED <<used, members>>
  <2>1. ret' \in Ret
    BY <1>3 DEF Call, Ret
  <2> QED  BY <1>1, <1>3, <2>1, IdleFacts, IdleCallKeepsIInv
<1> QED  BY <1>2, <1>3 DEF set_add

(* set_rem leaves a tombstone in the slot of a copy, or does nothing. *)
LEMMA RemKeepsIInv ==
    ASSUME IInv, NEW k \in Keys, set_rem(k)
    PROVE  IInv'
<1>1. pc = "idle" /\ size' = size /\ used * 100 < 71 * size
  BY DEF set_rem, IInv, LoadLimit
<1>2. ASSUME NEW i \in Slots(size), Hit(members, size, k, i),
             members' = [members EXCEPT ![hash_func(k, size, i)] = DELETED],
             used' = used - 1, set_resize_down(used'), ret' = Call("rem", k, TRUE)
      PROVE  IInv'
  <2> DEFINE h == hash_func(k, size, i)
  <2>1. h \in LiveSlots(members, size)
    <3>1. h \in Slots(size)
      BY IdleFacts, ProbeStaysInTable
    <3> QED  BY <1>2, <3>1, TableAssumption DEF Hit, LiveSlots, Free
  <2>2. GoodSet(members', size) /\ LiveSlots(members', size) = LiveSlots(members, size) \ {h}
    BY <1>2, <2>1, IdleFacts, RemoveKeepsPaths
  <2>3. /\ Cardinality(LiveSlots(members', size)) = Cardinality(LiveSlots(members, size)) - 1
        /\ Cardinality(LiveSlots(members', size)) \in Nat
    BY <2>1, <2>2, IdleFacts, LiveSlotsFinite, FS_RemoveElement
  <2>4. used' \in Nat /\ Cardinality(LiveSlots(members', size)) <= used'
    BY <1>2, <2>3, IdleFacts
  <2>5. ret' \in Ret
    BY <1>2 DEF Call, Ret
  <2> QED  BY <1>1, <1>2, <2>2, <2>4, <2>5, IdleCallKeepsIInv
<1>3. CASE ret' = Call("rem", k, FALSE) /\ NoResize /\ UNCHANGED <<used, members>>
  <2>1. ret' \in Ret
    BY <1>3 DEF Call, Ret
  <2> QED  BY <1>1, <1>3, <2>1, IdleFacts, IdleCallKeepsIInv
<1> QED  BY <1>2, <1>3 DEF set_rem

(* An iteration over a member takes it off the waiting ones. *)
LEMMA WaitingShrinks ==
    ASSUME IInv, Rehash, scan \in LiveSlots(members, size)
    PROVE  /\ Cardinality(Waiting) \in Nat /\ Cardinality(Waiting') \in Nat
           /\ Cardinality(Waiting') + 1 = Cardinality(Waiting)
<1>1. /\ size \in Nat /\ scan \in Nat /\ scan' = scan + 1
      /\ size' = size /\ members' = members
  BY IdleFacts DEF IInv, Shape, Rehash, set
<1>2. LiveSlots(members, size) \subseteq Nat
  BY <1>1 DEF LiveSlots, Slots
<1>3. Waiting' = Waiting \ {scan} /\ scan \in Waiting
  BY <1>1, <1>2 DEF Waiting
<1>4. IsFiniteSet(Waiting) /\ IsFiniteSet(Waiting')
  <2>1. Waiting \subseteq LiveSlots(members, size) /\ Waiting' \subseteq LiveSlots(members, size)
    BY <1>3 DEF Waiting
  <2> QED  BY <2>1, IdleFacts, FS_Subset
<1>5. Cardinality(Waiting') = Cardinality(Waiting) - 1
  BY <1>3, <1>4, FS_RemoveElement
<1> QED  BY <1>4, <1>5, FS_CardinalityType

(* An iteration that reaches a member keeps the invariant once it is known   *)
(* what the new set holds.                                                   *)
LEMMA CopyKeepsIInv ==
    ASSUME IInv, Rehash, scan \in LiveSlots(members, size), pc' = "rehash",
           GoodSet(newMembers', newSize), newUsed' \in Nat, newUsed' <= newUsed + 1,
           newUsed' = Cardinality(LiveSlots(newMembers', newSize))
    PROVE  IInv'
<1>1. /\ pc = "rehash" /\ scan < size /\ scan' = scan + 1
      /\ size' = size /\ used' = used /\ members' = members
      /\ newSize' = newSize /\ ret' = ret
      /\ size \in Nat /\ scan \in Nat /\ newUsed \in Nat /\ used \in Nat
  BY IdleFacts DEF IInv, Shape, Rehash, set
<1>2. Shape'
  <2>1. scan' \in 0 .. size
    BY <1>1
  <2> QED  BY <1>1, <2>1 DEF IInv, Shape
<1>3. Counted'
  <2>1. newUsed + Cardinality(Waiting) <= Cardinality(LiveSlots(members, size))
    BY DEF IInv, Counted
  <2>2. newUsed' + Cardinality(Waiting') <= Cardinality(LiveSlots(members, size))
    BY <1>1, <2>1, WaitingShrinks, IdleFacts
  <2> QED  BY <1>1, <2>2, IdleFacts DEF Counted
<1>4. LoadLimit'
  BY <1>1 DEF IInv, LoadLimit
<1> QED  BY <1>1, <1>2, <1>3, <1>4 DEF IInv

(* An iteration of the loop of set_resize. *)
LEMMA RehashKeepsIInv ==
    ASSUME IInv, Rehash
    PROVE  IInv'
<1>1. /\ pc = "rehash" /\ scan < size /\ scan' = scan + 1
      /\ size' = size /\ used' = used /\ members' = members
      /\ newSize' = newSize /\ ret' = ret
      /\ size \in Nat /\ scan \in Nat /\ newUsed \in Nat /\ used \in Nat
      /\ newSize \in Sizes /\ newSize \in Nat
  BY IdleFacts, ConstantFacts DEF IInv, Shape, Rehash, set, Sizes
<1>2. CASE ~ Free(members[scan]) /\ CopyMember
  <2> DEFINE k == members[scan]
  <2>1. scan \in LiveSlots(members, size) /\ k \in Keys
    <3>1. scan \in LiveSlots(members, size)
      BY <1>1, <1>2 DEF LiveSlots, Slots
    <3> QED  BY <1>1, <3>1, IdleFacts, LiveSlotIsMember DEF GoodSet
  <2>2. ASSUME NEW i \in Slots(newSize), Accepts(newMembers, newSize, k, i),
               newMembers' = [newMembers EXCEPT ![hash_func(k, newSize, i)] = k],
               newUsed' = newUsed + 1,
               pc' = IF Load(newUsed', newSize) > 70 THEN "nested" ELSE "rehash"
        PROVE  IInv'
    <3>1. /\ GoodSet(newMembers', newSize)
          /\ LiveSlots(newMembers', newSize)
                 = LiveSlots(newMembers, newSize) \cup {hash_func(k, newSize, i)}
          /\ hash_func(k, newSize, i) \notin LiveSlots(newMembers, newSize)
      <4>1. Added(newMembers, newMembers', newSize, k, i)
        BY <1>1, <2>1, <2>2 DEF Accepts, Added, IInv
      <4> QED  BY <4>1, AddKeepsPaths
    <3>2. newUsed' = Cardinality(LiveSlots(newMembers', newSize))
      <4>1. /\ IsFiniteSet(LiveSlots(newMembers, newSize))
            /\ Cardinality(LiveSlots(newMembers, newSize)) = newUsed
        BY <1>1, LiveSlotsFinite DEF IInv, Counted
      <4> QED  BY <2>2, <3>1, <4>1, FS_AddElement
    <3>3. newUsed' \in Nat /\ newUsed' <= used
      <4>1. newUsed + Cardinality(Waiting) <= Cardinality(LiveSlots(members, size))
        BY DEF IInv, Counted
      <4> QED  BY <1>1, <2>1, <2>2, <4>1, WaitingShrinks, IdleFacts
    <3>4. newUsed' * 100 < 71 * newSize
      <4>1. used * 100 < 71 * newSize
        BY <1>1 DEF IInv, LoadLimit
      <4> QED  BY <1>1, <3>3, <4>1, FewerFit
    <3>5. Load(newUsed', newSize) <= 70 /\ Load(newUsed', newSize) \in Nat
      <4>1. newSize \in Nat \ {0}
        BY <1>1 DEF Sizes
      <4> QED  BY <3>3, <3>4, <4>1, LoadBound
    <3>6. pc' = "rehash"
      BY <2>2, <3>5
    <3>7. newUsed' <= newUsed + 1
      BY <1>1, <2>2
    <3> QED  BY <2>1, <3>1, <3>2, <3>3, <3>6, <3>7, CopyKeepsIInv
  <2>3. CASE UNCHANGED <<newMembers, newUsed, pc>>
    <3>1. /\ pc' = "rehash" /\ GoodSet(newMembers', newSize) /\ newUsed' \in Nat
          /\ newUsed' <= newUsed + 1
          /\ newUsed' = Cardinality(LiveSlots(newMembers', newSize))
      BY <1>1, <2>3 DEF IInv, Counted
    <3> QED  BY <2>1, <3>1, CopyKeepsIInv
  <2> QED  BY <1>2, <2>2, <2>3 DEF CopyMember
<1>3. CASE Free(members[scan]) /\ UNCHANGED <<newMembers, newUsed, pc>>
  <2>1. scan \notin LiveSlots(members, size)
    BY <1>3 DEF LiveSlots
  <2>2. \A s \in LiveSlots(members, size) : s \in Nat /\ (s >= scan + 1 <=> s >= scan)
    BY <1>1, <2>1 DEF LiveSlots, Slots
  <2>3. Waiting' = Waiting
    BY <1>1, <2>2 DEF Waiting
  <2>4. scan' \in 0 .. size
    BY <1>1
  <2>5. Shape'
    BY <1>1, <1>3, <2>4 DEF IInv, Shape
  <2>6. Counted' /\ LoadLimit'
    BY <1>1, <1>3, <2>3 DEF IInv, Counted, LoadLimit
  <2> QED  BY <1>1, <1>3, <2>5, <2>6 DEF IInv
<1> QED  BY <1>2, <1>3 DEF Rehash

(* The swap of the sets at the end of set_resize. *)
LEMMA FinishKeepsIInv ==
    ASSUME IInv, FinishResize
    PROVE  IInv'
<1>1. /\ pc = "rehash" /\ scan = size /\ pc' = "idle"
      /\ size' = newSize /\ members' = newMembers /\ used' = used /\ ret' = ret
      /\ newSize' = 0 /\ newUsed' = 0 /\ newMembers' = EmptyTable(0) /\ scan' = 0
      /\ size \in Nat /\ used \in Nat /\ newUsed \in Nat /\ newSize \in Nat
  BY IdleFacts DEF IInv, Shape, FinishResize
<1>2. GoodSet(newMembers', 0) /\ LiveSlots(newMembers', 0) = {}
  BY <1>1, EmptySetIsGood
<1>3. Shape'
  <2>1. newSize \in HT_BASE_SIZE .. MaxSize
    BY <1>1 DEF IInv, Shape
  <2> QED  BY <1>1, <2>1 DEF IInv, Shape
<1>4. newUsed <= used
  <2>1. Waiting \subseteq LiveSlots(members, size)
    BY DEF Waiting
  <2>2. Cardinality(Waiting) \in Nat
    BY <2>1, IdleFacts, FS_Subset, FS_CardinalityType
  <2>3. newUsed + Cardinality(Waiting) <= Cardinality(LiveSlots(members, size))
    BY DEF IInv, Counted
  <2> QED  BY <1>1, <2>2, <2>3, IdleFacts
<1>5. Counted'
  <2>1. Waiting' \subseteq LiveSlots(newMembers, newSize)
    BY <1>1 DEF Waiting
  <2>2. /\ Cardinality(Waiting') \in Nat
        /\ Cardinality(Waiting') <= Cardinality(LiveSlots(newMembers, newSize))
    BY <1>1, <2>1, LiveSlotsFinite, FS_Subset, FS_CardinalityType
  <2>3. Cardinality(LiveSlots(newMembers, newSize)) = newUsed
    BY DEF IInv, Counted
  <2>4. Cardinality(LiveSlots(newMembers', 0)) = 0
    BY <1>2, FS_EmptySet
  <2> QED  BY <1>1, <1>4, <2>2, <2>3, <2>4 DEF Counted
<1>6. LoadLimit'
  BY <1>1 DEF IInv, LoadLimit
<1> QED  BY <1>1, <1>2, <1>3, <1>5, <1>6 DEF IInv

(* Every step keeps the inductive invariant. *)
THEOREM NextKeepsIInv == IInv /\ [Next]_vars => IInv'
<1> SUFFICES ASSUME IInv, [Next]_vars PROVE IInv'
  OBVIOUS
<1>1. ASSUME NEW k \in Keys, set_add(k) PROVE IInv'
  BY <1>1, AddKeepsIInv
<1>2. ASSUME NEW k \in Keys, set_rem(k) PROVE IInv'
  BY <1>2, RemKeepsIInv
<1>3. CASE Rehash
  BY <1>3, RehashKeepsIInv
<1>4. CASE FinishResize
  BY <1>4, FinishKeepsIInv
<1>5. CASE UNCHANGED vars
  BY <1>5 DEF vars, set, newSet, IInv, Shape, Counted, Waiting, LoadLimit
<1> QED  BY <1>1, <1>2, <1>3, <1>4, <1>5 DEF Next

(***************************************************************************)
(* The theorems.                                                           *)
(***************************************************************************)

(* The inductive invariant holds in every reachable state. *)
THEOREM Invariance == Spec => []IInv
BY InitEstablishesIInv, NextKeepsIInv, PTL DEF Spec

(* The set, the set being filled, the counters and the answer keep the types *)
(* that set.c's fields and return values have.                               *)
THEOREM TypeCorrectness == Spec => []TypeOK
<1>1. IInv => TypeOK
  <2> SUFFICES ASSUME IInv PROVE TypeOK
    OBVIOUS
  <2>1. /\ size \in HT_BASE_SIZE .. MaxSize /\ size \in Nat /\ used \in Nat
        /\ newSize \in 0 .. MaxSize /\ newSize \in Nat /\ MaxSize \in Nat
        /\ newUsed \in Nat
    BY ConstantFacts DEF IInv, Shape
  <2>2. pc \in {"idle", "rehash"}
    BY DEF IInv, Shape
  <2>3. used <= MaxSize
    <3>1. CASE pc = "idle"
      BY <2>1, <3>1 DEF IInv, LoadLimit
    <3>2. CASE pc = "rehash"
      BY <2>1, <3>2 DEF IInv, LoadLimit
    <3> QED  BY <2>2, <3>1, <3>2
  <2>4. newUsed <= newSize
    BY <2>1, LiveSlotsFinite DEF IInv, Counted
  <2>5. used \in 0 .. MaxSize /\ newUsed \in 0 .. newSize
    BY <2>1, <2>3, <2>4
  <2> QED  BY <2>1, <2>2, <2>5 DEF IInv, Shape, GoodSet, Slot, Ret, TypeOK
<1> QED  BY <1>1, Invariance, PTL

(* SISMEMBER answers 1 for every member that is in some slot, although       *)
(* set_add stores members twice and set_rem removes one copy at a time.      *)
THEOREM EveryMemberIsFound == Spec => []MembersAreFound
<1>1. IInv => MembersAreFound
  BY IdleFacts, CopyIsFound DEF IInv, Shape, MembersAreFound, Copies
<1> QED  BY <1>1, Invariance, PTL

(* used bounds the occupied slots, the load limit leaves a free slot to the  *)
(* next call, and set_resize is never reentered.                             *)
THEOREM UsedIsBounded == Spec => []UsedBounds
<1>1. IInv => UsedBounds
  <2> SUFFICES ASSUME IInv PROVE UsedBounds
    OBVIOUS
  <2>1. size \in Nat \ {0} /\ used \in Nat
    BY ConstantFacts DEF IInv, Shape
  <2>2. ASSUME pc = "idle" PROVE Load(used, size) <= 70
    <3>1. used * 100 < 71 * size
      BY <2>2 DEF IInv, LoadLimit
    <3> QED  BY <2>1, <3>1, LoadBound
  <2>3. pc # "nested"
    BY DEF IInv, Shape
  <2> QED  BY <2>2, <2>3 DEF IInv, Counted, UsedBounds
<1> QED  BY <1>1, Invariance, PTL

-----------------------------------------------------------------------------
(***************************************************************************)
(* The copies of a member, and where they come from.                       *)
(***************************************************************************)

(* A member that is stored in a slot that was NULL was nowhere before: a     *)
(* copy before that slot stops set_add, and none is behind a NULL slot.      *)
LEMMA NothingBehindNull ==
    ASSUME NEW n \in Nat, NEW tab, GoodSet(tab, n), NEW k \in Keys, NEW i \in Slots(n),
           Accepts(tab, n, k, i), tab[hash_func(k, n, i)] = NULL
    PROVE  Copies(tab, n, k) = {}
<1> SUFFICES ASSUME NEW s \in Slots(n), tab[s] = k PROVE FALSE
  BY DEF Copies
<1>1. s \in LiveSlots(tab, n)
  BY TableAssumption DEF LiveSlots, Free
<1>2. PICK m \in Slots(n) :
          /\ hash_func(k, n, m) = s
          /\ \A j \in 0 .. (m - 1) : tab[hash_func(k, n, j)] # NULL
  BY <1>1 DEF GoodSet, PathKept
<1>3. i \in Nat /\ m \in Nat
  BY DEF Slots
<1>4. ~ (i < m)
  BY <1>2, <1>3
<1>5. ~ (m < i)
  BY <1>2, <1>3 DEF Accepts
<1>6. m # i
  BY <1>2, TableAssumption
<1> QED  BY <1>3, <1>4, <1>5, <1>6

(* The table new is tab with k in the free slot h. *)
Stored(tab, new, n, h, k) ==
    /\ tab \in [Slots(n) -> Slot] /\ h \in Slots(n) /\ Free(tab[h]) /\ k \in Keys
    /\ new = [tab EXCEPT ![h] = k]

(* Storing k in a free slot adds a copy of k and of nothing else. *)
LEMMA StoredCopies ==
    ASSUME NEW n, NEW tab, NEW new, NEW h, NEW k, Stored(tab, new, n, h, k)
    PROVE  /\ Copies(new, n, k) = Copies(tab, n, k) \cup {h}
           /\ h \notin Copies(tab, n, k)
           /\ \A q \in Keys \ {k} : Copies(new, n, q) = Copies(tab, n, q)
<1>1. new[h] = k /\ tab[h] \notin Keys /\ \A s \in Slots(n) : s # h => new[s] = tab[s]
  BY TableAssumption DEF Stored, Free
<1> QED  BY <1>1 DEF Copies, Stored

(* The table new is tab with a tombstone in the slot h of k. *)
Removed(tab, new, n, h, k) ==
    /\ tab \in [Slots(n) -> Slot] /\ h \in Slots(n) /\ tab[h] = k /\ k \in Keys
    /\ new = [tab EXCEPT ![h] = DELETED]

(* A tombstone in the slot of k takes a copy of k and of nothing else. *)
LEMMA RemovedCopies ==
    ASSUME NEW n, NEW tab, NEW new, NEW h, NEW k, Removed(tab, new, n, h, k)
    PROVE  /\ Copies(new, n, k) = Copies(tab, n, k) \ {h}
           /\ \A q \in Keys \ {k} : Copies(new, n, q) = Copies(tab, n, q)
<1>1. new[h] = DELETED /\ DELETED \notin Keys /\ \A s \in Slots(n) : s # h => new[s] = tab[s]
  BY TableAssumption DEF Removed
<1> QED  BY <1>1 DEF Copies, Removed

(* A table has finitely many copies of a member. *)
LEMMA CopiesAreFinite ==
    ASSUME NEW n \in Nat, NEW tab, NEW k
    PROVE  /\ IsFiniteSet(Copies(tab, n, k))
           /\ Cardinality(Copies(tab, n, k)) \in Nat
<1>1. IsFiniteSet(Slots(n)) /\ Copies(tab, n, k) \subseteq Slots(n)
  BY FS_Interval DEF Slots, Copies
<1> QED  BY <1>1, FS_Subset, FS_CardinalityType

(* A new set holds no tombstone and each of its members once. *)
Fresh(tab, n) ==
    \A s \in Slots(n) :
        /\ tab[s] # DELETED
        /\ \A t \in Slots(n) : tab[s] = tab[t] /\ tab[s] # NULL => s = t

LEMMA EmptySetIsFresh ==
    ASSUME NEW n \in Nat
    PROVE  Fresh(EmptyTable(n), n)
BY TableAssumption DEF Fresh, EmptyTable

LEMMA FreshMeansOnce ==
    ASSUME NEW n \in Nat, NEW tab, Fresh(tab, n), NEW k \in Keys
    PROVE  Cardinality(Copies(tab, n, k)) <= 1
<1>1. CASE Copies(tab, n, k) = {}
  BY <1>1, FS_EmptySet
<1>2. CASE Copies(tab, n, k) # {}
  <2>1. PICK s \in Slots(n) : tab[s] = k
    BY <1>2 DEF Copies
  <2>2. Copies(tab, n, k) = {s}
    BY <2>1, TableAssumption DEF Copies, Fresh
  <2> QED  BY <2>2, FS_Singleton
<1> QED  BY <1>1, <1>2

(* What set_add stores in a fresh set is new there. *)
LEMMA AddKeepsFresh ==
    ASSUME NEW n \in Nat, NEW tab, GoodSet(tab, n), Fresh(tab, n), NEW k \in Keys,
           NEW i \in Slots(n), Accepts(tab, n, k, i), hash_func(k, n, i) \in Slots(n),
           NEW new, new = [tab EXCEPT ![hash_func(k, n, i)] = k]
    PROVE  Fresh(new, n)
<1> DEFINE h == hash_func(k, n, i)
<1>1. tab[h] = NULL /\ tab \in [Slots(n) -> Slot]
  BY DEF Accepts, FirstFree, Free, Fresh, GoodSet
<1>2. Copies(tab, n, k) = {}
  BY <1>1, NothingBehindNull
<1>3. \A s \in Slots(n) : tab[s] # k
  BY <1>2 DEF Copies
<1>4. new[h] = k /\ \A s \in Slots(n) : s # h => new[s] = tab[s]
  BY <1>1
<1> QED  BY <1>3, <1>4, TableAssumption DEF Fresh

(* The invariant that the action properties need: the set a resize fills is  *)
(* fresh, and the tables have prime sizes.                                   *)
GInv ==
    /\ Fresh(newMembers, newSize)
    /\ Prime(size)
    /\ pc = "rehash" => Prime(newSize)

LEMMA InitIsFresh == Init => GInv
<1>1. HT_BASE_SIZE \in 2 .. 2 * MaxSize
  BY TableAssumption
<1>2. Prime(next_prime(HT_BASE_SIZE))
  BY <1>1, NextPrimeIsPrime
<1>3. Fresh(EmptyTable(0), 0)
  BY EmptySetIsFresh
<1> QED  BY <1>2, <1>3 DEF Init, GInv

(* A call opens a new set, or leaves the one of no slots. *)
LEMMA CallKeepsGInv ==
    ASSUME IInv, GInv, pc = "idle", size' = size,
           NEW u, NoResize \/ set_resize_up(u) \/ set_resize_down(u)
    PROVE  GInv'
<1>1. size \in 2 .. MaxSize /\ MaxSize \in Nat
  BY ConstantFacts DEF IInv, Shape
<1>2. CASE NoResize
  BY <1>2 DEF NoResize, newSet, GInv
<1>3. ASSUME NEW n \in 1 .. 2 * MaxSize, StartResize(n)
      PROVE  GInv'
  <2>1. CASE n < HT_BASE_SIZE
    BY <1>2, <1>3, <2>1 DEF StartResize
  <2>2. CASE ~ (n < HT_BASE_SIZE)
    <3>1. n \in 2 .. 2 * MaxSize
      BY <2>2, <1>1, ConstantFacts
    <3>2. Prime(next_prime(n)) /\ next_prime(n) \in Nat
      BY <3>1, NextPrimeIsPrime, NextPrimeBounds
    <3>3. newSize' = next_prime(n) /\ newMembers' = EmptyTable(newSize')
      BY <1>3, <2>2 DEF StartResize
    <3>4. Fresh(newMembers', newSize')
      BY <3>2, <3>3, EmptySetIsFresh
    <3> QED  BY <3>2, <3>3, <3>4 DEF GInv
  <2> QED  BY <2>1, <2>2
<1>4. 2 * size \in 1 .. 2 * MaxSize /\ size \div 2 \in 1 .. 2 * MaxSize
  BY <1>1
<1> QED  BY <1>2, <1>3, <1>4 DEF set_resize_up, set_resize_down

(* The facts about the two tables of a resize step. *)
LEMMA RehashFacts ==
    ASSUME IInv, Rehash
    PROVE  /\ pc = "rehash" /\ pc' = "rehash" /\ scan' = scan + 1
           /\ size' = size /\ members' = members /\ newSize' = newSize /\ ret' = ret
           /\ scan \in Slots(size) /\ scan \in Nat /\ size \in Nat
           /\ members \in [Slots(size) -> Slot]
           /\ newSize \in Sizes /\ newSize \in Nat /\ GoodSet(newMembers, newSize)
<1>1. /\ pc = "rehash" /\ scan' = scan + 1
      /\ size' = size /\ members' = members /\ newSize' = newSize /\ ret' = ret
      /\ scan \in Slots(size) /\ scan \in Nat /\ size \in Nat
  BY IdleFacts DEF IInv, Shape, Rehash, set, Slots
<1>2. pc' = "rehash"
  <2>1. Shape'
    BY RehashKeepsIInv DEF IInv
  <2>2. pc' \in {"rehash", "nested"}
    BY <1>1 DEF Rehash, CopyMember
  <2> QED  BY <2>1, <2>2 DEF Shape
<1>3. newSize \in Sizes /\ newSize \in Nat
  BY <1>1, ConstantFacts DEF IInv, Shape, Sizes
<1> QED  BY <1>1, <1>2, <1>3 DEF IInv, GoodSet

(* Every step keeps it. *)
LEMMA StepKeepsGInv == IInv /\ GInv /\ [Next]_vars => GInv'
<1> SUFFICES ASSUME IInv, GInv, [Next]_vars PROVE GInv'
  OBVIOUS
<1>1. ASSUME NEW k \in Keys, set_add(k) \/ set_rem(k) PROVE GInv'
  <2>1. /\ size' = size /\ pc = "idle"
        /\ NoResize \/ set_resize_up(used') \/ set_resize_down(used')
    BY <1>1 DEF set_add, set_rem
  <2> QED  BY <2>1, CallKeepsGInv
<1>2. CASE Rehash
  <2>1. Fresh(newMembers', newSize')
    <3>1. ASSUME ~ Free(members[scan]), NEW i \in Slots(newSize),
                 Accepts(newMembers, newSize, members[scan], i),
                 newMembers' = [newMembers EXCEPT ![hash_func(members[scan], newSize, i)] = members[scan]]
          PROVE  Fresh(newMembers', newSize)
      <4>1. members[scan] \in Keys
        BY <1>2, <3>1, RehashFacts DEF Free, Slot
      <4>2. hash_func(members[scan], newSize, i) \in Slots(newSize)
        BY <1>2, <4>1, RehashFacts, ProbeStaysInTable
      <4>3. newSize \in Nat /\ GoodSet(newMembers, newSize) /\ Fresh(newMembers, newSize)
        BY <1>2, RehashFacts DEF GInv
      <4> QED  BY <3>1, <4>1, <4>2, <4>3, AddKeepsFresh
    <3> QED  BY <1>2, <3>1, RehashFacts DEF Rehash, CopyMember, GInv
  <2> QED  BY <1>2, <2>1, RehashFacts DEF GInv
<1>3. CASE FinishResize
  <2>1. Fresh(EmptyTable(0), 0)
    BY EmptySetIsFresh
  <2> QED  BY <1>3, <2>1 DEF FinishResize, GInv
<1>4. CASE UNCHANGED vars
  BY <1>4 DEF vars, set, newSet, GInv
<1> QED  BY <1>1, <1>2, <1>3, <1>4 DEF Next

-----------------------------------------------------------------------------
(* A second copy of a member appears only where set_add reuses a tombstone.  *)
ReusesTombstone(k) ==
    LET before == Cardinality(Copies(members, size, k))
        after  == Cardinality(Copies(members, size, k)')
    IN  after > 1 /\ after > before =>
            \E s \in Slots(size) : members[s] = DELETED /\ members'[s] = k

(* A step that adds no copy adds no second one. *)
LEMMA NoNewCopy ==
    ASSUME IInv, NEW k \in Keys, Copies(members, size, k)' \subseteq Copies(members, size, k)
    PROVE  ReusesTombstone(k)
<1> DEFINE before == Copies(members, size, k)
           after  == Copies(members, size, k)'
<1>1. IsFiniteSet(before) /\ Cardinality(before) \in Nat
  BY IdleFacts, CopiesAreFinite
<1> HIDE DEF before, after
<1>2. after \subseteq before
  BY DEF before, after
<1>3. IsFiniteSet(after) /\ Cardinality(after) \in Nat /\ Cardinality(after) <= Cardinality(before)
  BY <1>1, <1>2, FS_Subset, FS_CardinalityType
<1>4. ~ (Cardinality(after) > Cardinality(before))
  BY <1>1, <1>3
<1> QED  BY <1>4 DEF ReusesTombstone, before, after

LEMMA AddReusesTombstones ==
    ASSUME IInv, NEW k \in Keys, NEW q \in Keys, set_add(q)
    PROVE  ReusesTombstone(k)
<1>1. /\ size \in Nat /\ size \in Sizes /\ size' = size
      /\ GoodSet(members, size) /\ members \in [Slots(size) -> Slot]
  BY IdleFacts DEF set_add, GoodSet
<1>2. ASSUME NEW i \in Slots(size), Accepts(members, size, q, i),
             members' = [members EXCEPT ![hash_func(q, size, i)] = q]
      PROVE  ReusesTombstone(k)
  <2>0. PICK h : h = hash_func(q, size, i)
    OBVIOUS
  <2>1. Stored(members, members', size, h, q)
    BY <1>1, <1>2, <2>0, ProbeStaysInTable DEF Accepts, FirstFree, Stored
  <2>2. /\ Copies(members', size, q) = Copies(members, size, q) \cup {h}
        /\ \A p \in Keys \ {q} : Copies(members', size, p) = Copies(members, size, p)
    BY <2>1, StoredCopies
  <2>3. CASE k # q
    <3>1. Copies(members, size, k)' = Copies(members, size, k)
      BY <1>1, <2>2, <2>3 DEF Copies
    <3> QED  BY <3>1, NoNewCopy
  <2>4. CASE k = q /\ members[h] = DELETED
    <3>1. members'[h] = k /\ h \in Slots(size)
      BY <2>1, <2>4 DEF Stored
    <3> QED  BY <2>4, <3>1 DEF ReusesTombstone
  <2>5. CASE k = q /\ members[h] = NULL
    <3>1. Copies(members, size, q) = {}
      BY <1>1, <1>2, <2>0, <2>5, NothingBehindNull
    <3>2. Copies(members, size, k)' = {h}
      BY <1>1, <2>2, <2>5, <3>1 DEF Copies
    <3>3. Cardinality({h}) = 1
      BY FS_Singleton
    <3>4. ~ (Cardinality(Copies(members, size, k)') > 1)
      BY <3>2, <3>3
    <3> QED  BY <3>4 DEF ReusesTombstone
  <2> QED  BY <2>1, <2>3, <2>4, <2>5 DEF Free, Stored
<1>3. CASE UNCHANGED members
  <2>1. Copies(members, size, k)' = Copies(members, size, k)
    BY <1>1, <1>3 DEF Copies
  <2> QED  BY <2>1, NoNewCopy
<1> QED  BY <1>2, <1>3 DEF set_add

(* set_rem takes a copy or none, ... *)
LEMMA RemAddsNoCopy ==
    ASSUME IInv, NEW k \in Keys, NEW q \in Keys, set_rem(q)
    PROVE  ReusesTombstone(k)
<1>1. size \in Nat /\ size \in Sizes /\ size' = size /\ members \in [Slots(size) -> Slot]
  BY IdleFacts DEF set_rem, GoodSet
<1>2. ASSUME NEW i \in Slots(size), Hit(members, size, q, i),
             members' = [members EXCEPT ![hash_func(q, size, i)] = DELETED]
      PROVE  Copies(members', size, k) \subseteq Copies(members, size, k)
  <2>0. PICK h : h = hash_func(q, size, i)
    OBVIOUS
  <2>1. Removed(members, members', size, h, q)
    BY <1>1, <1>2, <2>0, ProbeStaysInTable DEF Hit, Removed
  <2>2. /\ Copies(members', size, q) = Copies(members, size, q) \ {h}
        /\ \A p \in Keys \ {q} : Copies(members', size, p) = Copies(members, size, p)
    BY <2>1, RemovedCopies
  <2> QED  BY <2>2
<1>3. Copies(members', size, k) \subseteq Copies(members, size, k)
  BY <1>2 DEF set_rem
<1>4. Copies(members, size, k)' \subseteq Copies(members, size, k)
  BY <1>1, <1>3 DEF Copies
<1> QED  BY <1>4, NoNewCopy

(* ... and a resize brings a set that has one of each. *)
LEMMA ResizeAddsNoCopy ==
    ASSUME IInv, GInv, NEW k \in Keys, Rehash \/ FinishResize
    PROVE  ReusesTombstone(k)
<1>1. CASE Rehash
  <2>1. Copies(members, size, k)' = Copies(members, size, k)
    BY <1>1, RehashFacts DEF Copies
  <2> QED  BY <2>1, NoNewCopy
<1>2. CASE FinishResize
  <2>1. newSize \in Nat /\ Fresh(newMembers, newSize)
    BY DEF IInv, Shape, GInv
  <2>2. Copies(members, size, k)' = Copies(newMembers, newSize, k)
    BY <1>2 DEF FinishResize, Copies
  <2>3. Cardinality(Copies(newMembers, newSize, k)) \in Nat
        /\ Cardinality(Copies(newMembers, newSize, k)) <= 1
    BY <2>1, FreshMeansOnce, CopiesAreFinite
  <2>4. ~ (Cardinality(Copies(members, size, k)') > 1)
    BY <2>2, <2>3
  <2> QED  BY <2>4 DEF ReusesTombstone
<1> QED  BY <1>1, <1>2

LEMMA StepReusesTombstones ==
    IInv /\ GInv /\ [Next]_vars => [\A k \in Keys : ReusesTombstone(k)]_vars
<1> SUFFICES ASSUME IInv, GInv, Next, NEW k \in Keys PROVE ReusesTombstone(k)
  OBVIOUS
<1> QED  BY AddReusesTombstones, RemAddsNoCopy, ResizeAddsNoCopy DEF Next

(* set_add stores a member a second time only in the place of a tombstone    *)
(* before the first copy, and a resize ends with one copy of each.           *)
THEOREM SecondCopiesReuseTombstones == Spec => DuplicatesReuseTombstones
<1>1. IInv /\ GInv /\ [Next]_vars =>
          [\A k \in Keys :
              LET before == Cardinality(Copies(members, size, k))
                  after  == Cardinality(Copies(members, size, k)')
              IN  after > 1 /\ after > before =>
                      \E s \in Slots(size) : members[s] = DELETED /\ members'[s] = k]_vars
  BY StepReusesTombstones DEF ReusesTombstone
<1> QED  BY <1>1, InitIsFresh, StepKeepsGInv, Invariance, PTL
         DEF Spec, DuplicatesReuseTombstones

-----------------------------------------------------------------------------
(* What IsMember says, without the probe loop: the string is in a slot of    *)
(* the new set, or in one that the resize has not reached.                   *)
Present(k) ==
    \/ Copies(newMembers, newSize, k) # {}
    \/ \E s \in scan .. (size - 1) : members[s] = k

LEMMA MembersArePresent == IInv => \A k \in Keys : IsMember(k) <=> Present(k)
<1> SUFFICES ASSUME IInv, NEW k \in Keys PROVE IsMember(k) <=> Present(k)
  OBVIOUS
<1>1. newSize \in Nat /\ (newSize \in Sizes \/ newSize = 0) /\ GoodSet(newMembers, newSize)
  BY ConstantFacts DEF IInv, Shape, Sizes
<1>2. ASSUME set_ismember(newMembers, newSize, k)
      PROVE  Copies(newMembers, newSize, k) # {}
  <2>1. PICK i \in Slots(newSize) : newMembers[hash_func(k, newSize, i)] = k
    BY <1>2 DEF set_ismember, Hit
  <2>2. newSize \in Sizes
    BY <1>1 DEF Slots
  <2>3. hash_func(k, newSize, i) \in Slots(newSize)
    BY <2>2, ProbeStaysInTable
  <2> QED  BY <2>1, <2>3 DEF Copies
<1>3. ASSUME Copies(newMembers, newSize, k) # {}
      PROVE  set_ismember(newMembers, newSize, k)
  <2>1. PICK s \in Slots(newSize) : newMembers[s] = k
    BY <1>3 DEF Copies
  <2> QED  BY <1>1, <2>1, CopyIsFound
<1> QED  BY <1>2, <1>3 DEF IsMember, Present

(* Around a call the new set is empty. *)
LEMMA PresentAtCall ==
    ASSUME IInv, pc = "idle", size' = size, NEW k \in Keys,
           NEW u, NoResize \/ set_resize_up(u) \/ set_resize_down(u)
    PROVE  /\ Present(k) <=> Copies(members, size, k) # {}
           /\ Present(k)' <=> Copies(members', size, k) # {}
<1>1. size \in Nat /\ scan = 0 /\ newSize = 0
  BY IdleFacts DEF IInv, Shape
<1>2. \A tab : Copies(tab, 0, k) = {}
  BY DEF Copies, Slots
<1>3. \A n : Copies(EmptyTable(n), n, k) = {}
  BY TableAssumption DEF Copies, EmptyTable
<1>4. scan' = 0 /\ (newSize' = 0 \/ newMembers' = EmptyTable(newSize'))
  BY <1>1 DEF NoResize, StartResize, set_resize_up, set_resize_down, newSet
<1>5. Copies(newMembers', newSize', k) = {}
  BY <1>2, <1>3, <1>4
<1>6. Present(k) <=> Copies(members, size, k) # {}
  BY <1>1, <1>2 DEF Present, Copies, Slots
<1>7. Present(k)' <=> \E s \in Slots(size) : members'[s] = k
  <2>1. Present(k)' <=> Copies(newMembers', newSize', k) # {}
                         \/ \E s \in scan' .. (size' - 1) : members'[s] = k
    BY DEF Present, Copies
  <2> QED  BY <1>1, <1>4, <1>5, <2>1 DEF Slots
<1> QED  BY <1>6, <1>7 DEF Copies

(* A string comes and goes as the calls answer, or goes in a resize. *)
Justified(k) ==
    /\ ~ Present(k) /\ Present(k)' => pc = "idle" /\ ret' = Call("add", k, TRUE)
    /\ Present(k) /\ ~ Present(k)' =>
           \/ pc = "idle" /\ ret' = Call("rem", k, TRUE)
           \/ pc = "rehash" /\ Step(k, newSize) = 0

LEMMA AddIsJustified ==
    ASSUME IInv, NEW k \in Keys, NEW q \in Keys, set_add(q)
    PROVE  Justified(k)
<1>1. /\ size \in Sizes /\ size' = size /\ members \in [Slots(size) -> Slot] /\ pc = "idle"
  BY IdleFacts DEF set_add, GoodSet
<1>2. /\ Present(k) <=> Copies(members, size, k) # {}
      /\ Present(k)' <=> Copies(members', size, k) # {}
  BY <1>1, PresentAtCall DEF set_add
<1>3. ASSUME NEW i \in Slots(size), Accepts(members, size, q, i),
             members' = [members EXCEPT ![hash_func(q, size, i)] = q],
             ret' = Call("add", q, TRUE)
      PROVE  Justified(k)
  <2>0. PICK h : h = hash_func(q, size, i)
    OBVIOUS
  <2>1. Stored(members, members', size, h, q)
    BY <1>1, <1>3, <2>0, ProbeStaysInTable DEF Accepts, FirstFree, Stored
  <2>2. /\ Copies(members', size, q) = Copies(members, size, q) \cup {h}
        /\ \A p \in Keys \ {q} : Copies(members', size, p) = Copies(members, size, p)
    BY <2>1, StoredCopies
  <2>3. CASE k = q
    BY <1>1, <1>2, <1>3, <2>2, <2>3 DEF Justified
  <2>4. CASE k # q
    BY <1>2, <2>2, <2>4 DEF Justified
  <2> QED  BY <2>3, <2>4
<1>4. CASE UNCHANGED members
  BY <1>2, <1>4 DEF Justified
<1> QED  BY <1>3, <1>4 DEF set_add

LEMMA RemIsJustified ==
    ASSUME IInv, NEW k \in Keys, NEW q \in Keys, set_rem(q)
    PROVE  Justified(k)
<1>1. /\ size \in Sizes /\ size' = size /\ members \in [Slots(size) -> Slot] /\ pc = "idle"
  BY IdleFacts DEF set_rem, GoodSet
<1>2. /\ Present(k) <=> Copies(members, size, k) # {}
      /\ Present(k)' <=> Copies(members', size, k) # {}
  BY <1>1, PresentAtCall DEF set_rem
<1>3. ASSUME NEW i \in Slots(size), Hit(members, size, q, i),
             members' = [members EXCEPT ![hash_func(q, size, i)] = DELETED],
             ret' = Call("rem", q, TRUE)
      PROVE  Justified(k)
  <2>0. PICK h : h = hash_func(q, size, i)
    OBVIOUS
  <2>1. Removed(members, members', size, h, q)
    BY <1>1, <1>3, <2>0, ProbeStaysInTable DEF Hit, Removed
  <2>2. /\ Copies(members', size, q) = Copies(members, size, q) \ {h}
        /\ \A p \in Keys \ {q} : Copies(members', size, p) = Copies(members, size, p)
    BY <2>1, RemovedCopies
  <2>3. CASE k = q
    BY <1>1, <1>2, <1>3, <2>2, <2>3 DEF Justified
  <2>4. CASE k # q
    BY <1>2, <2>2, <2>4 DEF Justified
  <2> QED  BY <2>3, <2>4
<1>4. CASE UNCHANGED members
  BY <1>2, <1>4 DEF Justified
<1> QED  BY <1>3, <1>4 DEF set_rem

(* The load limit leaves a free slot in the set that a resize fills. *)
LEMMA NewSetIsNotFull ==
    ASSUME IInv, pc = "rehash"
    PROVE  Cardinality(LiveSlots(newMembers, newSize)) < newSize
<1>1. newSize \in Nat /\ used \in Nat /\ newUsed \in Nat /\ used * 100 < 71 * newSize
  BY ConstantFacts DEF IInv, Shape, LoadLimit
<1>2. newUsed <= used
  <2>1. Waiting \subseteq LiveSlots(members, size)
    BY DEF Waiting
  <2>2. Cardinality(Waiting) \in Nat
    BY <2>1, IdleFacts, FS_Subset, FS_CardinalityType
  <2>3. newUsed + Cardinality(Waiting) <= Cardinality(LiveSlots(members, size))
    BY DEF IInv, Counted
  <2> QED  BY <1>1, <2>2, <2>3, IdleFacts
<1>3. newUsed < newSize
  BY <1>1, <1>2
<1> QED  BY <1>3 DEF IInv, Counted

(* set_add stops without storing: it met the member, or found no free slot.  *)
LEMMA RefusedIsThereOrBlocked ==
    ASSUME NEW n \in Sizes, NEW tab, NEW k \in Keys,
           ~ \E i \in Slots(n) : Accepts(tab, n, k, i)
    PROVE  Copies(tab, n, k) # {} \/ Blocked(tab, n, k)
<1> SUFFICES ASSUME ~ Blocked(tab, n, k) PROVE Copies(tab, n, k) # {}
  OBVIOUS
<1> DEFINE S == {i \in Slots(n) : Free(tab[hash_func(k, n, i)])}
<1>1. S # {} /\ S \subseteq Nat
  BY DEF Blocked, Slots
<1>2. PICK m \in S : \A r \in S : m <= r
  <2> HIDE DEF S
  <2> QED  BY <1>1, LeastNatural
<1>3. m \in Slots(n) /\ m \in Nat /\ n \in Nat
  BY <1>1, <1>2, TableAssumption DEF Sizes
<1>4. \A j \in 0 .. (m - 1) : j \in Slots(n) /\ j \in Nat /\ ~ (m <= j)
  BY <1>3 DEF Slots
<1>5. FirstFree(tab, n, k, m)
  BY <1>2, <1>4 DEF FirstFree
<1>6. PICK j \in 0 .. (m - 1) : tab[hash_func(k, n, j)] = k
  BY <1>3, <1>5 DEF Accepts
<1>7. hash_func(k, n, j) \in Slots(n)
  BY <1>4, ProbeStaysInTable
<1> QED  BY <1>6, <1>7 DEF Copies

(* What an iteration of the resize loop leaves to be copied. *)
LEMMA WaitingOrTaken ==
    ASSUME IInv, Rehash, NEW k \in Keys
    PROVE  (\E s \in scan .. (size - 1) : members[s] = k) <=>
           members[scan] = k \/ \E s \in scan' .. (size' - 1) : members'[s] = k
<1>1. scan \in Nat /\ size \in Nat /\ scan < size /\ scan' = scan + 1
      /\ size' = size /\ members' = members
  BY RehashFacts DEF Rehash
<1>2. \A s : s \in scan .. (size - 1) <=> s = scan \/ s \in (scan + 1) .. (size - 1)
  BY <1>1
<1> QED  BY <1>1, <1>2

LEMMA RehashIsJustified ==
    ASSUME IInv, GInv, NEW k \in Keys, Rehash
    PROVE  Justified(k)
<1>1. /\ pc = "rehash" /\ scan' = scan + 1 /\ size' = size /\ members' = members
      /\ newSize' = newSize /\ newSize \in Sizes /\ newSize \in Nat
      /\ GoodSet(newMembers, newSize) /\ members[scan] \in Slot
      /\ newMembers \in [Slots(newSize) -> Slot]
  BY RehashFacts DEF GoodSet
<1>2. /\ Present(k) <=> \/ Copies(newMembers, newSize, k) # {}
                        \/ members[scan] = k
                        \/ \E s \in scan' .. (size' - 1) : members'[s] = k
      /\ Present(k)' <=> \/ Copies(newMembers', newSize, k) # {}
                         \/ \E s \in scan' .. (size' - 1) : members'[s] = k
  BY <1>1, WaitingOrTaken DEF Present, Copies
<1>3. CASE Free(members[scan]) /\ UNCHANGED newMembers
  <2>1. members[scan] # k
    BY <1>3, TableAssumption DEF Free
  <2> QED  BY <1>2, <1>3, <2>1 DEF Justified
<1>4. ASSUME ~ Free(members[scan]), NEW i \in Slots(newSize),
             Accepts(newMembers, newSize, members[scan], i),
             newMembers' = [newMembers EXCEPT ![hash_func(members[scan], newSize, i)] = members[scan]]
      PROVE  Justified(k)
  <2>0. PICK q \in Keys : q = members[scan]
    BY <1>1, <1>4 DEF Free, Slot
  <2>5. PICK h : h = hash_func(q, newSize, i)
    OBVIOUS
  <2>1. Stored(newMembers, newMembers', newSize, h, q)
    BY <1>1, <1>4, <2>0, <2>5, ProbeStaysInTable DEF Accepts, FirstFree, Stored
  <2>2. /\ Copies(newMembers', newSize, q) = Copies(newMembers, newSize, q) \cup {h}
        /\ \A p \in Keys \ {q} : Copies(newMembers', newSize, p) = Copies(newMembers, newSize, p)
    BY <2>1, StoredCopies
  <2>3. Present(k)' <=> Present(k)
    BY <1>2, <2>0, <2>2
  <2> QED  BY <2>3 DEF Justified
<1>5. ASSUME ~ Free(members[scan]), UNCHANGED newMembers,
             ~ \E i \in Slots(newSize) : Accepts(newMembers, newSize, members[scan], i)
      PROVE  Justified(k)
  <2>1. members[scan] \in Keys
    BY <1>1, <1>5 DEF Free, Slot
  <2>2. \/ Copies(newMembers, newSize, members[scan]) # {}
        \/ Blocked(newMembers, newSize, members[scan])
    BY <1>1, <1>5, <2>1, RefusedIsThereOrBlocked
  <2>3. CASE members[scan] = k /\ Blocked(newMembers, newSize, k)
    <3>1. Cardinality(LiveSlots(newMembers, newSize)) < newSize
      BY <1>1, NewSetIsNotFull
    <3>2. Step(k, newSize) = 0
      BY <1>1, <2>3, <3>1, OnlyZeroStepsAreBlocked DEF GInv
    <3> QED  BY <1>1, <1>2, <1>5, <3>2 DEF Justified
  <2>4. CASE members[scan] # k \/ Copies(newMembers, newSize, k) # {}
    BY <1>2, <1>5, <2>4 DEF Justified
  <2> QED  BY <2>2, <2>3, <2>4
<1> QED  BY <1>3, <1>4, <1>5 DEF Rehash, CopyMember

(* The swap of the sets changes no membership. *)
LEMMA FinishIsJustified ==
    ASSUME IInv, NEW k \in Keys, FinishResize
    PROVE  Justified(k)
<1>1. /\ scan = size /\ scan' = 0 /\ size' = newSize /\ newSize' = 0 /\ members' = newMembers
      /\ size \in Nat
  BY IdleFacts DEF FinishResize
<1>2. Present(k) <=> Copies(newMembers, newSize, k) # {}
  BY <1>1 DEF Present
<1>3. Present(k)' <=> Copies(newMembers', 0, k) # {}
                       \/ \E s \in 0 .. (newSize - 1) : newMembers[s] = k
  BY <1>1 DEF Present, Copies
<1>4. Copies(newMembers', 0, k) = {}
  BY DEF Copies, Slots
<1>5. Present(k)' <=> Present(k)
  BY <1>2, <1>3, <1>4 DEF Copies, Slots
<1> QED  BY <1>5 DEF Justified

LEMMA StepIsJustified ==
    IInv /\ GInv /\ [Next]_vars => [\A k \in Keys : Justified(k)]_vars
<1> SUFFICES ASSUME IInv, GInv, Next, NEW k \in Keys PROVE Justified(k)
  OBVIOUS
<1> QED  BY AddIsJustified, RemIsJustified, RehashIsJustified, FinishIsJustified DEF Next

(* SISMEMBER changes for a string only as SADD and SREM answer, and in a     *)
(* resize for a string whose step in the new table is 0.                     *)
THEOREM MembershipIsJustified == Spec => MembershipChanges
<1>1. IInv /\ IInv' /\ GInv /\ [Next]_vars =>
          [\A k \in Keys :
              /\ ~ IsMember(k) /\ IsMember(k)' => pc = "idle" /\ ret' = Call("add", k, TRUE)
              /\ IsMember(k) /\ ~ IsMember(k)' =>
                     \/ pc = "idle" /\ ret' = Call("rem", k, TRUE)
                     \/ pc = "rehash" /\ Step(k, newSize) = 0]_vars
  <2>1. (IInv => \A k \in Keys : IsMember(k) <=> Present(k))'
    BY MembersArePresent, PTL
  <2>2. IInv' => \A k \in Keys : IsMember(k)' <=> Present(k)'
    BY <2>1
  <2> QED  BY <2>2, MembersArePresent, StepIsJustified DEF Justified
<1> QED  BY <1>1, InitIsFresh, StepKeepsGInv, Invariance, PTL
         DEF Spec, MembershipChanges

-----------------------------------------------------------------------------
(***************************************************************************)
(* The slots implement the bag of Membership.                              *)
(***************************************************************************)

Waits(k) == Copies(members, size, k) \cap scan .. size

LEMMA BagUnchanged ==
    ASSUME \A q \in Keys : CopiesLeft(q)' = CopiesLeft(q)
    PROVE  [q \in Keys |-> CopiesLeft(q)]' = [q \in Keys |-> CopiesLeft(q)]
OBVIOUS

LEMMA BagOverridden ==
    ASSUME NEW k \in Keys, NEW x, CopiesLeft(k)' = x,
           \A q \in Keys \ {k} : CopiesLeft(q)' = CopiesLeft(q)
    PROVE  [q \in Keys |-> CopiesLeft(q)]' = [[q \in Keys |-> CopiesLeft(q)] EXCEPT ![k] = x]
OBVIOUS

(* What is left of a member between calls are its copies. *)
LEMMA CopiesAtCall ==
    ASSUME IInv, pc = "idle", size' = size, NEW k \in Keys,
           NEW u, NoResize \/ set_resize_up(u) \/ set_resize_down(u)
    PROVE  /\ CopiesLeft(k) = Cardinality(Copies(members, size, k))
           /\ CopiesLeft(k)' = Cardinality(Copies(members', size, k))
           /\ CopiesLeft(k) \in Nat
<1>1. size \in Nat /\ scan = 0 /\ newSize = 0
  BY IdleFacts DEF IInv, Shape
<1>2. \A tab : Copies(tab, 0, k) = {}
  BY DEF Copies, Slots
<1>3. \A n : Copies(EmptyTable(n), n, k) = {}
  BY TableAssumption DEF Copies, EmptyTable
<1>4. scan' = 0 /\ (newSize' = 0 \/ newMembers' = EmptyTable(newSize'))
  BY <1>1 DEF NoResize, StartResize, set_resize_up, set_resize_down, newSet
<1>5. Copies(newMembers', newSize', k) = {} /\ Copies(newMembers, newSize, k) = {}
  BY <1>1, <1>2, <1>3, <1>4
<1>6. \A tab : Copies(tab, size, k) \cap 0 .. size = Copies(tab, size, k)
  BY <1>1 DEF Copies, Slots
<1>7. \A tab : Cardinality(Copies(tab, size, k)) \in Nat
  BY <1>1, CopiesAreFinite
<1>8. CopiesLeft(k) = Cardinality({}) + Cardinality(Copies(members, size, k))
  BY <1>1, <1>5, <1>6 DEF CopiesLeft
<1>9. CopiesLeft(k)' = Cardinality({}) + Cardinality(Copies(members', size, k))
  <2>1. CopiesLeft(k)' = Cardinality(Copies(newMembers', newSize', k))
                             + Cardinality(Copies(members', size', k) \cap scan' .. size')
    BY DEF CopiesLeft, Copies
  <2> QED  BY <1>4, <1>5, <1>6, <2>1
<1> QED  BY <1>7, <1>8, <1>9, FS_EmptySet

LEMMA AddIsAcceptOrDecline ==
    ASSUME IInv, NEW k \in Keys, set_add(k)
    PROVE  Promise!Accept(k) \/ Promise!Decline(k)
<1> DEFINE copies == [q \in Keys |-> CopiesLeft(q)]
<1>1. /\ size \in Sizes /\ size \in Nat /\ size' = size /\ pc = "idle"
      /\ members \in [Slots(size) -> Slot]
  BY IdleFacts DEF set_add, GoodSet
<1>2. \A q \in Keys : /\ CopiesLeft(q) = Cardinality(Copies(members, size, q))
                      /\ CopiesLeft(q)' = Cardinality(Copies(members', size, q))
                      /\ CopiesLeft(q) \in Nat
  BY <1>1, CopiesAtCall DEF set_add
<1>3. ASSUME NEW i \in Slots(size), Accepts(members, size, k, i),
             members' = [members EXCEPT ![hash_func(k, size, i)] = k],
             used' = used + 1, ret' = Call("add", k, TRUE)
      PROVE  Promise!Accept(k)
  <2>1. PICK h : h = hash_func(k, size, i)
    OBVIOUS
  <2>2. Stored(members, members', size, h, k)
    BY <1>1, <1>3, <2>1, ProbeStaysInTable DEF Accepts, FirstFree, Stored
  <2>3. /\ Copies(members', size, k) = Copies(members, size, k) \cup {h}
        /\ h \notin Copies(members, size, k)
        /\ \A q \in Keys \ {k} : Copies(members', size, q) = Copies(members, size, q)
    BY <2>2, StoredCopies
  <2>4. IsFiniteSet(Copies(members, size, k))
    BY <1>1, CopiesAreFinite
  <2>5. CopiesLeft(k)' = CopiesLeft(k) + 1
    BY <1>2, <2>3, <2>4, FS_AddElement
  <2>6. \A q \in Keys \ {k} : CopiesLeft(q)' = CopiesLeft(q)
    BY <1>2, <2>3
  <2>7. copies' = [copies EXCEPT ![k] = CopiesLeft(k) + 1]
    BY <2>5, <2>6, BagOverridden
  <2>8. copies' = [copies EXCEPT ![k] = copies[k] + 1]
    BY <2>7
  <2> QED  BY <1>1, <1>3, <2>8 DEF Promise!Accept, Promise!Call, Call
<1>4. ASSUME ret' = Call("add", k, FALSE), NoResize, UNCHANGED <<used, members>>
      PROVE  Promise!Decline(k)
  <2>1. \A q \in Keys : CopiesLeft(q)' = CopiesLeft(q)
    BY <1>2, <1>4
  <2>2. copies' = copies
    BY <2>1, BagUnchanged
  <2> QED  BY <1>1, <1>4, <2>2 DEF Promise!Decline, Promise!Call, Call, NoResize
<1> QED  BY <1>3, <1>4 DEF set_add

LEMMA RemIsRemoveOrMiss ==
    ASSUME IInv, NEW k \in Keys, set_rem(k)
    PROVE  Promise!Remove(k) \/ Promise!Miss(k)
<1> DEFINE copies == [q \in Keys |-> CopiesLeft(q)]
<1>1. /\ size \in Sizes /\ size \in Nat /\ size' = size /\ pc = "idle"
      /\ members \in [Slots(size) -> Slot] /\ GoodSet(members, size)
  BY IdleFacts DEF set_rem, GoodSet
<1>2. \A q \in Keys : /\ CopiesLeft(q) = Cardinality(Copies(members, size, q))
                      /\ CopiesLeft(q)' = Cardinality(Copies(members', size, q))
                      /\ CopiesLeft(q) \in Nat
  BY <1>1, CopiesAtCall DEF set_rem
<1>3. ASSUME NEW i \in Slots(size), Hit(members, size, k, i),
             members' = [members EXCEPT ![hash_func(k, size, i)] = DELETED],
             used' = used - 1, ret' = Call("rem", k, TRUE)
      PROVE  Promise!Remove(k)
  <2>1. PICK h : h = hash_func(k, size, i)
    OBVIOUS
  <2>2. Removed(members, members', size, h, k)
    BY <1>1, <1>3, <2>1, ProbeStaysInTable DEF Hit, Removed
  <2>3. /\ Copies(members', size, k) = Copies(members, size, k) \ {h}
        /\ \A q \in Keys \ {k} : Copies(members', size, q) = Copies(members, size, q)
    BY <2>2, RemovedCopies
  <2>4. h \in Copies(members, size, k) /\ IsFiniteSet(Copies(members, size, k))
    BY <1>1, <2>2, CopiesAreFinite DEF Removed, Copies
  <2>5. CopiesLeft(k)' = CopiesLeft(k) - 1
    BY <1>2, <2>3, <2>4, FS_RemoveElement
  <2>6. CopiesLeft(k) > 0
    <3>1. Cardinality(Copies(members, size, k) \ {h}) \in Nat
      BY <2>4, FS_RemoveElement, FS_CardinalityType
    <3> QED  BY <1>2, <2>3, <2>5, <3>1
  <2>7. \A q \in Keys \ {k} : CopiesLeft(q)' = CopiesLeft(q)
    BY <1>2, <2>3
  <2>8. copies' = [copies EXCEPT ![k] = CopiesLeft(k) - 1]
    BY <2>5, <2>7, BagOverridden
  <2>9. copies' = [copies EXCEPT ![k] = copies[k] - 1] /\ copies[k] > 0
    BY <2>6, <2>8
  <2> QED  BY <1>1, <1>3, <2>9 DEF Promise!Remove, Promise!Call, Call
<1>4. ASSUME ret' = Call("rem", k, FALSE), NoResize, UNCHANGED <<used, members>>,
             ~ set_ismember(members, size, k)
      PROVE  Promise!Miss(k)
  <2>1. \A q \in Keys : CopiesLeft(q)' = CopiesLeft(q)
    BY <1>2, <1>4
  <2>2. copies' = copies
    BY <2>1, BagUnchanged
  <2>3. Copies(members, size, k) = {}
    BY <1>1, <1>4, CopyIsFound DEF Copies
  <2>4. copies[k] = 0
    BY <1>2, <2>3, FS_EmptySet
  <2> QED  BY <1>1, <1>4, <2>2, <2>4 DEF Promise!Miss, Promise!Call, Call, NoResize
<1> QED  BY <1>3, <1>4 DEF set_rem

(* An iteration takes the member in slot scan off those that wait. *)
LEMMA WaitsShrinks ==
    ASSUME IInv, Rehash, NEW k \in Keys
    PROVE  /\ Waits(k)' = Waits(k) \ {scan}
           /\ scan \in Waits(k) <=> members[scan] = k
           /\ IsFiniteSet(Waits(k)) /\ Cardinality(Waits(k)) \in Nat
<1>1. /\ scan' = scan + 1 /\ size' = size /\ members' = members
      /\ scan \in Slots(size) /\ scan \in Nat /\ size \in Nat
  BY RehashFacts
<1>2. Waits(k)' = Copies(members, size, k) \cap (scan + 1) .. size
  BY <1>1 DEF Waits, Copies
<1>3. \A s : s \in (scan + 1) .. size <=> s \in scan .. size /\ s # scan
  BY <1>1
<1>4. scan \in scan .. size
  BY <1>1 DEF Slots
<1>5. IsFiniteSet(Waits(k))
  <2>1. Waits(k) \subseteq Copies(members, size, k)
    BY DEF Waits
  <2> QED  BY <1>1, <2>1, CopiesAreFinite, FS_Subset
<1> QED  BY <1>1, <1>2, <1>3, <1>4, <1>5, FS_CardinalityType DEF Waits, Copies

(* An iteration of the resize loop shows nothing, or drops the copy that it  *)
(* does not store again.                                                     *)
LEMMA RehashIsDropOrNothing ==
    ASSUME IInv, Rehash
    PROVE  (\E k \in Keys : Promise!Drop(k)) \/ UNCHANGED Promise!vars
<1> DEFINE copies == [q \in Keys |-> CopiesLeft(q)]
<1>1. /\ pc = "rehash" /\ pc' = "rehash" /\ used' = used /\ ret' = ret
      /\ newSize' = newSize /\ newSize \in Sizes /\ newSize \in Nat
      /\ newMembers \in [Slots(newSize) -> Slot] /\ members[scan] \in Slot
  BY RehashFacts DEF Rehash, set, GoodSet
<1>2. (pc # "idle") /\ (pc' # "idle") /\ (pc' # "idle") = (pc # "idle")
  BY <1>1
<1>3. \A q \in Keys :
          /\ CopiesLeft(q) = Cardinality(Copies(newMembers, newSize, q)) + Cardinality(Waits(q))
          /\ CopiesLeft(q)' = Cardinality(Copies(newMembers', newSize, q)) + Cardinality(Waits(q)')
          /\ Cardinality(Copies(newMembers, newSize, q)) \in Nat
          /\ Cardinality(Waits(q)) \in Nat
  <2>1. \A q : /\ CopiesLeft(q) = Cardinality(Copies(newMembers, newSize, q)) + Cardinality(Waits(q))
               /\ CopiesLeft(q)' = Cardinality(Copies(newMembers', newSize', q)) + Cardinality(Waits(q)')
    BY DEF CopiesLeft, Waits, Copies
  <2>2. \A q \in Keys : Cardinality(Waits(q)) \in Nat
    BY WaitsShrinks
  <2>3. \A q \in Keys : Cardinality(Copies(newMembers, newSize, q)) \in Nat
    BY <1>1, CopiesAreFinite
  <2> QED  BY <1>1, <2>1, <2>2, <2>3
<1>4. \A q \in Keys : members[scan] # q => Waits(q)' = Waits(q)
  BY WaitsShrinks
<1>5. CASE Free(members[scan]) /\ UNCHANGED newMembers
  <2>1. members[scan] \notin Keys
    BY <1>5, TableAssumption DEF Free
  <2>2. \A q \in Keys : CopiesLeft(q)' = CopiesLeft(q)
    BY <1>3, <1>4, <1>5, <2>1
  <2>3. copies' = copies
    BY <2>2, BagUnchanged
  <2> QED  BY <1>1, <1>2, <2>3 DEF Promise!vars
<1>6. CASE ~ Free(members[scan])
  <2>1. PICK k \in Keys : k = members[scan]
    BY <1>1, <1>6 DEF Free, Slot
  <2>2. scan \in Waits(k) /\ Waits(k)' = Waits(k) \ {scan} /\ IsFiniteSet(Waits(k))
    BY <2>1, WaitsShrinks
  <2>3. /\ Cardinality(Waits(k)') = Cardinality(Waits(k)) - 1
        /\ Cardinality(Waits(k)') \in Nat
    BY <2>2, FS_RemoveElement, FS_CardinalityType
  <2>4. ASSUME NEW i \in Slots(newSize), Accepts(newMembers, newSize, k, i),
               newMembers' = [newMembers EXCEPT ![hash_func(k, newSize, i)] = k]
        PROVE  UNCHANGED Promise!vars
    <3>1. PICK h : h = hash_func(k, newSize, i)
      OBVIOUS
    <3>2. Stored(newMembers, newMembers', newSize, h, k)
      BY <1>1, <2>4, <3>1, ProbeStaysInTable DEF Accepts, FirstFree, Stored
    <3>3. /\ Copies(newMembers', newSize, k) = Copies(newMembers, newSize, k) \cup {h}
          /\ h \notin Copies(newMembers, newSize, k)
          /\ \A q \in Keys \ {k} : Copies(newMembers', newSize, q) = Copies(newMembers, newSize, q)
      BY <3>2, StoredCopies
    <3>4. IsFiniteSet(Copies(newMembers, newSize, k))
      BY <1>1, CopiesAreFinite
    <3>5. CopiesLeft(k)' = CopiesLeft(k)
      <4>1. Cardinality(Copies(newMembers', newSize, k))
                = Cardinality(Copies(newMembers, newSize, k)) + 1
        BY <3>3, <3>4, FS_AddElement
      <4> QED  BY <1>3, <2>3, <4>1
    <3>6. \A q \in Keys : CopiesLeft(q)' = CopiesLeft(q)
      BY <1>3, <1>4, <2>1, <3>3, <3>5
    <3>7. copies' = copies
      BY <3>6, BagUnchanged
    <3> QED  BY <1>1, <1>2, <3>7 DEF Promise!vars
  <2>5. CASE UNCHANGED newMembers
    <3>1. CopiesLeft(k)' = CopiesLeft(k) - 1 /\ CopiesLeft(k) > 0
      BY <1>3, <2>3, <2>5
    <3>2. \A q \in Keys \ {k} : CopiesLeft(q)' = CopiesLeft(q)
      BY <1>3, <1>4, <2>1, <2>5
    <3>3. copies' = [copies EXCEPT ![k] = CopiesLeft(k) - 1]
      BY <3>1, <3>2, BagOverridden
    <3>4. copies' = [copies EXCEPT ![k] = copies[k] - 1] /\ copies[k] > 0
      BY <3>1, <3>3
    <3> QED  BY <1>1, <1>2, <3>4 DEF Promise!Drop
  <2> QED  BY <1>6, <2>1, <2>4, <2>5 DEF Rehash, CopyMember
<1> QED  BY <1>5, <1>6 DEF Rehash

(* The set that takes over has at most one copy of each member. *)
LEMMA FinishIsEndResize ==
    ASSUME IInv, GInv, FinishResize
    PROVE  Promise!EndResize
<1> DEFINE copies == [q \in Keys |-> CopiesLeft(q)]
<1>1. /\ pc = "rehash" /\ pc' = "idle" /\ scan = size /\ scan' = 0
      /\ size' = newSize /\ members' = newMembers /\ newSize' = 0
      /\ used' = used /\ ret' = ret /\ size \in Nat /\ newSize \in Nat
  BY IdleFacts DEF FinishResize, IInv, Shape
<1>2. ASSUME NEW q \in Keys
      PROVE  CopiesLeft(q)' = CopiesLeft(q) /\ CopiesLeft(q) <= 1
  <2>1. Copies(members, size, q) \cap scan .. size = {}
    BY <1>1 DEF Copies, Slots
  <2>2. /\ Copies(newMembers', newSize', q) = {}
        /\ Copies(members', size', q) \cap scan' .. size' = Copies(newMembers, newSize, q)
    BY <1>1 DEF Copies, Slots
  <2>3. /\ Cardinality(Copies(newMembers, newSize, q)) \in Nat
        /\ Cardinality(Copies(newMembers, newSize, q)) <= 1
    BY <1>1, CopiesAreFinite, FreshMeansOnce DEF GInv
  <2>4. CopiesLeft(q) = Cardinality(Copies(newMembers, newSize, q)) + Cardinality({})
    BY <2>1 DEF CopiesLeft
  <2>5. CopiesLeft(q)' = Cardinality({}) + Cardinality(Copies(newMembers, newSize, q))
    <3>1. CopiesLeft(q)' = Cardinality(Copies(newMembers', newSize', q))
                               + Cardinality(Copies(members', size', q) \cap scan' .. size')
      BY DEF CopiesLeft, Copies
    <3> QED  BY <2>2, <3>1
  <2> QED  BY <2>3, <2>4, <2>5, FS_EmptySet
<1>3. copies' = copies
  BY <1>2, BagUnchanged
<1>4. \A q \in Keys : copies[q] <= 1
  BY <1>2
<1>5. (pc # "idle") /\ (pc' # "idle") = FALSE
  BY <1>1
<1> QED  BY <1>1, <1>3, <1>4, <1>5 DEF Promise!EndResize

(* set_init leaves the empty bag. *)
LEMMA InitIsEmptyBag == Init => Promise!Init
<1> SUFFICES ASSUME Init PROVE Promise!Init
  OBVIOUS
<1>1. size \in Nat
  BY InitEstablishesIInv, IdleFacts
<1>2. ASSUME NEW q \in Keys PROVE CopiesLeft(q) = 0
  <2>1. \A n : Copies(EmptyTable(n), n, q) = {}
    BY TableAssumption DEF Copies, EmptyTable
  <2>2. CopiesLeft(q) = Cardinality({}) + Cardinality({})
    BY <2>1 DEF Init, CopiesLeft
  <2> QED  BY <2>2, FS_EmptySet
<1>3. [q \in Keys |-> CopiesLeft(q)] = [q \in Keys |-> 0]
  BY <1>2
<1> QED  BY <1>3 DEF Init, Promise!Init, Promise!Call, Call

(* Every step of the slots is a step of the bag. *)
LEMMA StepIsBagStep == IInv /\ GInv /\ [Next]_vars => [Promise!Next]_(Promise!vars)
<1> SUFFICES ASSUME IInv, GInv, [Next]_vars PROVE [Promise!Next]_(Promise!vars)
  OBVIOUS
<1>1. ASSUME NEW k \in Keys, set_add(k) PROVE Promise!Next
  BY <1>1, AddIsAcceptOrDecline DEF Promise!Next
<1>2. ASSUME NEW k \in Keys, set_rem(k) PROVE Promise!Next
  BY <1>2, RemIsRemoveOrMiss DEF Promise!Next
<1>3. CASE Rehash
  BY <1>3, RehashIsDropOrNothing DEF Promise!Next
<1>4. CASE FinishResize
  BY <1>4, FinishIsEndResize DEF Promise!Next
<1>5. CASE UNCHANGED vars
  BY <1>5 DEF vars, set, newSet, Promise!vars, CopiesLeft, Copies
<1> QED  BY <1>1, <1>2, <1>3, <1>4, <1>5 DEF Next

(* The slots of set.c implement the bag of Membership: whatever the strings  *)
(* hash to, SADD and SREM answer and count as a bag does, and a resize ends  *)
(* with one copy of a member at most.                                        *)
THEOREM Refinement == Spec => RefinesMembership
BY InitIsEmptyBag, StepIsBagStep, InitIsFresh, StepKeepsGInv, Invariance, PTL
   DEF Spec, RefinesMembership, Promise!Spec
=============================================================================
