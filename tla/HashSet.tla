------------------------------ MODULE HashSet ------------------------------
(***************************************************************************)
(* The set of src/set.c: a table of member strings.  Unlike htable_set,    *)
(* set_add does not look the member up first: it stores it in the first    *)
(* slot of its probe sequence that is NULL or a tombstone, unless it meets *)
(* the member before.  A resize adds every member to a new set.            *)
(*                                                                         *)
(* Actions are as in HashTable: one per call, and one per iteration of the *)
(* loop of set_resize.                                                     *)
(***************************************************************************)
EXTENDS OpenAddressing

VARIABLES size, used, members,             \* the set the server holds
          newSize, newUsed, newMembers,    \* new_st, the set a resize fills
          scan,                            \* i, the next slot the resize copies
          pc,                              \* "idle", "rehash" or "nested"
          ret                              \* the last call and what it returned

set == <<size, used, members>>
newSet == <<newSize, newUsed, newMembers, scan>>
vars == <<set, newSet, pc, ret>>

-----------------------------------------------------------------------------
(* The probe loop of set_ismember and set_rem stops at index i with a match. *)
Hit(tab, n, k, i) ==
    /\ tab[hash_func(k, n, i)] = k
    /\ \A j \in 0 .. (i - 1) : tab[hash_func(k, n, j)] \notin {NULL, k}

set_ismember(tab, n, k) == \E i \in Slots(n) : Hit(tab, n, k, i)

(* Broken variant: the loop does not compare the members that it passes. *)
Accepts_blind(tab, n, k, i) == FirstFree(tab, n, k, i)

(* The probe loop of set_add stops at index i without having met k. *)
Accepts(tab, n, k, i) ==
    /\ FirstFree(tab, n, k, i)
    /\ \A j \in 0 .. (i - 1) : tab[hash_func(k, n, j)] # k

Call(op, k, res) == [op |-> op, key |-> k, res |-> res]

Init ==
    /\ size = next_prime(HT_BASE_SIZE)
    /\ used = 0
    /\ members = EmptyTable(size)
    /\ newSize = 0 /\ newUsed = 0 /\ newMembers = EmptyTable(0) /\ scan = 0
    /\ pc = "idle"
    /\ ret = Call("none", NULL, FALSE)

-----------------------------------------------------------------------------
NoResize == pc' = "idle" /\ UNCHANGED newSet

(* Broken variant: the loop starts at slot 1. *)
StartResize_late(n) ==
    IF n < HT_BASE_SIZE
    THEN NoResize
    ELSE /\ next_prime(n) <= MaxSize
         /\ pc' = "rehash"
         /\ newSize' = next_prime(n) /\ newUsed' = 0
         /\ newMembers' = EmptyTable(newSize')
         /\ scan' = 1

(* set_resize(set, n) up to the head of its loop. *)
StartResize(n) ==
    IF n < HT_BASE_SIZE
    THEN NoResize
    ELSE /\ next_prime(n) <= MaxSize
         /\ pc' = "rehash"
         /\ newSize' = next_prime(n) /\ newUsed' = 0
         /\ newMembers' = EmptyTable(newSize')
         /\ scan' = 0

(* Broken variant: the set grows only when it is more than full. *)
set_resize_up_full(u) == IF Load(u, size) > 100 THEN StartResize(2 * size) ELSE NoResize

set_resize_up(u) == IF Load(u, size) > 70 THEN StartResize(2 * size) ELSE NoResize
set_resize_down(u) == IF Load(u, size) < 10 THEN StartResize(size \div 2) ELSE NoResize

(* FALSE is the answer for a member that was met and for a full probe path. *)
set_add(k) ==
    /\ pc = "idle"
    /\ UNCHANGED size
    /\ \/ /\ \E i \in Slots(size) :
                /\ Accepts(members, size, k, i)
                /\ members' = [members EXCEPT ![hash_func(k, size, i)] = k]
          /\ used' = used + 1
          /\ set_resize_up(used')
          /\ ret' = Call("add", k, TRUE)
       \/ /\ ~ \E i \in Slots(size) : Accepts(members, size, k, i)
          /\ ret' = Call("add", k, FALSE)
          /\ NoResize
          /\ UNCHANGED <<used, members>>

(* Broken variants: the slot of the member becomes NULL, and used is         *)
(* decremented whether or not the member is found.                           *)
set_rem_null(k) ==
    /\ pc = "idle"
    /\ set_ismember(members, size, k)
    /\ members' = [s \in Slots(size) |-> IF members[s] = k THEN NULL ELSE members[s]]
    /\ used' = used - 1
    /\ set_resize_down(used')
    /\ ret' = Call("rem", k, TRUE)
    /\ UNCHANGED size
set_rem_uncounted(k) ==
    /\ pc = "idle"
    /\ ~ set_ismember(members, size, k)
    /\ used' = used - 1
    /\ ret' = Call("rem", k, FALSE)
    /\ NoResize
    /\ UNCHANGED <<size, members>>

set_rem(k) ==
    /\ pc = "idle"
    /\ UNCHANGED size
    /\ \/ /\ \E i \in Slots(size) :
                /\ Hit(members, size, k, i)
                /\ members' = [members EXCEPT ![hash_func(k, size, i)] = DELETED]
          /\ used' = used - 1
          /\ set_resize_down(used')
          /\ ret' = Call("rem", k, TRUE)
       \/ /\ ~ set_ismember(members, size, k)
          /\ ret' = Call("rem", k, FALSE)
          /\ NoResize
          /\ UNCHANGED <<used, members>>

-----------------------------------------------------------------------------
(* set_add(new_st, ...) of the member in slot scan; pc = "nested" stands for *)
(* a resize of new_st in turn, which has no further steps here.              *)
CopyMember ==
    LET k == members[scan] IN
    \/ /\ \E i \in Slots(newSize) :
            /\ Accepts(newMembers, newSize, k, i)
            /\ newMembers' = [newMembers EXCEPT ![hash_func(k, newSize, i)] = k]
       /\ newUsed' = newUsed + 1
       /\ pc' = IF Load(newUsed', newSize) > 70 THEN "nested" ELSE "rehash"
    \/ /\ ~ \E i \in Slots(newSize) : Accepts(newMembers, newSize, k, i)
       /\ UNCHANGED <<newMembers, newUsed, pc>>

(* Broken variant: the loop passes over free slots only. *)
Rehash_stuck ==
    /\ pc = "rehash" /\ scan < size
    /\ Free(members[scan])
    /\ scan' = scan + 1
    /\ UNCHANGED <<set, newSize, newUsed, newMembers, pc, ret>>

(* One iteration of the loop of set_resize; the old members stay allocated. *)
Rehash ==
    /\ pc = "rehash" /\ scan < size
    /\ \/ ~ Free(members[scan]) /\ CopyMember
       \/ Free(members[scan]) /\ UNCHANGED <<newMembers, newUsed, pc>>
    /\ scan' = scan + 1
    /\ UNCHANGED <<set, newSize, ret>>

(* Broken variant: the loop ends one slot early. *)
FinishResize_early ==
    /\ pc = "rehash" /\ scan = size - 1
    /\ size' = newSize /\ members' = newMembers
    /\ newSize' = 0 /\ newUsed' = 0 /\ newMembers' = EmptyTable(0) /\ scan' = 0
    /\ pc' = "idle"
    /\ UNCHANGED <<used, ret>>

(* The sets swap their size and members, not their used; the old is freed. *)
FinishResize ==
    /\ pc = "rehash" /\ scan = size
    /\ size' = newSize /\ members' = newMembers
    /\ newSize' = 0 /\ newUsed' = 0 /\ newMembers' = EmptyTable(0) /\ scan' = 0
    /\ pc' = "idle"
    /\ UNCHANGED <<used, ret>>

Next ==
    \/ \E k \in Keys : set_add(k) \/ set_rem(k)
    \/ Rehash
    \/ FinishResize

Spec == Init /\ [][Next]_vars

(* The resize loop is straight-line code of the one server thread. *)
FairSpec == Spec /\ WF_vars(Rehash \/ FinishResize)

-----------------------------------------------------------------------------
(* Type invariant. *)
TypeOK ==
    /\ size \in HT_BASE_SIZE .. MaxSize /\ used \in 0 .. MaxSize
    /\ members \in [Slots(size) -> Keys \cup {NULL, DELETED}]
    /\ newSize \in 0 .. MaxSize /\ newUsed \in 0 .. newSize
    /\ newMembers \in [Slots(newSize) -> Keys \cup {NULL, DELETED}]
    /\ scan \in 0 .. size
    /\ pc \in {"idle", "rehash", "nested"}
    /\ ret \in [op : {"none", "add", "rem"}, key : Keys \cup {NULL}, res : BOOLEAN]

(* The copies of k in a table. *)
Copies(tab, n, k) == {s \in Slots(n) : tab[s] = k}

(* set_ismember answers TRUE for every member that is in some slot, although *)
(* a member may be in several: no NULL slot cuts the path to the first copy. *)
MembersAreFound ==
    \A k \in Keys : /\ Copies(members, size, k) # {} => set_ismember(members, size, k)
                    /\ Copies(newMembers, newSize, k) # {} =>
                           set_ismember(newMembers, newSize, k)

(* A second copy of a member appears only where set_add reuses a tombstone;  *)
(* a resize, whose new table has no tombstones, keeps one copy of each.      *)
DuplicatesReuseTombstones ==
    [][\A k \in Keys :
        LET before == Cardinality(Copies(members, size, k))
            after  == Cardinality(Copies(members, size, k)')
        IN  after > 1 /\ after > before =>
                \E s \in Slots(size) : members[s] = DELETED /\ members'[s] = k]_vars

(* used never falls below the number of occupied slots, and the load limit   *)
(* leaves a free slot between calls; new_st is never resized while filled.   *)
UsedBounds ==
    /\ Cardinality(LiveSlots(members, size)) <= used
    /\ pc = "idle" => Load(used, size) <= 70
    /\ pc # "nested"

(* Membership as a caller sees it between calls, and during a resize what    *)
(* has been copied or is still to be copied.                                 *)
IsMember(k) ==
    \/ set_ismember(newMembers, newSize, k)
    \/ \E s \in scan .. (size - 1) : members[s] = k

(* A string becomes a member only by an add that answers TRUE, and ceases to *)
(* be one only by a removal that answers TRUE or, in a resize, if its step   *)
(* in the new table is 0.                                                    *)
MembershipChanges ==
    [][\A k \in Keys :
        /\ ~ IsMember(k) /\ IsMember(k)' => pc = "idle" /\ ret' = Call("add", k, TRUE)
        /\ IsMember(k) /\ ~ IsMember(k)' =>
               \/ pc = "idle" /\ ret' = Call("rem", k, TRUE)
               \/ pc = "rehash" /\ Step(k, newSize) = 0]_vars

(* The copies of k, during a resize those that were copied and those that    *)
(* are still to be copied.                                                   *)
CopiesLeft(k) ==
    Cardinality(Copies(newMembers, newSize, k))
        + Cardinality(Copies(members, size, k) \cap scan .. size)

Promise == INSTANCE Membership WITH
    Nobody <- NULL, copies <- [k \in Keys |-> CopiesLeft(k)],
    last <- ret, resizing <- pc # "idle"

(* The slots implement a bag of members: set_rem answers TRUE as long as a   *)
(* copy is left and takes one, used counts what was accepted, and a resize   *)
(* leaves one copy of each member at most, so that SADD and SREM are those   *)
(* of a set again until the next tombstone is reused.                        *)
RefinesMembership == Promise!Spec

(* A resize ends and the set serves calls again. *)
ResizeEnds == pc # "idle" ~> pc = "idle"

(* internal-structures.md: "Uniqueness guaranteed through hash-based storage". *)
NoDuplicates == \A k \in Keys : Cardinality(Copies(members, size, k)) <= 1
=============================================================================
