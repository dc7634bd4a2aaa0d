-------------------------- MODULE OpenAddressing --------------------------
(***************************************************************************)
(* What the hash tables of src/htable.c and src/set.c share: an array of   *)
(* slots, each NULL, a tombstone or occupied, that is probed along the     *)
(* sequence hash_func(key, n, 0), hash_func(key, n, 1), ... and resized    *)
(* when its load leaves 10% .. 70%.                                        *)
(***************************************************************************)
EXTENDS Hashing, FiniteSets

CONSTANTS NULL,          \* the null pointer
          DELETED,       \* the address of HT_DELETED or SET_DELETED, the tombstone
          HT_BASE_SIZE,  \* the size a table starts with and the least it shrinks to
          MaxSize        \* bound: no table of more slots is created

ASSUME TableAssumption ==
    /\ NULL # DELETED /\ NULL \notin Keys /\ DELETED \notin Keys
    /\ HT_BASE_SIZE \in Nat /\ HT_BASE_SIZE >= 2
    /\ MaxSize \in Nat /\ MaxSize >= 2 * HT_BASE_SIZE
    /\ MaxSize * MaxSize <= IntMax /\ MaxSize * 100 <= IntMax

(* Bertrand's postulate, for the sizes that a table may ask for. *)
ASSUME PrimeAssumption ==
    \A x \in 2 .. 2 * MaxSize : \E p \in x .. 2 * x : IsNextPrime(x, p)

Slots(n) == 0 .. (n - 1)
EmptyTable(n) == [s \in Slots(n) |-> NULL]

(* cur_item == NULL || is_deleted(cur_item) *)
Free(slot) == slot \in {NULL, DELETED}

LiveSlots(tab, n) == {s \in Slots(n) : ~ Free(tab[s])}

(* The probe loop of an insert stops at index i with a slot it may use. *)
FirstFree(tab, n, k, i) ==
    /\ Free(tab[hash_func(k, n, i)])
    /\ \A j \in 0 .. (i - 1) : ~ Free(tab[hash_func(k, n, j)])

(* The probe loop of an insert ends without a slot. *)
Blocked(tab, n, k) == \A i \in Slots(n) : ~ Free(tab[hash_func(k, n, i)])

(* The load of a table in percent, by C's integer division. *)
Load(u, n) == (u * 100) \div n
=============================================================================
