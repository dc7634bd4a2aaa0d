------------------------------ MODULE HashKey ------------------------------
(***************************************************************************)
(* One key of the server's table that holds a hash: HSET, HDEL and HGETALL *)
(* (exec_hset, exec_hdel and htable_hset, htable_hdel, htable_hgetall) on  *)
(* the slots of the hash's own table, which is the table of HashTable.     *)
(*                                                                         *)
(* Of the server's table only the one key is there.  Its insert may be     *)
(* refused, and a resize that another command starts may lose it; that is  *)
(* what HashTable found, once more one level up.  A command takes one step *)
(* per call of its loop and the steps of the resizes that a call starts.   *)
(***************************************************************************)
EXTENDS HashTable, Sequences

CONSTANT MaxItems   \* bound: the fields a command names

ASSUME HashKeyAssumption == MaxItems \in Nat

VARIABLES present,   \* whether the key is in the server's table
          cmd,       \* the command in progress: its name and the fields left
          deleted,   \* htable_hdel is between its htable_del and its look at used
          oks,       \* what the loop has added up
          before,    \* history: the fields, and lost, when the command began
          refused,   \* history: the inserts of the command that were refused
          lost       \* history: the fields that resizes of this hash have lost

outer == <<present, cmd, deleted, oks, before, refused, lost>>
allVars == <<vars, outer>>

NoCommand == [op |-> "none", fields |-> <<>>]
Count == IF present THEN Cardinality(LiveSlots(items, size)) ELSE 0
Bit(b) == IF b THEN 1 ELSE 0

InitKey ==
    /\ Init
    /\ present = FALSE /\ cmd = NoCommand /\ deleted = FALSE /\ oks = 0
    /\ before = [count |-> 0, lost |-> 0] /\ refused = 0 /\ lost = 0

-----------------------------------------------------------------------------
(* The fresh table of htable_init, or the memory that item_free leaves.      *)
FreshTable ==
    /\ size' = next_prime(HT_BASE_SIZE) /\ used' = 0
    /\ items' = EmptyTable(size')
    /\ pc' = "idle" /\ ret' = Call("none", NULL, FALSE)
    /\ UNCHANGED newTable

(* htable_del of the key in the server's table. *)
DeleteKey == present' = FALSE /\ lost' = 0 /\ FreshTable

Ready == pc = "idle" /\ ~ deleted

(* exec_hset and exec_hdel up to the loop. *)
Begin(op, fields) ==
    /\ Ready /\ cmd = NoCommand
    /\ cmd' = [op |-> op, fields |-> fields]
    /\ before' = [count |-> Count, lost |-> lost]
    /\ UNCHANGED <<vars, present, deleted, oks, refused, lost>>

NextField(op, f) == Ready /\ cmd.op = op /\ cmd.fields # <<>> /\ f = Head(cmd.fields)

Advance(res) ==
    /\ cmd' = [cmd EXCEPT !.fields = Tail(@)]
    /\ oks' = oks + Bit(res)
    /\ UNCHANGED before

(* htable_update_hash: htable_set on the hash's table, which may refuse.     *)
UpdateHash(f) ==
    /\ present
    /\ \E v \in Values : htable_set(f, v)
    /\ refused' = refused + Bit(ret'.res /\ ~ (\E s \in Slots(size) : Holds(items'[s], f)))
    /\ Advance(ret'.res)
    /\ UNCHANGED <<present, deleted, lost>>

(* htable_init, htable_set, and an htable_insert of the key, which may be    *)
(* refused; the answer is true, whatever happened.                           *)
CreateHash(f) ==
    /\ ~ present
    /\ \/ /\ \E v \in Values : htable_set(f, v)
          /\ present' = TRUE /\ UNCHANGED refused
       \/ /\ present' = FALSE /\ refused' = refused + 1
          /\ UNCHANGED vars
    /\ Advance(TRUE)
    /\ UNCHANGED <<deleted, lost>>

htable_hset(f) == NextField("hset", f) /\ (UpdateHash(f) \/ CreateHash(f))

(* htable_hdel up to its look at used; no field of a missing key is there.   *)
htable_hdel(f) ==
    /\ NextField("hdel", f)
    /\ \/ /\ present
          /\ htable_del(f)
          /\ deleted' = TRUE
          /\ Advance(ret'.res)
       \/ /\ ~ present
          /\ Advance(FALSE)
          /\ UNCHANGED <<vars, deleted>>
    /\ UNCHANGED <<present, refused, lost>>

(* Broken variant: the key goes with the last field but one. *)
LookAtUsed_early ==
    /\ pc = "idle" /\ deleted /\ deleted' = FALSE
    /\ IF used <= 1 THEN DeleteKey ELSE UNCHANGED <<vars, present, lost>>
    /\ UNCHANGED <<cmd, oks, before, refused>>

(* After htable_del, and the resize it may have started, has returned. *)
LookAtUsed ==
    /\ pc = "idle" /\ deleted /\ deleted' = FALSE
    /\ IF used = 0 THEN DeleteKey ELSE UNCHANGED <<vars, present, lost>>
    /\ UNCHANGED <<cmd, oks, before, refused>>

(* The reply is oks. *)
Finish ==
    /\ Ready /\ cmd # NoCommand /\ cmd.fields = <<>>
    /\ cmd' = NoCommand
    /\ oks' = 0 /\ before' = [count |-> 0, lost |-> 0] /\ refused' = 0
    /\ UNCHANGED <<vars, present, deleted, lost>>

(* DEL of the key, or its loss in a resize of the server's table. *)
KeyGoes ==
    /\ Ready /\ cmd = NoCommand /\ present
    /\ DeleteKey
    /\ UNCHANGED <<cmd, deleted, oks, before, refused>>

(* A step of a resize of the hash's table. *)
ResizeStep ==
    /\ \/ Rehash /\ lost' = lost + Bit(~ Free(items[scan]) /\ newItems' = newItems)
       \/ FinishResize /\ UNCHANGED lost
    /\ UNCHANGED <<present, cmd, deleted, oks, before, refused>>

CallStep ==
    \/ \E f \in Keys : htable_hset(f) \/ htable_hdel(f)
    \/ LookAtUsed \/ Finish \/ ResizeStep

FieldSequences == UNION {[1 .. n -> Keys] : n \in 1 .. MaxItems}

NextKey ==
    \/ \E op \in {"hset", "hdel"}, fields \in FieldSequences : Begin(op, fields)
    \/ CallStep \/ KeyGoes

SpecKey == InitKey /\ [][NextKey]_allVars

-----------------------------------------------------------------------------
(* The loop over the slots ends with the array when it has collected used    *)
(* fields, and with NULL after the last slot.                                *)
Collected(s) == {t \in 0 .. s : ~ Free(items[t])}

htable_hgetall ==
    LET ends == {s \in Slots(size) : Cardinality(Collected(s)) = used}
    IN  IF ~ present \/ ends = {} THEN {}
        ELSE {items[t].key : t \in Collected(CHOOSE s \in ends : \A r \in ends : s <= r)}

Fields == {f \in Keys : present /\ htable_exists(items, size, f)}
-----------------------------------------------------------------------------
(* HGETALL answers every field that HGET finds or, when resizes have lost    *)
(* some, none; it never fills more of its array than was allocated.          *)
HgetallAllOrNothing ==
    Ready /\ present =>
        /\ htable_hgetall = IF lost = 0 THEN Fields ELSE {}
        /\ Cardinality(LiveSlots(items, size)) <= used

(* used, which HLEN answers and HDEL decides by, exceeds the number of       *)
(* fields by those that resizes have lost, and by nothing else.  So the key  *)
(* goes with its last field unless a field was lost before.                  *)
UsedIsExact ==
    pc = "idle" => used = Cardinality(LiveSlots(items, size)) + lost

(* HSET answers the fields that came and HDEL those that went, over the      *)
(* whole loop, where the key may come or go and the table be resized on the  *)
(* way; the refused and the lost are the only difference.                    *)
RepliesAccount ==
    [][Finish =>
        LET missed == refused + (lost - before.lost)
        IN  Count = IF cmd.op = "hset" THEN before.count + oks - missed
                    ELSE before.count - oks - missed]_allVars

(* internal-structures.md: "When HDEL removes the last field, the entire     *)
(* hash key is deleted".                                                     *)
EmptyHashIsDeleted == Ready /\ present => LiveSlots(items, size) # {}
=============================================================================
