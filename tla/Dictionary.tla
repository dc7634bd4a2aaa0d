---------------------------- MODULE Dictionary ----------------------------
(***************************************************************************)
(* What a client of htable.c is promised: a map from keys to values, with  *)
(* the answer of the last call and a count of the keys, except that a Put  *)
(* of a new key may be refused although it answers as if it were stored,   *)
(* and that a resize may lose keys, which are counted on.  Nothing else    *)
(* may go wrong.                                                           *)
(***************************************************************************)
EXTENDS Integers

CONSTANTS Keys, Values, Absent

VARIABLES dict,      \* [Keys -> Values \cup {Absent}]
          used,      \* how many keys were stored and not removed since
          last,      \* the last call and the boolean it returned
          resizing   \* a resize is under way, no call is served

vars == <<dict, used, last, resizing>>

Call(op, k, res) == [op |-> op, key |-> k, res |-> res]

Init ==
    /\ dict = [k \in Keys |-> Absent] /\ used = 0
    /\ last = Call("none", Absent, FALSE)
    /\ resizing = FALSE

(* Storing answers TRUE for a new key and FALSE for an update. *)
Put(k, v) ==
    /\ ~ resizing
    /\ dict' = [dict EXCEPT ![k] = v]
    /\ used' = IF dict[k] = Absent THEN used + 1 ELSE used
    /\ last' = Call("set", k, dict[k] = Absent)
    /\ resizing' \in BOOLEAN

(* A new key is not stored although the answer says that it was. *)
Refuse(k) ==
    /\ ~ resizing
    /\ dict[k] = Absent
    /\ last' = Call("set", k, TRUE)
    /\ UNCHANGED <<dict, used, resizing>>

(* Removing answers whether the key was there. *)
Remove(k) ==
    /\ ~ resizing
    /\ dict' = [dict EXCEPT ![k] = Absent]
    /\ used' = IF dict[k] = Absent THEN used ELSE used - 1
    /\ last' = Call("del", k, dict[k] # Absent)
    /\ resizing' \in BOOLEAN

ResizeStep ==
    /\ resizing
    /\ resizing' \in BOOLEAN
    /\ UNCHANGED <<dict, used, last>>

Lose(k) ==
    /\ resizing
    /\ dict' = [dict EXCEPT ![k] = Absent]
    /\ UNCHANGED <<used, last, resizing>>

Next ==
    \/ \E k \in Keys : Remove(k) \/ Refuse(k) \/ Lose(k) \/ \E v \in Values : Put(k, v)
    \/ ResizeStep

Spec == Init /\ [][Next]_vars
=============================================================================
