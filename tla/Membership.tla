---------------------------- MODULE Membership ----------------------------
(***************************************************************************)
(* What a client of set.c is promised: a bag of members.  An add takes one *)
(* copy more or declines, a removal takes one copy and answers whether     *)
(* there was one.  A resize drops copies without counting them, down to at *)
(* most one of each member before the next call is served.  Nothing else   *)
(* may go wrong.                                                           *)
(***************************************************************************)
EXTENDS Integers

CONSTANTS Keys, Nobody

VARIABLES copies,    \* [Keys -> Nat], how often a member is stored
          used,      \* how many adds were accepted and not taken back by a removal
          last,      \* the last call and the boolean it returned
          resizing   \* a resize is under way, no call is served

vars == <<copies, used, last, resizing>>

Call(op, k, res) == [op |-> op, key |-> k, res |-> res]

Init ==
    /\ copies = [k \in Keys |-> 0] /\ used = 0
    /\ last = Call("none", Nobody, FALSE)
    /\ resizing = FALSE

Accept(k) ==
    /\ ~ resizing
    /\ copies' = [copies EXCEPT ![k] = copies[k] + 1]
    /\ used' = used + 1
    /\ last' = Call("add", k, TRUE)
    /\ resizing' \in BOOLEAN

(* The member is there, or there is no room for it. *)
Decline(k) ==
    /\ ~ resizing
    /\ last' = Call("add", k, FALSE)
    /\ UNCHANGED <<copies, used, resizing>>

Remove(k) ==
    /\ ~ resizing
    /\ copies[k] > 0
    /\ copies' = [copies EXCEPT ![k] = copies[k] - 1]
    /\ used' = used - 1
    /\ last' = Call("rem", k, TRUE)
    /\ resizing' \in BOOLEAN

Miss(k) ==
    /\ ~ resizing
    /\ copies[k] = 0
    /\ last' = Call("rem", k, FALSE)
    /\ UNCHANGED <<copies, used, resizing>>

Drop(k) ==
    /\ resizing
    /\ copies[k] > 0
    /\ copies' = [copies EXCEPT ![k] = copies[k] - 1]
    /\ UNCHANGED <<used, last, resizing>>

EndResize ==
    /\ resizing
    /\ \A k \in Keys : copies[k] <= 1
    /\ resizing' = FALSE
    /\ UNCHANGED <<copies, used, last>>

Next ==
    \/ \E k \in Keys : Accept(k) \/ Decline(k) \/ Remove(k) \/ Miss(k) \/ Drop(k)
    \/ EndResize

Spec == Init /\ [][Next]_vars
=============================================================================
