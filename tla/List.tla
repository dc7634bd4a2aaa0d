-------------------------------- MODULE List --------------------------------
(***************************************************************************)
(* The doubly linked list of src/list.c, at the level of its pointers, and *)
(* the list commands of a key that holds a list.  (Which type a key has,   *)
(* and how many arguments a command got, is decided before a list is       *)
(* touched and is no part of this module.)                                 *)
(*                                                                         *)
(* A call is one action, except for the two loops that free nodes while    *)
(* they walk the list: list_rem (pc = "rem") and list_free (pc = "free")   *)
(* take one action per iteration.  A key whose list gets empty is deleted, *)
(* and its next push allocates a new list: an empty list stands for both.  *)
(***************************************************************************)
EXTENDS Integers, Sequences, FiniteSets

CONSTANTS Nodes,       \* bound: the addresses malloc may give to a ListNode
          Values,      \* the strings in a list
          Ids,         \* the indices that commands name
          Counts,      \* the counts that LREM is called with
          NULL,        \* the null pointer
          OK,          \* the answer of LSET
          RangeError   \* "-ERR value is not an integer or out of range"

ASSUME ListAssumption ==
    /\ IsFiniteSet(Nodes) /\ NULL \notin Nodes /\ NULL \notin Values
    /\ Ids \subseteq Int /\ Counts \subseteq Int

Pointer == Nodes \cup {NULL}
Node == [value : Values \cup {NULL}, next : Pointer, prev : Pointer]
Freed == [value |-> NULL, next |-> NULL, prev |-> NULL]

VARIABLES len, head, tail,   \* the fields of List
          node,              \* [Nodes -> Node], the memory
          owned,             \* the nodes allocated for the list and not yet freed
          pc,                \* "idle", "rem" or "free"
          cur, count, pos,   \* locals of list_rem; list_free has a cur too
          arg, i,            \* list_rem: the value to remove, and how many were
          before,            \* the elements when the running loop began
          ret                \* the last call, its arguments and its reply

list == <<len, head, tail, node, owned>>
locals == <<cur, count, pos, arg, i, before>>
vars == <<list, locals, pc, ret>>

Return(op, a, res) == ret' = [op |-> op, arg |-> a, res |-> res]

-----------------------------------------------------------------------------
(* The walk "while (i++ < id && cur != NULL) cur = cur->next" from the head. *)
list_index(id) ==
    LET at[j \in 0 .. id] ==
            IF j = 0 THEN head
            ELSE IF at[j - 1] = NULL THEN NULL ELSE node[at[j - 1]].next
    IN  IF id < 0 THEN head ELSE at[id]

(* The elements, front first. *)
Elements == [j \in 1 .. len |-> node[list_index(j - 1)].value]

(* htable_check_id and htable_check_ids, for a list that is there: a negative *)
(* index counts from the end.                                                 *)
FromFront(id) == IF id < 0 THEN len + id ELSE id
check_id(id) == FromFront(id) >= 0 /\ FromFront(id) < len
check_ids(begin, end) ==
    FromFront(begin) <= FromFront(end) /\ check_id(begin) /\ check_id(end)

Idle(op, a, res) == pc = "idle" /\ Return(op, a, res) /\ UNCHANGED <<pc, locals>>

Init ==
    /\ len = 0 /\ head = NULL /\ tail = NULL
    /\ node = [n \in Nodes |-> Freed] /\ owned = {}
    /\ pc = "idle" /\ cur = NULL /\ count = 0 /\ pos = 0 /\ arg = NULL /\ i = 0
    /\ before = <<>>
    /\ ret = [op |-> "none", arg |-> <<>>, res |-> <<>>]

-----------------------------------------------------------------------------
list_lpush(v) ==
    /\ Idle("lpush", <<v>>, <<len + 1>>)
    /\ \E n \in Nodes \ owned :
        /\ owned' = owned \cup {n}
        /\ head' = n
        /\ IF len > 0
           THEN /\ node' = [node EXCEPT
                        ![n] = [value |-> v, next |-> head, prev |-> NULL],
                        ![head].prev = n]
                /\ UNCHANGED tail
           ELSE /\ node' = [node EXCEPT ![n] = [Freed EXCEPT !.value = v]]
                /\ tail' = n
    /\ len' = len + 1

list_rpush(v) ==
    /\ Idle("rpush", <<v>>, <<len + 1>>)
    /\ \E n \in Nodes \ owned :
        /\ owned' = owned \cup {n}
        /\ tail' = n
        /\ IF len > 0
           THEN /\ node' = [node EXCEPT
                        ![n] = [value |-> v, next |-> NULL, prev |-> tail],
                        ![tail].next = n]
                /\ UNCHANGED head
           ELSE /\ node' = [node EXCEPT ![n] = [Freed EXCEPT !.value = v]]
                /\ head' = n
    /\ len' = len + 1

(* The caller gets the popped node; nothing of the list leads to it.         *)
Pop(op, n) ==
    /\ Idle(op, <<>>, <<node[n].value>>)
    /\ len' = len - 1
    /\ owned' = owned \ {n}

(* Broken variant: the length is decremented before it is looked at. *)
PopEmpty_counted(op) ==
    len <= 0 /\ Idle(op, <<>>, <<NULL>>) /\ len' = len - 1 /\ UNCHANGED <<head, tail, node, owned>>

PopEmpty(op) == len <= 0 /\ Idle(op, <<>>, <<NULL>>) /\ UNCHANGED list

PopLast(op, n) ==
    /\ len = 1
    /\ Pop(op, n)
    /\ head' = NULL /\ tail' = NULL
    /\ node' = [node EXCEPT ![n] = Freed]

(* Broken variant: the new head keeps its way back to the popped node. *)
list_lpop_linked ==
    /\ len > 1
    /\ Pop("lpop", head)
    /\ head' = node[head].next
    /\ node' = [node EXCEPT ![head] = Freed]
    /\ UNCHANGED tail

list_lpop ==
    \/ PopEmpty("lpop")
    \/ PopLast("lpop", head)
    \/ /\ len > 1
       /\ Pop("lpop", head)
       /\ head' = node[head].next
       /\ node' = [node EXCEPT ![head'].prev = NULL, ![head] = Freed]
       /\ UNCHANGED tail

list_rpop ==
    \/ PopEmpty("rpop")
    \/ PopLast("rpop", tail)
    \/ /\ len > 1
       /\ Pop("rpop", tail)
       /\ tail' = node[tail].prev
       /\ node' = [node EXCEPT ![tail'].next = NULL, ![tail] = Freed]
       /\ UNCHANGED head

-----------------------------------------------------------------------------
(* The reply of a command that names elements: what a list that has them     *)
(* gives, an error if it has not, and missing if there is no list.           *)
Checked(valid, res, missing) ==
    IF len = 0 THEN missing ELSE IF valid THEN res ELSE <<RangeError>>

lindex(id) ==
    /\ Idle("lindex", <<id>>,
            Checked(check_id(id), <<node[list_index(FromFront(id))].value>>, <<NULL>>))
    /\ UNCHANGED list

list_set(id, v) ==
    LET n == list_index(id)
    IN  IF n = NULL THEN UNCHANGED node ELSE node' = [node EXCEPT ![n].value = v]

lset(id, v) ==
    /\ Idle("lset", <<id>>, Checked(check_id(id), <<OK>>, <<NULL>>))
    /\ IF check_id(id) THEN list_set(FromFront(id), v) ELSE UNCHANGED node
    /\ UNCHANGED <<len, head, tail, owned>>

list_range(begin, end) ==
    [j \in 1 .. (end - begin + 1) |-> node[list_index(begin + j - 1)].value]

lrange(begin, end) ==
    /\ Idle("lrange", <<begin, end>>,
            Checked(check_ids(begin, end),
                    list_range(FromFront(begin), FromFront(end)), <<>>))
    /\ UNCHANGED list

(* The walk that ends at the first node with the value or, without one, NULL. *)
list_pos(v) ==
    LET hits == {j \in 0 .. (Cardinality(Nodes) - 1) :
                    list_index(j) # NULL /\ node[list_index(j)].value = v}
    IN  IF hits = {} THEN -1 ELSE CHOOSE j \in hits : \A k \in hits : j <= k

lpos(v) == Idle("lpos", <<v>>, <<list_pos(v)>>) /\ UNCHANGED list

-----------------------------------------------------------------------------
(* list_rem, up to the head of its loop. *)
list_rem(c, v) ==
    /\ pc = "idle" /\ pc' = "rem"
    /\ cur' = IF c >= 0 THEN head ELSE tail
    /\ count' = c /\ pos' = c /\ arg' = v /\ i' = 0
    /\ before' = Elements
    /\ UNCHANGED <<list, ret>>

(* Broken variant: the loop does not look at its count. *)
RemDone_uncounted == cur = NULL

RemDone == cur = NULL \/ (pos # 0 /\ count = 0)

(* node_del(ls, nd), and node_free(nd), which follows when nd has been left. *)
node_del(nd) ==
    \/ /\ len = 1
       /\ head' = NULL /\ tail' = NULL
       /\ node' = [node EXCEPT ![nd] = Freed]
    \/ /\ len # 1 /\ nd = head
       /\ head' = node[nd].next
       /\ node' = [node EXCEPT ![head'].prev = NULL, ![nd] = Freed]
       /\ UNCHANGED tail
    \/ /\ len # 1 /\ nd # head /\ nd = tail
       /\ tail' = node[nd].prev
       /\ node' = [node EXCEPT ![tail'].next = NULL, ![nd] = Freed]
       /\ UNCHANGED head
    \/ /\ len # 1 /\ nd \notin {head, tail}
       /\ node' = [node EXCEPT ![node[nd].prev].next = node[nd].next,
                               ![node[nd].next].prev = node[nd].prev,
                               ![nd] = Freed]
       /\ UNCHANGED <<head, tail>>

(* Broken variants: the loop stays at a node it has removed, or at a node it *)
(* has not.                                                                  *)
RemStep_dangling ==
    /\ pc = "rem" /\ ~ RemDone
    /\ node[cur].value = arg
    /\ node_del(cur)
    /\ owned' = owned \ {cur}
    /\ i' = i + 1 /\ len' = len - 1
    /\ UNCHANGED <<pc, cur, count, pos, arg, before, ret>>
RemStep_stuck ==
    /\ pc = "rem" /\ ~ RemDone
    /\ node[cur].value = arg
    /\ node_del(cur)
    /\ owned' = owned \ {cur}
    /\ i' = i + 1 /\ len' = len - 1
    /\ count' = IF pos >= 0 THEN count - 1 ELSE count + 1
    /\ cur' = IF pos >= 0 THEN node[cur].next ELSE node[cur].prev
    /\ UNCHANGED <<pc, pos, arg, before, ret>>

RemStep ==
    /\ pc = "rem" /\ ~ RemDone
    /\ IF node[cur].value = arg
       THEN /\ node_del(cur)
            /\ owned' = owned \ {cur}
            /\ i' = i + 1 /\ len' = len - 1
            /\ count' = IF pos >= 0 THEN count - 1 ELSE count + 1
       ELSE UNCHANGED <<list, i, count>>
    /\ cur' = IF pos >= 0 THEN node[cur].next ELSE node[cur].prev
    /\ UNCHANGED <<pc, pos, arg, before, ret>>

ResetLocals ==
    /\ pc' = "idle" /\ cur' = NULL /\ count' = 0 /\ pos' = 0 /\ arg' = NULL /\ i' = 0
    /\ before' = <<>>

RemReturn ==
    /\ pc = "rem" /\ RemDone
    /\ Return("lrem", <<pos, arg>>, <<i>>)
    /\ ResetLocals
    /\ UNCHANGED list

-----------------------------------------------------------------------------
(* htable_del of the key: list_free, up to the head of its loop. *)
list_free ==
    /\ pc = "idle" /\ pc' = "free"
    /\ cur' = head
    /\ before' = Elements
    /\ UNCHANGED <<list, count, pos, arg, i, ret>>

FreeStep ==
    /\ pc = "free" /\ len # 0
    /\ len' = len - 1
    /\ cur' = node[cur].next
    /\ node' = [node EXCEPT ![cur] = Freed]
    /\ owned' = owned \ {cur}
    /\ UNCHANGED <<head, tail, pc, count, pos, arg, i, before, ret>>

FreeReturn ==
    /\ pc = "free" /\ len = 0
    /\ head' = NULL /\ tail' = NULL
    /\ Return("del", <<>>, <<>>)
    /\ ResetLocals
    /\ UNCHANGED <<len, node, owned>>

Loops == RemStep \/ RemReturn \/ FreeStep \/ FreeReturn

Next ==
    \/ \E v \in Values : list_lpush(v) \/ list_rpush(v) \/ lpos(v)
    \/ list_lpop \/ list_rpop
    \/ \E id \in Ids : lindex(id) \/ \E v \in Values : lset(id, v)
    \/ \E begin, end \in Ids : lrange(begin, end)
    \/ \E c \in Counts, v \in Values : list_rem(c, v)
    \/ list_free
    \/ Loops

Spec == Init /\ [][Next]_vars

(* A loop is straight-line code of the one server thread. *)
FairSpec == Spec /\ WF_vars(Loops)

-----------------------------------------------------------------------------
(* Type invariant. *)
TypeOK ==
    /\ len \in 0 .. Cardinality(Nodes) /\ head \in Pointer /\ tail \in Pointer
    /\ node \in [Nodes -> Node] /\ owned \subseteq Nodes
    /\ pc \in {"idle", "rem", "free"}
    /\ cur \in Pointer /\ count \in Int /\ pos \in Int /\ i \in Nat
    /\ arg \in Values \cup {NULL} /\ before \in Seq(Values)

(* Between two iterations of any call the list is well linked: following     *)
(* next from head visits exactly the nodes the list owns, in len steps, and  *)
(* prev is the way back.                                                     *)
WellLinked ==
    pc # "free" =>
        /\ {list_index(j) : j \in 0 .. (len - 1)} = owned
        /\ list_index(len) = NULL
        /\ Cardinality(owned) = len
        /\ len = 0 => tail = NULL
        /\ len > 0 => node[head].prev = NULL /\ tail = list_index(len - 1)
        /\ \A n \in owned : node[n].next # NULL => node[node[n].next].prev = n

(* The loops that free nodes never use a node after it was freed: the node   *)
(* they are about to read is still owned, and list_free reaches its NULL     *)
(* only when it has freed every node.                                        *)
NoUseAfterFree ==
    /\ cur # NULL => cur \in owned
    /\ pc = "free" => Cardinality(owned) = len /\ (len > 0 => cur # NULL)
    /\ pc = "idle" /\ len = 0 => owned = {}

Contents == INSTANCE ListContents WITH
    items <- IF pc = "idle" THEN Elements ELSE before, last <- ret

(* Every list command has the effect and the answer of the sequence's: the   *)
(* links, the two removal directions and the negative indices are right.     *)
RefinesContents == Contents!Spec

(* list_rem and list_free end and the server goes on. *)
LoopsEnd == pc # "idle" ~> pc = "idle"
=============================================================================
