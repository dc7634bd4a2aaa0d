---------------------------- MODULE ListContents ----------------------------
(***************************************************************************)
(* What the list commands are to a client: a sequence of values, with the  *)
(* answer of the last call.  An index counts from the front from 0 or,     *)
(* negative, from the back.  One that is outside the list is refused, as   *)
(* the code has it; the documents promise a null or a shorter range.       *)
(***************************************************************************)
EXTENDS Integers, Sequences, FiniteSets

CONSTANTS Values, Ids, Counts, NULL, OK, RangeError

VARIABLES items,   \* the elements, front first
          last     \* the last call and its answer

vars == <<items, last>>

Reply(op, arg, res) == last' = [op |-> op, arg |-> arg, res |-> res]

Init == items = <<>> /\ last = [op |-> "none", arg |-> <<>>, res |-> <<>>]

LPush(v) == items' = <<v>> \o items /\ Reply("lpush", <<v>>, <<Len(items) + 1>>)
RPush(v) == items' = items \o <<v>> /\ Reply("rpush", <<v>>, <<Len(items) + 1>>)

LPop ==
    IF items = <<>> THEN Reply("lpop", <<>>, <<NULL>>) /\ UNCHANGED items
    ELSE items' = Tail(items) /\ Reply("lpop", <<>>, <<Head(items)>>)

RPop ==
    IF items = <<>> THEN Reply("rpop", <<>>, <<NULL>>) /\ UNCHANGED items
    ELSE /\ items' = SubSeq(items, 1, Len(items) - 1)
         /\ Reply("rpop", <<>>, <<items[Len(items)]>>)

(* The position an index stands for; it may be outside 1 .. Len(items). *)
Position(id) == IF id < 0 THEN Len(items) + id + 1 ELSE id + 1

(* A key that has no list is no error, whatever the index. *)
Refusal(missing) == IF items = <<>> THEN missing ELSE <<RangeError>>

Index(id) ==
    /\ Reply("lindex", <<id>>, IF Position(id) \in DOMAIN items
                               THEN <<items[Position(id)]>> ELSE Refusal(<<NULL>>))
    /\ UNCHANGED items

Set(id, v) ==
    IF Position(id) \in DOMAIN items
    THEN items' = [items EXCEPT ![Position(id)] = v] /\ Reply("lset", <<id>>, <<OK>>)
    ELSE Reply("lset", <<id>>, Refusal(<<NULL>>)) /\ UNCHANGED items

RangeOf(begin, end) ==
    /\ Reply("lrange", <<begin, end>>,
             IF {Position(begin), Position(end)} \subseteq DOMAIN items
                  /\ Position(begin) <= Position(end)
             THEN SubSeq(items, Position(begin), Position(end)) ELSE Refusal(<<>>))
    /\ UNCHANGED items

Occurrences(v) == {i \in DOMAIN items : items[i] = v}

(* The first occurrence of v, counted from 0. *)
Pos(v) ==
    /\ Reply("lpos", <<v>>,
             <<IF Occurrences(v) = {} THEN -1
               ELSE (CHOOSE i \in Occurrences(v) : \A j \in Occurrences(v) : i <= j) - 1>>)
    /\ UNCHANGED items

(* The count first, or for a negative count last, occurrences; all for 0. *)
Chosen(count, v) ==
    {i \in Occurrences(v) :
        \/ count = 0
        \/ count > 0 /\ Cardinality({j \in Occurrences(v) : j <= i}) <= count
        \/ count < 0 /\ Cardinality({j \in Occurrences(v) : j >= i}) <= -count}

(* rest is items without the positions in S, in the same order. *)
Without(S, rest) ==
    \E f \in [1 .. Len(items) - Cardinality(S) -> DOMAIN items \ S] :
        /\ \A i, j \in DOMAIN f : i < j => f[i] < f[j]
        /\ rest = [i \in DOMAIN f |-> items[f[i]]]

Remove(count, v) ==
    /\ Without(Chosen(count, v), items')
    /\ Reply("lrem", <<count, v>>, <<Cardinality(Chosen(count, v))>>)

Delete == items' = <<>> /\ Reply("del", <<>>, <<>>)

Next ==
    \/ \E v \in Values : LPush(v) \/ RPush(v) \/ Pos(v) \/ \E c \in Counts : Remove(c, v)
    \/ LPop \/ RPop \/ Delete
    \/ \E id \in Ids : Index(id) \/ \E v \in Values : Set(id, v)
    \/ \E begin, end \in Ids : RangeOf(begin, end)

Spec == Init /\ [][Next]_vars
=============================================================================
