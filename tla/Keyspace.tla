------------------------------ MODULE Keyspace ------------------------------
(***************************************************************************)
(* The typed layer of src/htable.c: what the server's table maps keys to,  *)
(* strings, hashes, lists and sets, and the functions htable_hset, _push,  *)
(* _sadd, ... that read and write them.                                    *)
(*                                                                         *)
(* Here a table is an exact map from keys to entries or from fields to     *)
(* values, and a set is a set, so that used is the number of elements.     *)
(* That is no finding of this module: a resize that loses an item leaves   *)
(* used as it was (htable.c:69), and set_add may store and count a member  *)
(* twice (set.c:68).  How far tables are from maps is found by HashTable   *)
(* and HashSet, and by HashKey for the hash under a key, where its used    *)
(* comes to 0 late or never.  A function that writes is an operator that   *)
(* gives its outcome, a store and a returned value.                        *)
(***************************************************************************)
EXTENDS CInt, SequencesExt, FiniteSets

CONSTANTS Keys, Names,   \* Names: the fields, members and elements
          Words,         \* the texts that are no numbers
          EMPTY, MINUS,  \* "" and "-", numbers without a digit
          Padded,        \* bound: the ints that also come with a leading zero
          NULL,
          GARBAGE,       \* the bytes of a struct, taken for a text
          MaxLength      \* bound: the elements of a list

(* A text is not what strtoi reads in it: "7" is what intostr writes for 7,  *)
(* "07" is another text, and so are "" and "-", which are read as 0.         *)
intostr(n) == [int |-> n, zeros |-> 0]
Numerals == [int : Ints, zeros : {0}] \cup [int : Padded, zeros : {1}] \cup {EMPTY, MINUS}
Texts == Words \cup Numerals
is_number(v) == v \in Numerals
strtoi(v) == IF v \in {EMPTY, MINUS} THEN 0 ELSE v.int

String(v)  == [type |-> "string", value |-> v]
Hash(f, u) == [type |-> "hash", fields |-> f, used |-> u]
List(s)    == [type |-> "list", elements |-> s]
Set(m, u)  == [type |-> "set", members |-> m, used |-> u]

(* What a key may have. *)
Entry ==
    [type : {"string"}, value : Texts]
        \cup [type : {"hash"}, fields : [Names -> Texts \cup {NULL}],
              used : 1 .. Cardinality(Names)]
        \cup [type : {"list"}, elements : Seq(Names)]
        \cup [type : {"set"}, members : SUBSET Names, used : 1 .. Cardinality(Names)]

ASSUME KeyspaceAssumption ==
    /\ NULL \notin Keys \cup Names \cup Texts \cup Entry
    /\ GARBAGE \notin Texts \cup {NULL}
    /\ Words \cap Numerals = {}
    /\ {EMPTY, MINUS} \cap [int : Ints, zeros : {0, 1}] = {}
    /\ Padded \subseteq Ints /\ MaxLength \in Nat /\ IsFiniteSet(Names)

VARIABLE store   \* the server's table, [Keys -> an entry or NULL]

Outcome(s, r) == [store |-> s, res |-> r]
Stored(k, e, r) == Outcome([store EXCEPT ![k] = e], r)
Deleted(k, r) == Stored(k, NULL, r)
Unchanged(r) == Outcome(store, r)

Bit(b) == IF b THEN 1 ELSE 0

-----------------------------------------------------------------------------
htable_exists(k) == store[k] # NULL
htable_type(k) == IF store[k] = NULL THEN "none" ELSE store[k].type
is_type(k, type) == htable_type(k) \in {type, "none"}

(* What is at the value pointer is taken for a string. *)
htable_get(k) ==
    IF ~ htable_exists(k) THEN NULL
    ELSE IF store[k].type = "string" THEN store[k].value ELSE GARBAGE

(* Deleting a key frees its value, whatever its type. *)
htable_del(k) == IF htable_exists(k) THEN Deleted(k, 1) ELSE Unchanged(0)

(* Any key may be set: htable_update_str replaces a value of another type. *)
htable_set(k, v) == Stored(k, String(v), Bit(~ htable_exists(k)))

-----------------------------------------------------------------------------
(* Hashes. *)
NoFields == [n \in Names |-> NULL]
Fields(h) == {f \in Names : h.fields[f] # NULL}

(* The hash under k, or the fresh table of a key that has none. *)
HashOf(k) == IF htable_exists(k) THEN store[k] ELSE Hash(NoFields, 0)

(* Broken variant: an update answers like a new field. *)
htable_hset_counted(k, f, v) ==
    LET h == HashOf(k)
    IN  Stored(k, Hash([h.fields EXCEPT ![f] = v], h.used + Bit(h.fields[f] = NULL)), 1)

htable_hset(k, f, v) ==
    LET h == HashOf(k)
        n == Bit(h.fields[f] = NULL)
    IN  Stored(k, Hash([h.fields EXCEPT ![f] = v], h.used + n), n)

(* A hash whose used is 0 is deleted with its key. *)
htable_hdel(k, f) ==
    LET h == HashOf(k)
        n == Bit(h.fields[f] # NULL)
    IN  IF ~ htable_exists(k) THEN Unchanged(0)
        ELSE IF h.used - n = 0 THEN Deleted(k, n)
        ELSE Stored(k, Hash([h.fields EXCEPT ![f] = NULL], h.used - n), n)

htable_hget(k, f) == IF htable_exists(k) THEN store[k].fields[f] ELSE NULL
htable_hlen(k) == IF htable_exists(k) THEN store[k].used ELSE 0

(* What htable_hgetall and htable_hkeyvals collect: when the loop has not    *)
(* met used fields they return NULL, which is answered as an empty array.    *)
htable_hgetall(k) ==
    IF htable_exists(k) /\ Cardinality(Fields(store[k])) = store[k].used
    THEN Fields(store[k]) ELSE {}

-----------------------------------------------------------------------------
(* Lists. *)
ElementsOf(k) == IF htable_exists(k) THEN store[k].elements ELSE <<>>
htable_llen(k) == Len(ElementsOf(k))

htable_push(k, v, dir) ==
    LET s == ElementsOf(k)
        t == IF dir = "left" THEN <<v>> \o s ELSE Append(s, v)
    IN  Stored(k, List(t), Len(t))

(* The elements of k become s; without any the key is deleted. *)
WithElements(k, s, r) == IF s = <<>> THEN Deleted(k, r) ELSE Stored(k, List(s), r)

htable_pop(k, dir) ==
    LET s == ElementsOf(k)
    IN  IF ~ htable_exists(k) THEN Unchanged(NULL)
        ELSE IF dir = "left" THEN WithElements(k, Tail(s), Head(s))
        ELSE WithElements(k, Front(s), Last(s))

(* An index as a position from 1 on, outside 1 .. len if it is refused. *)
Position(k, id) == IF id < 0 THEN htable_llen(k) + id + 1 ELSE id + 1

htable_lset(k, i, v) ==
    IF htable_exists(k) THEN Stored(k, List([ElementsOf(k) EXCEPT ![i] = v]), 1)
    ELSE Unchanged(0)

Occurrences(s, v) == {i \in DOMAIN s : s[i] = v}

htable_lpos(k, v) ==
    LET hits == Occurrences(ElementsOf(k), v)
    IN  IF hits = {} THEN -1 ELSE (CHOOSE i \in hits : \A j \in hits : i <= j) - 1

(* list_rem: the first count occurrences, the last ones for a negative       *)
(* count, all of them for 0.                                                 *)
Removed(s, count, v) ==
    {i \in Occurrences(s, v) :
        \/ count = 0
        \/ count > 0 /\ Cardinality(Occurrences(s, v) \cap 1 .. i) <= count
        \/ count < 0 /\ Cardinality(Occurrences(s, v) \cap i .. Len(s)) <= -count}

htable_lrem(k, count, v) ==
    LET s    == ElementsOf(k)
        gone == Removed(s, count, v)
        kept == DOMAIN s \ gone
        rest == [n \in 1 .. Cardinality(kept) |->
                    s[CHOOSE i \in kept : Cardinality(kept \cap 1 .. i) = n]]
    IN  IF ~ htable_exists(k) THEN Unchanged(0)
        ELSE WithElements(k, rest, Cardinality(gone))

-----------------------------------------------------------------------------
(* Sets. *)
SetOf(k) == IF htable_exists(k) THEN store[k] ELSE Set({}, 0)

htable_sismember(k, m) == m \in SetOf(k).members
htable_smembers(k) == SetOf(k).members

htable_sadd(k, m) ==
    LET n == Bit(~ htable_sismember(k, m))
    IN  Stored(k, Set(SetOf(k).members \cup {m}, SetOf(k).used + n), n)

(* Broken variant: the key stays when its last member goes. *)
htable_srem_kept(k, m) ==
    LET n == Bit(htable_sismember(k, m))
    IN  IF ~ htable_exists(k) THEN Unchanged(0)
        ELSE Stored(k, Set(SetOf(k).members \ {m}, SetOf(k).used - n), n)

(* A set whose used is 0 is deleted with its key. *)
htable_srem(k, m) ==
    LET n == Bit(htable_sismember(k, m))
    IN  IF ~ htable_exists(k) THEN Unchanged(0)
        ELSE IF SetOf(k).used - n = 0 THEN Deleted(k, n)
        ELSE Stored(k, Set(SetOf(k).members \ {m}, SetOf(k).used - n), n)
=============================================================================
